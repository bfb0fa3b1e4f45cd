SPECIFICATION Spec
CONSTANTS
    Wallets = {w1, w2}
    MaxKits = 1
    MaxAttempts = 1
INVARIANT SignedByConnectedWallet
CHECK_DEADLOCK FALSE
