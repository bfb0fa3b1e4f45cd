SPECIFICATION SafetySpec
CONSTANTS
    h1 = h1
    Workers = {w1, w2}
    Holders = {h1}
    HolderOf <- OneHolder
    Wirings <- MCWirings
    MaxFaults = 2
SYMMETRY Symmetric
INVARIANTS
    SuccessIsOnChain
    AlreadyIsOnChain
    RescueKeyFirst
CHECK_DEADLOCK FALSE
