SPECIFICATION MCSpec
CONSTANTS
    Requests = {q1}
    Accounts = {a1, a2}
    Chains = {mainnet, sepolia}
    Target = mainnet
    Any = Any
    Nobody = Nobody
    MaxPolls = 2
    h1 = h1
    Workers = {w1}
    Holders = {h1}
    HolderOf <- OneHolder
    Wirings <- MCWirings
    MaxFaults = 3
INVARIANTS
    SignedByRequired
    SentOnTarget
    RelayerAnswerFinal
PROPERTIES
    RelayerEnds
    Onboarded
CHECK_DEADLOCK FALSE
