SPECIFICATION Spec
CONSTANTS
    Calls = {1, 2, 3}
    MaxRpc = 1
INVARIANTS
    OneConfig
    SequentialCallsFit
    ProviderOverItsConfig
PROPERTIES
    ConnectionKept
    EventsInvalidate
    InitializingEnds
CHECK_DEADLOCK FALSE
