SPECIFICATION Spec
CONSTANTS
    Caps = {query, loading}
    Ops = {o1}
    Hooks = {h1, h2}
INVARIANTS
    StagedOrder
    HooksRunOnce
    NoCallLeftOpen
PROPERTIES
    LiveResults
    CleanupsRelease
    ImplementsContract
CHECK_DEADLOCK FALSE
