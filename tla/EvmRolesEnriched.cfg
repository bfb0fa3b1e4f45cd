SPECIFICATION Spec
CONSTANTS
    reader = reader
    discoverer = discoverer
    Calls <- MCCalls
    Methods <- MCMethods
    Roles = {r1, r2}
    Given = {r1}
    Named = {r1}
    Accounts = {a1}
    Window = 1
    MaxEvents = 2
    MaxContexts = 1
INVARIANT EnrichedMembersHeld
CHECK_DEADLOCK FALSE
