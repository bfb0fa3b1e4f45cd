SPECIFICATION Spec
CONSTANTS
    Calls = {1, 2}
    MaxRpc = 1
PROPERTIES
    FreshSettings
CHECK_DEADLOCK FALSE
