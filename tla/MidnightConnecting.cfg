SPECIFICATION FairSpec
CONSTANTS
    Accounts = {a1}
    MaxClicks = 1
    MaxPolls = 1
PROPERTY ConnectingEnds
CHECK_DEADLOCK FALSE
