CONSTANTS
    Clients = {k1, k2}
    MaxSessions = 1
    MaxTurns = 1
SPECIFICATION FairSpec
PROPERTIES
    EndingsComplete
CHECK_DEADLOCK FALSE
