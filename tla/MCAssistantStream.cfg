CONSTANTS
    MaxTurns = 2
    MaxMessages = 1
    MaxChunks = 3
    ReplayLimit = 2
    MaxEvents = 7
    MaxChanges = 1
    MaxReloads = 1
SPECIFICATION Spec
INVARIANTS
    ShownIsWritten
PROPERTIES
    GaplessOrReset
    EventsCatchUp
CHECK_DEADLOCK FALSE
