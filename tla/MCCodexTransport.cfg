\* Two calls against a table of one, one request of the child, two frames at a time.
CONSTANTS
    Initialize = initialize
    Calls = {a, b}
    ServerRequests = {s1}
    Limit = 1
    MaxFrames = 2
SPECIFICATION FairSpec
INVARIANTS NoChildLeft HookAfterAnswer
PROPERTIES ImplementsLedger EverythingEnds
CHECK_DEADLOCK FALSE
