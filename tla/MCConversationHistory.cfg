CONSTANTS
    Clients = {k1, k2}
    Conversations = {c1, c2}
    Turns = {t1, t2}
    Prompts = {m1}
    Threads = {x1, x2}
    Replies = {1}
    MaxVersion = 5
    RowLocks = TRUE
    None = None
SPECIFICATION Spec
SYMMETRY Symmetry
INVARIANTS
    TranscriptMatchesTurns
PROPERTIES
    EndedOnce
CHECK_DEADLOCK FALSE
