CONSTANTS
    CallIds = {k1, k2, k3}
    TurnReads = 1
    TurnProposals = 1
    SessionReads = 1
    SessionProposals = 2
    TurnOutput = 1
    SessionOutput = 1
    Sizes = {1}
    TurnCorrections = 1
    MaxSessions = 2
    MaxTurns = 2
SPECIFICATION Spec
SYMMETRY Symmetry
INVARIANTS
    WithinBudget
PROPERTIES
    OneCallOneAnswer
    DataUnderConsent
