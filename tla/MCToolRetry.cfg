CONSTANTS
    CallIds = {k1, k2}
    TurnReads = 1
    TurnProposals = 1
    SessionReads = 1
    SessionProposals = 2
    TurnOutput = 1
    SessionOutput = 1
    Sizes = {1}
    TurnCorrections = 1
    MaxSessions = 1
    MaxTurns = 1
SPECIFICATION Spec
SYMMETRY Symmetry
PROPERTIES
    AnswersUnderConsent
