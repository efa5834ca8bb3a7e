CONSTANTS
    Clients = {k1, k2}
    MaxSessions = 2
    MaxTurns = 2
SPECIFICATION Spec
SYMMETRY Symmetry
INVARIANTS
    
    ToolsOnlyInActiveTurn
    ShownIsDurable
    ProviderAsTold
PROPERTIES
    TransfersUnderConsent
CHECK_DEADLOCK FALSE
