CONSTANTS
    ResourceIds = {r1, r2, r3, r4, r5}
    ConsentVersions = {v1, v2}
    MaxIssued = 4
    None = None
SPECIFICATION ReducerSpec
SYMMETRY Symmetry
INVARIANTS
    OneRolePerIdentifier
    LiveSessionHasProvider
    ActiveTurnInReadySession
    TurnUnderConsent
PROPERTIES
    NoResurrection
