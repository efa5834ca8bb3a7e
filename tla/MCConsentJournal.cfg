CONSTANTS
    Hosts = {h1, h2}
    Capacity = 6
    MaxRecords = 8
SPECIFICATION JournalSpec
SYMMETRY Symmetry
INVARIANTS
    RevocationHolds
    ReadableWithRoom
PROPERTIES
    GrantedByGrant
