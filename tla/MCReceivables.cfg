CONSTANTS
    Clients = {c1, c2}
    ReceivableIds = {r1}
    PaymentIds = {p1, p2}
    ProposalIds = {u1, u2}
    Keys = {k1}
    Opening = {2}
    Revised = {1}
    Amounts = {1}
    MaxVersion = 3
    RowLocks = TRUE
    None = None
SPECIFICATION Spec
SYMMETRY Symmetry
INVARIANTS
    BooksAgree
    ProposalAppliedOnce
PROPERTIES
    NoStaleWrite
