SPECIFICATION MCSpec
CONSTANTS
    n1 = n1
    Node = {n1, n2}
    None = None
    Bound <- EachOnce
    Total = 2
INVARIANTS
    TypeOK
    TablesAgree
    HubFresh
PROPERTIES
    Meet
CHECK_DEADLOCK FALSE
