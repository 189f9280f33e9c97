SPECIFICATION Spec
CONSTANTS
    Node = {n1, n2}
    Group = {g1}
    HWM = 2
    Bound <- FaultBudget
SYMMETRY Symmetry
INVARIANTS
    TypeOK
    GroupIndex
    AppView
    Handshake
PROPERTIES
    EventsInOrder
