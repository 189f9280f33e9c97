SPECIFICATION Spec
CONSTANTS
    Node = {n1, n2}
INVARIANTS
    Exclusive
CHECK_DEADLOCK FALSE
