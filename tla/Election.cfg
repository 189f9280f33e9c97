SPECIFICATION MCSpec
CONSTANTS
    Node = {1, 2, 3}
    None = None
    Bound <- BudgetOf
INVARIANTS
    TypeOK
    Agreement
    Elected
    LowestLeads
    NoPhantom
PROPERTIES
    TwoFinish
CHECK_DEADLOCK FALSE
