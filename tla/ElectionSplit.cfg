SPECIFICATION SplitSpec
CONSTANTS
    Node = {1, 2, 3}
    None = None
    Bound <- BudgetOf
INVARIANTS
    Agreement
CHECK_DEADLOCK FALSE
