SPECIFICATION MCSpec
CONSTANTS
    Node = {a, b}
    EV = 1
    EX = 3
    IV = 3
    Width = 4
    HWM = 1
    Bound <- Budget
    Total = 3
INVARIANTS
    TypeOK
    AppsRight
PROPERTIES
    GapsExplained
    Patience
    Episodes
    Resolved
