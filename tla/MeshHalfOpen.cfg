SPECIFICATION LiveSpec
CONSTANTS
    Node = {n1, n2}
    Group = {g1}
    HWM = 9
    Bound <- CutBudget
PROPERTIES
    BothReady
