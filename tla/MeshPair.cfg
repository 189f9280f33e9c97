SPECIFICATION PairSpec
CONSTANTS
    Node = {n1, n2}
    Group = {g1}
    HWM = 9
    Bound <- PairBudget
INVARIANTS
    NeverDeaf
    HelloFirst
    ViewAgrees
PROPERTIES
    BothReady
    DepartedForgotten
CHECK_DEADLOCK FALSE
