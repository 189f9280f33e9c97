SPECIFICATION MCSpec
CONSTANTS
    Sender = {s1, s2}
    Receiver = r
    Chunks = 2
    HWM = 2
    None = None
    Room = 1
    Bound <- Budget
    Total = 1
INVARIANTS
    Whole
PROPERTIES
    Delivered
    Reported
CHECK_DEADLOCK FALSE
