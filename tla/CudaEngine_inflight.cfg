SPECIFICATION Spec
CONSTANTS
    t1 = t1
    t2 = t2
    Callers = {t1, t2}
    Sizes = {1}
    MinBucket = 2
    MaxBlocks = 4
    StreamCount = 2
    MaxCalls = 1
    Faults = {"staging", "device", "h2d", "launch", "d2h", "sync"}
SYMMETRY ThreadSymmetry
INVARIANTS IdleWhenReleased
CHECK_DEADLOCK FALSE
