SPECIFICATION Spec
CONSTANTS
    t1 = t1
    t2 = t2
    Callers = {t1, t2}
    Sizes = {1}
    MinBucket = 2
    MaxBlocks = 4
    StreamCount = 2
    MaxCalls = 2
    Faults = {"staging", "device", "h2d"}
SYMMETRY ThreadSymmetry
INVARIANTS OwnResult PoolAccounted PoolStaysSmall
CHECK_DEADLOCK FALSE
