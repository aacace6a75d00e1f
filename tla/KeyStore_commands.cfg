SPECIFICATION FairSpec
CONSTANTS
    p1 = p1
    p2 = p2
    p3 = p3
    a = a
    b = b
    Processes = {p1, p2, p3}
    Generates = {p1, p2}
    Key <- MCKey
    NoFile = NoFile
    Garbage = Garbage
INVARIANTS NeverTorn AcknowledgedStays
PROPERTIES OneKeyPerUpdate EveryCommandEnds
CHECK_DEADLOCK FALSE
