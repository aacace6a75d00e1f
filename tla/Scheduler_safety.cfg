SPECIFICATION Spec
CONSTANTS
    r1 = r1
    r2 = r2
    r3 = r3
    r4 = r4
    Requests = {r1, r2, r3, r4}
    MisSized = {r4}
    MaxBatchSize = 2
    MaxWait = 1
    MayExhaustMemory = TRUE
    MayReset = FALSE
    NoOutcome = NoOutcome
    Failure = Failure
SYMMETRY WellSizedSymmetry
INVARIANTS ExitDrained OwnRow NoLostWakeup CountersAgree
PROPERTIES ImplementsService
CHECK_DEADLOCK FALSE
