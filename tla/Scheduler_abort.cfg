SPECIFICATION Spec
CONSTANTS
    r1 = r1
    r2 = r2
    r3 = r3
    Requests = {r1, r2, r3}
    MisSized = {r3}
    MaxBatchSize = 2
    MaxWait = 1
    MayExhaustMemory = TRUE
    MayReset = FALSE
    NoOutcome = NoOutcome
    Failure = Failure
INVARIANTS FailuresAreCatchable
CHECK_DEADLOCK FALSE
