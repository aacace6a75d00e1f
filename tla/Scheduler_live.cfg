SPECIFICATION FairSpec
CONSTANTS
    r1 = r1
    r2 = r2
    Requests = {r1, r2}
    MisSized = {r2}
    MaxBatchSize = 2
    MaxWait = 1
    MayExhaustMemory = FALSE
    MayReset = TRUE
    NoOutcome = NoOutcome
    Failure = Failure
INVARIANTS WorkerSurvives
PROPERTIES CountersSettle EveryRequestAnswered StopReturns
CHECK_DEADLOCK FALSE
