SPECIFICATION FairSpec
CONSTANTS
    r1 = r1
    r2 = r2
    r3 = r3
    Requests = {r1, r2, r3}
    MaxBatchSize = 2
    MaxWait = 1
    MaxExec = 1
    OnnxBuild = FALSE
    MaxStops = 2
    MaxReads = 1
INVARIANTS OwnAnswer LatencyBounded NoDoubleCount
PROPERTIES EveryPredictReturns EveryStopReturns
CHECK_DEADLOCK FALSE
