SPECIFICATION ClientsSpec
CONSTANTS
    BucketLists <- MCBucketLists
    MaxBatch = 3
    MaxCalls = 14
    FreeCalls = 2
    Faults = {"h2d", "launch", "pre_run", "run", "d2h", "post_run"}
    MaxBatchSize = 2
    BucketSpecs <- MCBucketSpecs
    NoToken = 99
    RowSizes <- MCRowSizes
    kWarmupIters = 1
    kTimedIters = 2
    ChurnMax = 3
    ChurnWarmups = 1
    ChurnIters = 2
    Times = {1, 2}
INVARIANTS OwnRows WithinBuffers PaddingInitialised NeverReplans RowsTimedWarm RowReported
CHECK_DEADLOCK FALSE
