SPECIFICATION FairSpec
CONSTANTS
    kBlockSize = 2
    kMaxBlocks = 2
    MaxChannels = 2
    MaxStreams = 2
    MaxBatch = 2
    MaxElems = 4
    MaxEngines = 1
    MaxCalls = 2
    MaxAllocations = 8
    kMinBucket = 1
    Width = 4
INVARIANTS SingleOwner OwnRowsInPlace
PROPERTIES ProgramEnds
CHECK_DEADLOCK FALSE
