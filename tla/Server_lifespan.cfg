SPECIFICATION FairServerSpec
CONSTANTS
    r1 = r1
    r2 = r2
    r3 = r3
    Requests = {r1, r2, r3}
    Abandoned = {r1, r2}
    Keyed = {r1, r2}
    AuthRequired = TRUE
    Capacity = 1
    Workers = 1
INVARIANTS PermitsAccounted WorkBounded NoCallOnStopped ReadyMeansServing
           OneResponse DrainedMeansIdle
PROPERTIES ShutdownCompletes StartupDecides PermitReturns LateFailureNoticed
CHECK_DEADLOCK FALSE
