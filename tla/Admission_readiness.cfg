SPECIFICATION Spec
CONSTANTS
    r1 = r1
    r2 = r2
    Requests = {r1, r2}
    Abandoned = {r1}
    Capacity = 1
    Workers = 1
INVARIANTS EngineFailureUnready
CHECK_DEADLOCK FALSE
