SPECIFICATION Spec
CONSTANTS
    PoolSize = 2
    ActiveCounts = {2}
    FastModes = {TRUE}
    StageSize = 2
    TaskBatchSize = 2
    Throwing = {}
    LateStart = TRUE
    MaxTasks = 2
    MaxCalls = 1
\* A destroyed runtime does nothing more, and a phase that was missed hangs.
CHECK_DEADLOCK FALSE
INVARIANT
    SeenMeansServed
