SPECIFICATION Spec
CONSTANTS
    PoolSize = 1
    ActiveCounts = {1}
    FastModes = {TRUE}
    StageSize = 2
    TaskBatchSize = 2
    Throwing = {}
    LateStart = FALSE
    MaxTasks = 2
    MaxCalls = 1
\* A destroyed runtime does nothing more, and a phase that was missed hangs.
CHECK_DEADLOCK FALSE
INVARIANT
    NoLostWakeup
