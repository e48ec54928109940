SPECIFICATION Spec
CONSTANTS
    PoolSize = 2
    ActiveCounts = {1, 2}
    FastModes = {FALSE}
    StageSize = 2
    TaskBatchSize = 2
    Throwing = {}
    LateStart = FALSE
    MaxTasks = 3
    MaxCalls = 2
\* A destroyed runtime does nothing more, and a phase that was missed hangs.
CHECK_DEADLOCK FALSE
INVARIANT
    OnlyActiveWorkersOnWorkCv
