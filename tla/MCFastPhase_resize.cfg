SPECIFICATION Spec
CONSTANTS
    PoolSize = 2
    ActiveCounts = {0, 1, 2}
    FastModes = {TRUE, FALSE}
    StageSize = 2
    TaskBatchSize = 2
    Throwing = {}
    LateStart = TRUE
    MaxTasks = 3
    MaxCalls = 3
\* A destroyed runtime does nothing more, and a phase that was missed hangs.
CHECK_DEADLOCK FALSE
INVARIANTS
    IInv
    BufferIsStable
    SessionIsOver
    DrainedWhenReconfigured
    ActiveAreUnparked
PROPERTY
    WaitIsBarrier
