SPECIFICATION FairSpec
CONSTANTS
    PoolSize = 2
    ActiveCounts = {2}
    FastModes = {TRUE, FALSE}
    StageSize = 2
    TaskBatchSize = 2
    Throwing = {2, 3}
    LateStart = TRUE
    MaxTasks = 3
    MaxCalls = 2
\* A destroyed runtime does nothing more, and a phase that was missed hangs.
CHECK_DEADLOCK FALSE
INVARIANTS
    AtMostOnce
    ErrorIsKept
PROPERTIES
    RefinesContract
    SessionPhaseCompletes
    SessionEnds
    QueueWaitReturns
