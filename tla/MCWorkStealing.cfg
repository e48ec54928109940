SPECIFICATION Spec
CONSTANTS
    k1 = k1  k2 = k2
    Key = {k1, k2}
    NoKey = NoKey
    Program <- Diamond
    Awaited = {k2}
    Workers = 2
    MayThrow = {3}
    TaskBatchSize = 2
INVARIANTS
    TypeOK
    ZeroMeansDone
    AtMostOnce
    CountersAreExact
    QueuesAreWatched
    ErrorIsKept
    SleepersAreWoken
PROPERTIES
    GraphIsStable
    RefinesContract
\* The client stops after its last call.
CHECK_DEADLOCK FALSE
