SPECIFICATION FairSpec
CONSTANTS
    t1 = t1  t2 = t2  t3 = t3  t4 = t4  t5 = t5
    w1 = w1  w2 = w2
    k1 = k1  k2 = k2
    Task = {t1, t2, t3}
    Key = {k1, k2}
    NoKey = NoKey
    NoTask = NoTask
    Worker = {w1, w2}
    Main = Main
    MayThrow = {}
    Requests <- PairRequests
    StagingLimit = 1
    SubmitStageSize = 1
    TaskBatchSize = 1
    MaxLiveWindow = 1
INVARIANT
    NoStrandedWork
PROPERTIES
    CallsReturn
    ReadyTaskIsTaken
