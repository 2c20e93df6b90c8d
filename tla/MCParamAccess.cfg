\* Two workers, servers of one or two pool threads.
CONSTANTS
    Workers = {w1, w2}
    ServerNum = 2
    FragNum = 3
    ShardNum = 1
    Keys <- MCKeys
    Batches <- MCBatches
    MaxThreads = 2
    MaxRounds = 2
    MaxSteps = 1
    BackupPeriod = 2
    PushOnlyPulled = TRUE
SPECIFICATION Spec
SYMMETRY WorkerSymmetry
INVARIANTS TypeOK NewKeysAreInited BatchIsCached PushCountsOnOneThread
           PullSeesAnsweredPushes NoGradientTwice
           BarrierCountsRequests WaiterIsOwedAnAnswer BackupsOnOneThread
PROPERTY RefinesTable
\* Workers stop after their last round.
CHECK_DEADLOCK FALSE
