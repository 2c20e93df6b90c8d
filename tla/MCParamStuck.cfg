\* A worker pushes a key that it has not pulled.
CONSTANTS
    Workers = {w1}
    ServerNum = 2
    FragNum = 3
    ShardNum = 1
    Keys <- MCKeys
    Batches <- MCApart
    MaxThreads = 1
    MaxRounds = 2
    MaxSteps = 1
    BackupPeriod = 2
    PushOnlyPulled = FALSE
SPECIFICATION FairSpec
PROPERTY RoundReturns
\* Workers stop after their last round.
CHECK_DEADLOCK FALSE
