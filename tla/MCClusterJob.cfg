\* Two servers, two workers, a pool of one thread.
CONSTANTS
    Master = master
    Servers = {s1, s2}
    Workers = {w1, w2}
    PoolThreads = {t1}
    Free = Free
    FragNum = 5
    IdMax = 10
    MaxRounds = 1
    MayTimeout = FALSE
    AddsAtOnce = TRUE
SPECIFICATION FairSpec
INVARIANTS TypeOK NodesCanReachOwners EveryServerHasKeys StartUpChecksHold
PROPERTY JobTerminates
\* A job stops when every process has ended.
CHECK_DEADLOCK FALSE
