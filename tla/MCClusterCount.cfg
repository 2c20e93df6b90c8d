\* Two pool threads register a server and a worker.
CONSTANTS
    Master = master
    Servers = {s1}
    Workers = {w1}
    PoolThreads = {t1, t2}
    Free = Free
    FragNum = 5
    IdMax = 10
    MaxRounds = 1
    MayTimeout = FALSE
    AddsAtOnce = TRUE
SPECIFICATION Spec
INVARIANT StartUpChecksHold
\* A job stops when every process has ended.
CHECK_DEADLOCK FALSE
