\* One server and one worker; adding a message class takes a while.
CONSTANTS
    Master = master
    Servers = {s1}
    Workers = {w1}
    PoolThreads = {t1}
    Free = Free
    FragNum = 5
    IdMax = 10
    MaxRounds = 1
    MayTimeout = FALSE
    AddsAtOnce = FALSE
SPECIFICATION Spec
PROPERTY ClassesChangeBetweenReads
\* A job stops when every process has ended.
CHECK_DEADLOCK FALSE
