\* Two pool threads, time limits that expire, classes that take a while to add.
CONSTANTS
    Master = master
    Servers = {s1, s2}
    Workers = {w1}
    PoolThreads = {t1, t2}
    Free = Free
    FragNum = 5
    IdMax = 10
    MaxRounds = 2
    MayTimeout = TRUE
    AddsAtOnce = FALSE
SPECIFICATION Spec
SYMMETRY ProcessSymmetry
INVARIANTS IdsIdentify ServersOutliveTraining MasterLeavesNobody
           OnlyEarlyRequestsAreUnknown
\* A job stops when every process has ended.
CHECK_DEADLOCK FALSE
