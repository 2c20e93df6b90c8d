\* Either node may register a class late and destroy its Transfer object.
CONSTANTS
    Nodes = {n1, n2}
    Classes = {pull, init}
    Deferred = {init}
    Registered = {pull}
    Exiting = {n1, n2}
    Listeners = {l1, l2}
    Workers = {w1, w2}
    MaxSends = 1
    Idle = Idle
    Exited = Exited
SPECIFICATION FairSpec
INVARIANTS OnlyTwoChecksFail LeavesNothingOutstanding
PROPERTIES EveryCallReturns ExitCompletes
\* A node that has exited or aborted takes no more steps.
CHECK_DEADLOCK FALSE
