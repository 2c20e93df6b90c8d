\* A node leaves while the task of a reply it has received is queued.
CONSTANTS
    Nodes = {n1, n2}
    Classes = {pull, init}
    Deferred = {init}
    Registered = {pull, init}
    Exiting = {n1, n2}
    Listeners = {l1, l2}
    Workers = {w1, w2}
    MaxSends = 1
    Idle = Idle
    Exited = Exited
SPECIFICATION Spec
INVARIANT ReceivedReplyIsCalledBack
\* A node that has exited or aborted takes no more steps.
CHECK_DEADLOCK FALSE
