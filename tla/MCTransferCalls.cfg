\* Two nodes that call each other, or themselves, twice; nobody leaves.
CONSTANTS
    Nodes = {n1, n2}
    Classes = {pull}
    Deferred = {}
    Registered = {pull}
    Exiting = {}
    Listeners = {l1, l2}
    Workers = {w1, w2}
    MaxSends = 2
    Idle = Idle
    Exited = Exited
SPECIFICATION Spec
SYMMETRY ThreadSymmetry
INVARIANTS TypeOK OnePlacePerCall CallsAccounted NoOrphanResponse
PROPERTY RefinesRpc
\* Every node stops after MaxSends calls.
CHECK_DEADLOCK FALSE
