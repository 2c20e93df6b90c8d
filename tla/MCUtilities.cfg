CONSTANTS
    \* Every division of up to 12 fragments among up to 6 servers.
    MaxNodes = 6
    MaxFrags = 12
    \* Every use of a barrier, with three callbacks.
    Callbacks = {c1, c2, c3}
    LongLimit = TRUE
    \* Two producers and two consumers.
    Producers = {p1, p2}
    Consumers = {t1, t2}
    Capacity = 1
    Items = 3
    Empties = 1
    \* Two buffers, which grow from one cell to four.
    Buffers = {b1, b2}
    Blocks = {k1, k2, k3}
    NoBlock = NoBlock
    Junk = Junk
    InitialCapacity = 1
    MaxData = 3
    \* Every pair of files of up to two lines.
    Root = "main.conf"
    ConfFiles = {"main.conf", "common.conf"}
    Paths = {"main.conf", "common.conf", "missing.conf"}
    ConfKeys = {"ip", "port"}
    ConfValues = {1, 2}
    MaxLines = 2
    MaxDepth = 3
SPECIFICATION Spec
INVARIANTS TypeOK EveryServerOwnsItsShare NodesAgreeOnOwners
           PassesOnlyWhenComplete OneOpener
           AtMostOneOver ItemsInOrder
           BufferReadsBack BuffersApart
           ConfigMatchesReference
PROPERTIES TimeLimitRescues QueueDrains
\* Every part comes to its end.
CHECK_DEADLOCK FALSE
