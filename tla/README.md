# SwiftSnails in TLA+

SwiftSnails is a parameter server in C++11: a *master* process brings *servers*
and *workers* together, the servers hold a sparse table of parameters, and the
workers pull parameters from it and push gradients to it. Every process talks to
the others through one `Transfer` object over ZeroMQ, with several listener
threads and a thread pool.

This directory holds TLA+ specifications of that code, TLC configurations that
check them on small instances, and TLAPS proofs of the properties that matter
most. Paths below are relative to the repository's `src/`.

## 1. Inventory

| Component | State | Operations | Hard behaviour | What makes it correct |
|---|---|---|---|---|
| **Transfer** `core/transfer/transfer.h` | `_msg_id_counter`, `_msg_handlers`, `_message_class`, task channel | `send`, `send_response`, `main_loop`, `handle_request`, `handle_response`, `~Transfer` | application threads, listeners and pool threads interleave; replies arrive in any order; the object is destroyed while messages arrive | a call is served once and called back once, its callback is registered when its response comes, the destructor terminates |
| **Listener** `core/transfer/Listener.h` | receiver socket, listener threads | `listen`, `service_end` | one empty message ends one thread | every listener ends, before the channel is closed |
| **Route** `core/transfer/Route.h`, `core/system/ServerWorkerRoute.h` | address and socket per node id, counters | `register_node_`, `update`, serialisation | pool threads of the master register nodes at the same time | ids are distinct; servers are 1, 2, ..., workers count down from `id_max_range` |
| **Messages** `core/Message.h` | meta data, content | `Package`, `Request` | move-only ownership of messages and buffers | client, message id, class and content survive the way |
| **Channel and pool** `core/BasicChannel.h`, `core/AsynExec.h` | queue, `_closed`, threads | `push`, `pop`, `close`, `async_exec` | closing while tasks are queued | each task runs once, threads end |
| **StateBarrier** `utils/Barrier.h` | mutex, condition variable, flag | `block`, `set_state_valid`, `try_unblock`, `time_limit` | flag and notification without the mutex; barrier on the stack of the waiter | passes only when all callbacks have run, and then passes |
| **HashFrag** `core/parameter/hashfrag.h` | table of `frag_num` owners | `set_num_nodes`, `init`, `to_node_id`, `serialize`, `deserialize` | integer division with a remainder, ids from 1 | every server owns keys, all nodes agree |
| **Master** `core/system/master/`, `core/framework/SwiftMaster.h` | counters of registered, finished and stopped nodes, three barriers | registration, distribution of the route and the hashfrag, termination | deferred responses, handlers on several pool threads, time limits | nobody starts before all are registered, the master leaves when nobody needs it |
| **Server** `core/system/server/`, `core/framework/SwiftServer.h` | message classes, table, barrier, `push_counter` | pull, push and terminate handlers, `backup_param` | classes registered after the server can be addressed; the counter is read again after it was incremented | serves until no worker needs it, backups are regular |
| **Worker** `core/system/worker/`, `core/framework/SwiftWorker.h` | barriers, parameter cache | `train`, finish message | synchronises by sleeping | all its answers are in before it finishes |
| **Access** `core/parameter/global_pull_access.h`, `global_push_access.h`, `global_param_cache.h` | arranged keys and gradients, a barrier per call | `pull_with_barrier`, `push_with_barrier` | counted requests against sent requests | the barrier opens exactly when all answers are in |
| **Parameter table** `core/parameter/sparsetable.h`, `sparse_access_method.h` | shards of key to parameter | `get_pull_value`, `apply_push_value` | read-modify-write outside the shard's lock | no gradient is lost: one table, updated in single steps |
| **Queues** `utils/queue.h` | queue, capacity, two mutexes, two condition variables | `push`, `wait_and_pop`, `end_input` | the limit, spurious wake-ups, several producers that end their input | each item is taken once and in order, nobody waits for ever |
| **Buffers** `utils/Buffer.h` | memory, cursor, end, capacity | `<<`, `>>`, `reserve`, `set`, `clear`, move, destruction | pointers into a block that is replaced, one owner per block | reads back what was written, frees each block once |
| **Configuration** `utils/ConfigParser.h` | map of keys | `parse_conf`, `set_config` | files that import one another | each key has the value of its first assignment |

Not part of the system's own logic: command line, addresses, files, timers,
vectors, hash maps, tests, scripts and vendored code.

How the parts interact. `Transfer::send` is called by the start-up, access and
termination code; its callback runs on a pool thread of the caller, and a
message class's handler on a pool thread of the callee. A thread that needs an
answer blocks on a `StateBarrier` which the callback opens. The master's handler
of a registration leaves its response empty and answers by `send_response` when
everyone is there. The hashfrag, computed by the master and copied to everyone,
decides which server a pull or push of a key goes to.

`PROJECT.json` lists the hazards of the code at their lines, each with the
properties that cover it or the reason why none does yet.

## 2. Modules

```
Rpc         <--refined by--  Transfer     <-- MCTransfer, TransferProofs
HashFrag    <-- Cluster                   <-- MCCluster, ClusterProofs
HashFrag    <-- ParamServer               <-- MCParamServer, ParamServerProofs
ParamTable  <--refined by--  ParamServer
HashFrag    <-- FragTable, HashFragProofs
FragTable, StateBarrier, WorkQueue, Buffer, Config  <-- MCUtils

HashFragProofs     <-- FragTableProofs, ParamServerProofs, ClusterProofs
ParamServerProofs  <-- ParamTableProofs
MCUtils, StateBarrierProofs, FragTableProofs  <-- UtilsProofs
```

**`Rpc`** is what the transfer layer promises: a call is issued, then served
once, then returned once.

**`Transfer`** is the transfer layer of a whole cluster. A request moves from
`unsent` (inside `send`) to `wire` (ZeroMQ), into the hands of a listener
(`held`), the task channel (`queue`), a pool thread (`running`), and its response
back in the same way; `owed` holds requests whose handler has left the response
empty. Each step of a thread between two lock regions is an action: `Send` ends
with the registration of the callback, `Transmit` is `zmq_msg_send`, `Receive` is
the part of `main_loop` under `receiver_mutex`, `DispatchRequest` and
`DispatchResponse` are `handle_request` and `handle_response` with their CHECKs,
`Pop`, `RunHandler` and `RunCallback` are the pool. `BeginExit`, `CloseChannel`
and `JoinWorkers` are `~Transfer`. A failed CHECK puts the node into a phase that
carries the check's name and in which it takes no more steps. Message contents
are abstract; the message itself is its meta data. `Send` draws the id
(`transfer.h:76`) and registers it (90-95) in one step: no one sees the id in between.
The CHECK on a response's client id (187-190) is that of a node which has its id; while
`_client_id` is -1, and on the master, where it is 0, the code lets any response pass.

**`Cluster`** is a job: the main threads of master, servers and workers as a
program counter each, their handlers, and the registration handler of the master
in its four steps (`AssignId`, `CountNode`, `CountServer`, `CompareCount`), which
interleave on the master's `PoolThreads`. A handler that opens a barrier of its own
process lets main go on before its answer is sent, so the answer is a step of the pool
thread: `HandleFinish` and `AnswerFinish` of the master, `HandleTerminate` and
`SendTerminated` of a server. `LeaveMaster` and `LeaveServer` are the end of `~Transfer`,
which has joined the pool threads. The handlers of pull, push and the hashfrag are one
action with their answer: the caller waits for it, and no one else can tell.
Nodes start whenever they like, and the workers' sleeps are no steps. A call
is one request and one response in `msgs`; `Transfer` shows why this is right.
Requests of an unregistered class abort their receiver, as `MessageClass::get` does.
Adding a class is one step (`AddsAtOnce`), or takes a while in which a lookup,
which does not take the lock, may miss what is there.

**`HashFrag`** holds the arithmetic of the fragment table, **`FragTable`** the
life of the master's and a node's table with every way to crash it.

**`ParamServer`** is training between start-up and termination: the workers'
access objects and caches, and the servers' pull and push handlers with their
sparse tables. A round of a worker is `Pull` or `Push` (the arranging of the keys
and all the sends), the callbacks `StoreParams` and `CountDown`, and `PassBarrier`;
`Train` stands for the user's algorithm. A busy pool thread of a server is a
record in `work`: it handles one key after the other, and between two regions
under the shard's lock other threads take their steps. `FindParam` and
`AssignParam` are `get_pull_value`; `FindPointer`, `ReadParam` and `WriteParam` are
`apply_push_value` with the user's access method, which works on a pointer
into the table after `find` has released the lock; a rehash by another key's
assignment makes such a pointer stale. A parameter is the set of the gradients
applied to it, so a lost update can be seen. A delivery is one step
(`Transfer` shows why), and so is passing a barrier (`StateBarrier`). When a push
has been handled, `CountPush` increments `push_counter`, `TestBackup` reads it, and
`BackupParam` reads it again for the name of the file; other threads count in between.

**`ParamTable`** is what the servers promise the workers, as long as they have one pool
thread: one table, in which each key of a pull is looked up, and created when it
is new, in one step, and each gradient of a push is applied in one step. The
refinement mapping takes the servers' tables together and makes a call of each
request in a message or in the hands of a thread, with the keys handled so far.

**`StateBarrier`** is a barrier with its waiter, the callbacks that count down to
its opening, and the detached timer, at the granularity of single unsynchronised
accesses. `kind` says which of the three uses in the code is examined.

**`WorkQueue`** is the queue with a capacity between producers and consumers, used as
in `unitest/utils/queue_test.h`. An operation of the inner queue holds its mutex
throughout and is one step; `push` holds the outer one from `TestSize` to `Put`, and
releases it to wait (`WaitForRoom`). Either condition variable may wake a thread for
nothing.

**`Buffer`** has a heap of blocks, objects that own them, and pointers that are a
block and an offset. An action is a call of a member: `Construct`, `PutRaw` (with
`Reserve` when the block is full), `GetRaw` with its CHECK, `ClearBuffer`,
`MoveConstruct`, `Destroy`; `Receive` is the way of a content through a `Package` into
the `Request` at the other end. A cell is a value of any basic type.

**`Config`** reads files line by line; `frames` is the stack of the calls of
`parse_conf`. A line is what the parser makes of it: nothing, an import, an
assignment, or something without a delimiter. Its reference is what the files say when
imports are replaced by what they import: a *place* is a line with the imports that lead to
it, places are ordered as they are read, a key has the value of its first assignment, and
parsing fails for a place that cannot be read.

**`MCUtils`** puts the parts that stand alone side by side for TLC. The variable `part`
says which of them a behaviour is about; the others stay at an initial state.

Definitions commented "Mutant" are plausible mistakes (a dropped guard, a count
that is off by one, a missing erase, a wrong order). No specification uses them. Put in
the place of the definition they follow, each breaks the property that
`PROJECT.json` names: this is how we know that the properties say something.

## 3. What is checked

| Run | Configuration | What it shows |
|---|---|---|
| `calls` | `MCTransferCalls.cfg` | type, `OnePlacePerCall`, `CallsAccounted` and `NoOrphanResponse` hold, and the layer implements `Rpc`, with 2 nodes, 2 listeners and 2 pool threads each, 2 calls per node to the other node or itself |
| `exit` | `MCTransferExit.cfg` | with a deferred class, a class that may be registered late, and nodes that may be destroyed: only the two CHECKs the caller is responsible for can fail (`OnlyTwoChecksFail`), a leaving node owes and is owed nothing (`LeavesNothingOutstanding`), every call returns while all stay (`EveryCallReturns`), the destructor terminates (`ExitCompletes`) |
| `dropped_callback` | `MCTransferDrop.cfg` | *violated*: `ReceivedReplyIsCalledBack` |
| `job` | `MCClusterJob.cfg` | 2 servers, 2 workers, pool of one thread: every node can reach every owner, all servers own keys, no CHECK of start-up or termination fails, and the job ends unless a request was so early that it aborted its receiver |
| `job_pool_of_two` | `MCClusterHard.cfg` | two pool threads, time limits that expire: ids stay distinct (`IdsIdentify`), no server is stopped while training goes on (`ServersOutliveTraining`), when the master leaves every server has answered and every worker has its answer (`MasterLeavesNobody`), and only requests between a process's start and its adding of their class can abort it (`OnlyEarlyRequestsAreUnknown`) |
| `count_race` | `MCClusterCount.cfg` | *violated*: `StartUpChecksHold` with two pool threads |
| `class_race` | `MCClusterClass.cfg` | *violated*: `ClassesChangeBetweenReads` with one pool thread |
| `access` | `MCParamAccess.cfg` | two workers that pull, train and push, servers of one or two pool threads: a pushed key has been initialised (`NewKeysAreInited`), a pull returns with the whole batch in the cache (`BatchIsCached`), the barrier counts what is outstanding (`BarrierCountsRequests`), no gradient is pushed twice (`NoGradientTwice`), a blocked worker is owed an answer unless it asked for nothing (`WaiterIsOwedAnAnswer`); and with one pool thread an answered push counts for good (`PushCountsOnOneThread`), is seen by later pulls (`PullSeesAnsweredPushes`), every second one is followed by a backup (`BackupsOnOneThread`), and the servers implement `ParamTable` (`RefinesTable`) |
| `lost_gradient` | `MCParamLost.cfg` | *violated*: `AnsweredPushCounts` with two pool threads |
| `stuck_push` | `MCParamStuck.cfg` | *violated*: `RoundReturns` when a key without gradient is pushed |
| `utilities` | `MCUtilities.cfg` | *fragments*: every division of up to 12 fragments among up to 6 servers gives each its share, and nodes agree with the master; *barrier*: three callbacks, all three uses: the waiter passes only when all have run, one of them opens, and a time limit rescues the waiter; *queue*: at most one item over the limit (`AtMostOneOver`), each item once and in order (`ItemsInOrder`), everything is taken and all threads end (`QueueDrains`); *buffers*: what is written is read (`BufferReadsBack`), and each block has one owner (`BuffersApart`); *configuration*: what is parsed is what the files say (`ConfigMatchesReference`) |
| `lost_wakeup` | `MCBarrierLost.cfg` | *violated*: `WaiterComesBack` |

Bounds, and why they are enough:

- `MaxSends`: calls per node. Calls interact only through the id counter, the
  callback table and the threads that carry them; two calls of each node on two threads
  of each kind give every overtaking of one by another. In `exit` one call per
  node suffices, for a node that calls twice is in `calls`; here the point is one
  call against the destructor of either side.
- `Nodes` has two members, which also call themselves, as the code does in its
  tests. The proofs (section 6) lift this bound, and those of the other modules, for safety.
- Symmetry permutes threads, and in `job_pool_of_two` processes of a kind. It is used for
  safety only.
- `MaxRounds`: in `job_pool_of_two` a worker pulls and pushes once, and later rounds begin in the
  same state; in `job`, which has two workers, each of them pulls once, since there a push only
  repeats the exchange with the servers.
- `FragNum = 5` over 2 servers leaves a remainder; `IdMax = 10` keeps server and
  worker ids apart, as the default does.
- `ParamServer`: two workers on overlapping batches of two keys out of three,
  one of them spread over both servers, and an empty batch; two rounds each, so that one worker pushes
  while the other pulls, pushes, or initialises the same key; one training step,
  for a second one would push the same way. `BackupPeriod = 2`, so that a push may or may not be
  followed by a backup. Keys 1 and 2 share server and shard, so that
  the assignment of one can rehash under a pointer to the other. The number
  of pool threads is chosen at the start, one or two: each property that needs one
  thread says so, the others are checked for both.
- `FragTable` covers all remainders, and fewer fragments than servers, where the
  division by zero ends the process.
- `StateBarrier`: three callbacks give a first, a middle and a last one.
- `WorkQueue`: two producers, so that one ends its input while the other pushes, and
  two consumers, so that one exits while the other goes on; three items each against
  a capacity of one fill the queue past the limit and make both producers wait.
- `Buffer`: two objects suffice for a sender and a receiver, or for both sides of a
  move; growing from one cell to two and to four meets a reader before, between and
  after; three blocks are what two objects need while one of them grows.
- `Config`: two files of up to two lines give every order of assignment and import,
  an import of itself, of what does not exist, and a cycle of two. `MaxDepth` stands
  for the descriptors a process may open: a cycle uses up any number of them.

## 4. Assumptions

*Network.* ZeroMQ neither loses nor duplicates a message between live processes. It keeps
the order of one connection, but the listeners of a node give that up when they
release `receiver_mutex` before dispatching, so the models reorder freely. In
`Transfer` every node is in every node's route, so the CHECK on the route is
left to `Cluster`.

*Fairness.* Listener and pool threads are weakly fair: the operating system
schedules them, and no step of theirs waits for a condition another one could
take away for ever. An application thread inside `send` or in the destructor
goes on. Nobody is obliged to call, to register a class or to exit. A deferred
response is sent in the end: the only such class is the registration, which
`send_route_to_workers` answers; in `Cluster` this is a step of the main thread and
nothing is assumed about it. In `Cluster` each process is weakly fair and a
time limit need not expire. In `WorkQueue` the threads are weakly fair, and the two steps that
lock the outer mutex are strongly fair: a thread that tries to lock it gets it at last, though
others take it again and again. Spurious wake-ups may occur for ever or not at all.

*Time.* Where the code relies on time the model has a constant: `MayTimeout` (a start-up
time limit may expire), `LongLimit` (a time limit of seconds outlasts the instant between a
waiter's test and its wait, the tests after spurious wake-ups included), `AddsAtOnce` (no lookup falls into the instant in which a
message class is added; `class_race` and `job_pool_of_two` drop it). The order in which processes
start and the length of the workers' sleeps are not assumed: `tools/cluster_test.sh`
starts servers and workers before the master, and a sleep waits for nobody. A request of
a class that has not been registered therefore aborts its receiver in some behaviours of
`Cluster`, as it does in the code. That every request finds its class is not true; what is
true is that no others than those of `EarlyPlaces` can miss it.

*The algorithm.* `PushOnlyPulled`: it pushes keys that it has pulled, as `train`
functions do that compute gradients from parameters. `stuck_push` drops it:
`arrange_local_grads` admits any key.

*Buffers.* An object that has been moved from is destroyed and not used again, as by its
owners in `core/Message.h`. `new` does not fail: there
is a block more than there are objects, each of which owns one at most but while it grows.

*The queue.* The producers' empty values are as many as the consumers, as in the test: each
producer ends its input for its share of them.

*Wake-ups.* `Cluster` lets a thread pass a barrier whose flag is set.
`StateBarrier` shows when this is not so: without a time limit, or a spurious
wake-up, a notification between test and wait is lost.

*Undefined behaviour.* A notification of a destroyed condition variable does
nothing or crashes the process. A write through a pointer that a rehash has made
stale is lost or crashes the process; a read through one sees the old value.
Torn reads and writes of a parameter or of a `std::map` are not modelled.

## 5. Findings

1. `dropped_callback`: `send` promises that the callback runs when the reply is
   received. The callback's entry is erased when its task is queued, so
   `service_complete()` is true before it has run, and the channel that
   `~Transfer` closes drops what it holds.
2. `count_race`: a node is counted before a server is (`master/init.h:141-144`).
   With more than one pool thread the barrier can open between the two, and the
   master divides the fragments among too few servers, or aborts at zero.
3. `lost_gradient`: with more than one pool thread a push is not atomic. Two pushes
   of a key read and write it through pointers without a lock, and a pull that has
   found no entry assigns an initial value over what has been stored since.
4. `stuck_push`: the barrier of a push counts all servers that own one of the keys,
   but servers without a gradient get no request, so the call never returns.
5. `lost_wakeup`: flag and notification without the mutex.
6. `class_race`: message classes are looked up without the lock under which they are added,
   since they "will only be changed between read" (`transfer.h:19-20`). The master
   registers `WORKER_FINISH_WORK` when it has sent the route, which is when the nodes
   send their requests for the hashfrag.

Two remarks that no run of their own shows. When the master goes on with "all servers have
terminated" (`master/terminate.h:36`), they have only answered, and may outlive it. And nothing but
sleeps and the order in which the processes are started by hand keeps requests
from coming before their class, whose receiver they then abort (`OnlyEarlyRequestsAreUnknown`).

## 6. What is proved

Every safety invariant that a run checks and both refinements are theorems
of the specification: they hold for every value of the constants, of which only the modules'
own assumptions are used. Where a theorem needs more, its `ASSUME` says so. Each rests on an
inductive invariant. Lemmas show for one action, or for the actions that leave alone what
a part speaks of, that it is preserved; one lemma puts them together, and a theorem lifts the
result to the specification.

| Module | Theorem | What it establishes |
|---|---|---|
| `TransferProofs` | `TypeCorrect`, `CallsAreInOnePlace`, `TablesAgree`, `ResponsesAreAwaited`, `ExitLeavesNothing`, `FewChecksFail` | `TypeOK`, `OnePlacePerCall`, `CallsAccounted`, `NoOrphanResponse`, `LeavesNothingOutstanding`, `OnlyTwoChecksFail` |
| | `LayerIsRpc` | `RefinesRpc`: the layer implements `Rpc` |
| | `NoCallIsLost`, `LayerNeverStandsStill` | a call that has not returned is somewhere, and while all nodes are up a thread can go on; so it can in a node whose destructor has passed its CHECK, until the node is gone |
| `ClusterProofs` | `Typed`, `NodesAreIdentified`, `NodesReachOwners`, `ServersAreNeeded`, `MasterIsLast` | `TypeOK`, `IdsIdentify`, `NodesCanReachOwners`, `ServersOutliveTraining`, `MasterLeavesNobody`, on any number of pool threads and with any timing |
| | `AllServersHaveKeys`, `ChecksHold` | `EveryServerHasKeys`, `StartUpChecksHold`, with one pool thread |
| | `OnlyEarlyCallsFail` | `OnlyEarlyRequestsAreUnknown`, likewise: which requests can abort their receiver, and where it then is |
| | `SettledForGood` | a node keeps its id, its route and its hashfrag once it has them (an action property) |
| | `JobNeverStandsStill` | with one pool thread the processes never all wait before the job's end, unless one has failed |
| `ParamServerProofs` | `Typed`, `PushedKeysAreInited`, `PulledBatchIsCached`, `WaiterIsOwed` | `TypeOK`, `NewKeysAreInited`, `BatchIsCached`, `WaiterIsOwedAnAnswer`, on any number of pool threads |
| | `BarrierCountsCalls`, `RoundNeverStandsStill` | from `PushOnlyPulled`: `BarrierCountsRequests`; a round whose barrier is closed has a callback or a pool thread that can go on, unless a server has failed |
| `ParamTableProofs` | `GradientsGoOnce` | `NoGradientTwice`, on any number of pool threads |
| | `AnsweredPushesCount`, `PullsAreRecent`, `BackupsInOrder` | `PushCountsOnOneThread`, `PullSeesAnsweredPushes`, `BackupsOnOneThread` |
| | `ParametersGrow` | with one pool thread a parameter is never removed and keeps every gradient applied to it (an action property) |
| | `ServersAreOneTable` | `RefinesTable`: servers with one pool thread each implement `ParamTable` |
| `HashFragProofs` | `OwnersAreServers`, `EveryServerOwns`, `OwnersInOrder` | for `0 < nodes <= frags`: every fragment has a registered server, every server a fragment, and shares are in the servers' order |
| `FragTableProofs` | `SharesAreEqual`, `MasterSharesOut`, `CopiesAgree` | the size of each share; `EveryServerOwnsItsShare`, `NodesAgreeOnOwners` |
| `StateBarrierProofs` | `PassesComplete`, `OnlyOneOpens` | `PassesOnlyWhenComplete`, `OneOpener` |
| | `TimerIsNeverTooEarly` | from `LongLimit`: a timer that has done its work leaves nobody waiting |
| `UtilsProofs` | `QueueIsLimited`, `ItemsComeInOrder` | `AtMostOneOver`, `ItemsInOrder` |
| | `QueueNeverStandsStill` | the threads of a queue never all wait before everything is taken and all consumers have left |
| | `ContentsReadBack`, `BuffersKeepApart`, `BuffersTyped` | `BufferReadsBack`, `BuffersApart`, `BufferTypeOK` |
| | `ParsedAsWritten` | `ConfigMatchesReference`, for any files |
| | `PartsKeepInvariants`, `PartsTyped` | the parts of `MCUtils` side by side; its `TypeOK` |

### The transfer layer

That a response finds its callback is not inductive: an entry is
erased when *a* response of the call is dispatched, so one must know that there is no
other, and that the request is not still somewhere to produce another. Hence
`IInv == TypeOK /\ OnePlacePerCall /\ CallsAccounted`: at most one message, task
or held message exists per call anywhere, and whatever exists outside the
callback's own task belongs to a call whose entry is in the table, its id being below the
counter. New ids are fresh because all that exists is below the counter. A node
that exits has an empty table, so nothing under way is its own; the channel is
closed only when no listener holds a message. `IInv` is also what the run `calls`
checks in its parts.

For the refinement, `HistoryInv` says what a message tells of its call: a request is on its way
to a call that has not been served, a response to one that has been served and has not
returned. With one message per call, serving and returning cannot happen twice.

`OnePlacePerCall` says that a call is in one place at most, `NoneLost` that it is in one at least:
until the callback has run there is a request, a task, a deferred answer or a response of
it. A step either leaves a message where it is found again, or replaces it by the next of
its call, or runs the callback. `PoisonInv` counts: a node that exits has a poison message for
each listener that has not ended, a node that is up has none and all its threads. So whoever holds
the call, or a listener that is idle while it is in the network, can go on.

### The job

The invariant comes in layers, each of which is inductive with the help of those before it.

- `TypeInv`: what the variables and the messages are.
- `RegInv`: the servers' ids are 1 up to their number, and the workers' lie as densely
  below `IdMax`. A pool thread works for one node, and `nodeNum` and `serverNum` count
  the nodes that no thread has still to count. It is here that one thread makes a difference: with
  two, `allHere` may be set while a server has still to be counted (`count_race`).
- `PhaseInv`: who has the route has all of it, and who has the hashfrag has the master's.
- `TrainInv`: a worker waits for the servers that have a call of it in hand; `finished` counts
  the workers whose finish message has been handled, and such a worker is gone, or its answer is on
  the way or in the hands of one pool thread (`AnsweringInv`).
- `StopInv`: the same of the servers that were told to terminate, and `stopped`. When the master is
  gone its pool threads are idle (`JoinedInv`), so no worker's answer is left in their
  hands: this and `AnsweringInv` give `MasterLeavesNobody`.
- `OwedInv`: whoever waits is owed. A node that registers has its request under way, or is in the
  route that the master has still to send it, or its response is under way; a node counted last
  has a thread that will compare the counts; each access, finish and terminate message waited for is
  there. With two pool threads the job may stand still: the master may have counted a server late,
  then waits for more workers than there are.
- `KnownInv`: which message classes are registered at which place of a main thread
  (`ClassesInv`), and that who waits for a server has the hashfrag (`RoundsInv`). With the places a
  receiver can be in when a request is under way, which the layers above give, it
  yields `OnlyEarlyRequestsAreUnknown`, without an assumption on time.

### Training

In `ParamServerProofs`, `IInv` says that a worker has one call at most at a server, in a
message, in a callback or in the hands of one thread (`OneCall`); that the barrier counts the
servers that owe an answer, at least, and exactly if `PushOnlyPulled` (`BarrierCounts`); that
calls belong to the round (`CallsInRound`); that every key of a pull is in the cache or
owed by its server (`Cached`); and that what is pushed or answered has been initialised
(`Inited`). `NewKeysAreInited` needs no assumption on the algorithm:
`arrange_local_grads` sends only gradients that are in the cache, and their keys have been pulled.
With `PushOnlyPulled` a closed barrier means a server that owes, hence a call of the round to take or
a thread at work (`RoundNeverStandsStill`); without, `stuck_push` shows a barrier that waits for no one.

In `ParamTableProofs`, `GradInv` adds where a gradient can be: one still to be pushed is nowhere
else, and what is elsewhere is of a step that has been taken, so that the next one is new.
`OneThreadInv` is about one pool thread: its pointer into the table is not stale and the
value it is about to write back is the current one (`ThreadsInGrip`), answers and caches
contain what was answered before the round, and the counter does not move between
increment and backup. It gives the refinement: a thread's step is one of `ParamTable` on its key
when it assigns the key, finds it on a pull, or writes it back, and changes nothing there otherwise.
`ParamTable` never takes anything from a parameter, and so neither do the servers (`ParametersGrow`).

### The parts that stand alone

- Barrier: `num_reqs` is the number of pending callbacks, one that has taken it to zero is
  alone, and only it sets the flag. A timer that has let the process live has seen the flag
  (`TimerSawFlag`), after which nobody begins to wait.
- Fragments: the master's table is computed from its own two numbers, and all copies equal it. A
  share is an interval (`HashFragProofs`), which gives its size.
- Queue: `LimitInv`, one producer at most is past the test of the size, and then the room it has
  seen is still there; `Stages`, who ends its input has pushed all its items. `DrainInv` says that nobody
  is forgotten: while a producer waits, the queue's items, the consumers about to tell a producer and
  the producers still trying are more than the capacity; while a consumer waits, the queue has no
  more items than consumers about to pop; and each empty value pushed is queued or has made a consumer leave.
- Buffers: `BufferInv`, each living object has a block that holds what was put, with its pointers
  in it, and no block has two owners. The latter makes the content inductive: a write
  through one buffer does not change what another holds.
- Configuration: `ConfigInv`. The open calls of `parse_conf` are a place themselves (`StackInv`);
  the places that they are not ahead of are read, with what they assign in the map (`ReadInv`); an
  entry of the map is the first assignment of its key (`DicInv`); a parse that fails has met a
  place that cannot be read (`VerdictInv`).

### Only model-checked

Liveness (`EveryCallReturns`, `ExitCompletes`, `JobTerminates`, `TimeLimitRescues`, `QueueDrains`) is
out of the prover's reach, as is `ENABLED`. What is proved is that the threads never all wait:
`NoCallIsLost` and `LayerNeverStandsStill`, `JobNeverStandsStill`, `TimerIsNeverTooEarly`,
`QueueNeverStandsStill` and `RoundNeverStandsStill` name the thread that can go on by the
guards of its actions. That it reaches its end is left to the runs. No module has a
RECURSIVE operator, and what the code computes by a loop (the fragment table) or by recursion (the
imports of a configuration) is stated in closed form.

## 7. Not modelled, and the plan

The transfer layer, the life of a job, training, and the parts that stand alone are
modelled, and their safety is proved, what a step may never do included: a node keeps its id, a
parameter is never removed (with one pool thread), and, by `ParsedAsWritten`, a key of the configuration keeps the value
of its first assignment. What remains is `ParamServer`'s rounds as an implementation of those of `Cluster`.

Known gaps. `BasicChannel::pop` looks at `_closed` once without its lock and once under it;
the models have one step for both, because a pop that returns at the first would also return at
the second, the flag being never reset. The other barriers of `Barrier.h` (`Barrier`, `CompBarrier`,
`CounterBarrier`) have no caller but tests. The queue's `try_pop` and `set_capacity`, the
buffer's move assignment (its only possible caller, the constructor of a `Request` from
another, is never used), `reset_cursor` and `TextBuffer` have none either. A node more than
`expected_node_num` is a configuration the code does not answer. A torn `std::map` (`init_msg_ids` at
`master/init.h:137`) and the destruction of a barrier under a notifying thread have no defined
outcome that a property could exclude.

Left out for good: sockets and their addresses (I/O), logging, command lines,
timers, vectors, the conversion of configuration values, the text of backups and of the final output,
the allocation of ZeroMQ messages, local training, and code nobody calls
(`delete_node`, `MessageClass::remove`, `ThreadPool`).
