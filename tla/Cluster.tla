------------------------------ MODULE Cluster ------------------------------
(***************************************************************************)
(* The life of a SwiftSnails job, from the registration of the nodes to    *)
(* the termination of the last one: the master (framework/SwiftMaster.h,   *)
(* system/master), the servers (SwiftServer.h, system/server) and the      *)
(* workers (SwiftWorker.h, system/worker), with what both kinds of nodes   *)
(* share (system/node_init.h).                                             *)
(*                                                                         *)
(* A call is one request and one response message; Transfer shows how the  *)
(* transfer layer brings about that each arrives once.  A handler and the  *)
(* sending of its answer are one action where the caller waits for that    *)
(* answer and no one else can tell them apart.  Where the handler opens a  *)
(* barrier of its own process, main goes on before the answer is sent: the *)
(* finish handler of the master and the terminate handler of a server are  *)
(* followed by a step that sends it.  The master's registration handler    *)
(* takes four steps, which interleave when its pool has several threads.   *)
(* Nothing is assumed about time: a node may call before the master is     *)
(* ready, and the workers' sleeps may be too short.  A thread that         *)
(* blocks on a StateBarrier goes on once its flag is set, if the wake-up   *)
(* is not lost: StateBarrier examines when it can be.                      *)
(***************************************************************************)
EXTENDS Naturals, FiniteSets, HashFrag

CONSTANTS
    Master,       \* the master process
    Servers,      \* the server processes
    Workers,      \* the worker processes
    PoolThreads,  \* the threads of the master's pool (async_exec_num)
    Free,         \* what an idle pool thread carries
    FragNum,      \* frag_num
    IdMax,        \* id_max_range, from which worker ids are counted down
    MaxRounds,    \* bound: pulls and pushes per worker
    MayTimeout,   \* whether a barrier's time limit may be exceeded
    AddsAtOnce    \* whether a late message class is added in no time

Nodes == Servers \cup Workers
Processes == Nodes \cup {Master}

\* expected_node_num, configured to the number of nodes that are started.
ExpectedNodes == Cardinality(Nodes)

ASSUME ClusterAssumption ==
    /\ IsFiniteSet(Nodes)
    /\ Servers # {} /\ Workers # {}
    /\ Servers \cap Workers = {}
    /\ Master \notin Nodes
    /\ Free \notin Nodes
    /\ FragNum \in Nat /\ FragNum >= Cardinality(Servers)
    /\ IdMax \in Nat /\ IdMax > Cardinality(Nodes)
    /\ MaxRounds \in Nat
    /\ {MayTimeout, AddsAtOnce} \subseteq BOOLEAN

\* MSG_CLS
Classes == {"init_address", "hashfrag", "pull", "push", "finish", "terminate"}

VARIABLES
    pc,           \* where the main thread of each process is
    classes,      \* the message classes each process has registered
    msgs,         \* requests and responses that have not been handled
    thread,       \* what the master's pool threads are at, and for whom
    ids,          \* the master's route: the id of a node, 0 before it has one
    nodeNum,      \* registered_node_num
    serverNum,    \* registered_server_num
    allHere,      \* the state of _route_init_barrier
    frags,        \* the number of servers in a process's hashfrag, 0 before
    route,        \* the nodes in each node's route
    routed,       \* the nodes the master has sent the route to
    workerTotal,  \* MasterTerminate::_worker_num
    serverTotal,  \* MasterTerminate::_server_num
    finished,     \* _num_finished_workers
    told,         \* the servers told to terminate
    stopped,      \* _num_finished_servers
    waiting,      \* the servers a worker's pull or push waits for
    rounds        \* the pulls and pushes a worker has begun

registration == <<thread, ids, nodeNum, serverNum, allHere>>
terminate == <<workerTotal, serverTotal, finished, told, stopped>>
training == <<waiting, rounds>>
vars == <<pc, classes, msgs, registration, frags, route, routed, terminate,
          training>>

Init ==
    /\ pc = [p \in Processes |-> "start"]
    /\ classes = [p \in Processes |-> {}]
    /\ msgs = {}
    /\ thread = [t \in PoolThreads |-> [at |-> "idle", node |-> Free]]
    /\ ids = [n \in Nodes |-> 0]
    /\ nodeNum = 0
    /\ serverNum = 0
    /\ allHere = FALSE
    /\ frags = [p \in Processes |-> 0]
    /\ route = [n \in Nodes |-> {}]
    /\ routed = {}
    /\ workerTotal = 0
    /\ serverTotal = 0
    /\ finished = 0
    /\ told = {}
    /\ stopped = 0
    /\ waiting = [w \in Workers |-> {}]
    /\ rounds = [w \in Workers |-> 0]

-----------------------------------------------------------------------------
Request(class, from, to) ==
    [type |-> "request", class |-> class, from |-> from, to |-> to]

\* A response, with what the model keeps of its content.
Response(class, from, to, load) ==
    [type |-> "response", class |-> class, from |-> from, to |-> to, load |-> load]

\* How a process ends: by a failed CHECK, by a CHECK on a time limit, or
\* by returning from main and destroying its Transfer.
Failed == {"failed check", "unknown class", "timeout"}
Ended  == Failed \cup {"gone"}

Up(p) == pc[p] \notin Ended

Goto(p, place) == pc' = [pc EXCEPT ![p] = place]

\* What the transfer layer of process `to` does with a request: it is taken
\* off the network and CHECKed against the registered classes.
Arrives(m, class, to) ==
    /\ m \in msgs
    /\ m.type = "request" /\ m.class = class /\ m.to = to
    /\ Up(to)

Known(m) == m.class \in classes[m.to]

\* Where a main thread is that changes the map of the message classes.
AddingPlace == [pull |-> "adding pull", push |-> "adding push",
                terminate |-> "adding terminate", finish |-> "adding finish"]

Adding(p) == \E class \in DOMAIN AddingPlace : pc[p] = AddingPlace[class]

\* MessageClass::get: a class that is not there.  It reads the map without
\* the lock add holds: what is there may be missed while the map changes.
UnknownClass(m) ==
    /\ m \in msgs
    /\ m.type = "request"
    /\ Up(m.to)
    /\ ~Known(m) \/ Adding(m.to)
    /\ Goto(m.to, "unknown class")
    /\ UNCHANGED <<classes, msgs, registration, frags, route, routed,
                   terminate, training>>

\* The response is sent when the handler of request m has run.
Answer(m, load) ==
    msgs' = (msgs \ {m}) \cup {Response(m.class, m.to, m.from, load)}

\* Response m, for which `to` has a callback.
IsAnswer(m, class, from, to) ==
    /\ m \in msgs
    /\ m.type = "response" /\ m.class = class /\ m.from = from /\ m.to = to
    /\ Up(to)

\* MessageClass::add, by the main thread of p, and what it goes on with.
AddClass(p, from, class, to) ==
    /\ \/ /\ pc[p] = IF AddsAtOnce THEN from ELSE AddingPlace[class]
          /\ classes' = [classes EXCEPT ![p] = @ \cup {class}]
          /\ Goto(p, to)
       \/ /\ ~AddsAtOnce
          /\ pc[p] = from
          /\ Goto(p, AddingPlace[class])
          /\ UNCHANGED classes
    /\ UNCHANGED <<msgs, registration, frags, route, routed, terminate, training>>

-----------------------------------------------------------------------------
(* Registration: MasterTransferInit and its handlers.                      *)

\* Mutant: the second add is missing.
RegisterOneMessageClass ==
    /\ pc[Master] = "start"
    /\ classes' = [classes EXCEPT ![Master] = {"init_address"}]
    /\ Goto(Master, "waiting")
    /\ UNCHANGED <<msgs, registration, frags, route, routed, terminate, training>>

\* register_message_class
RegisterMessageClass ==
    /\ pc[Master] = "start"
    /\ classes' = [classes EXCEPT ![Master] = {"init_address", "hashfrag"}]
    /\ Goto(Master, "waiting")
    /\ UNCHANGED <<msgs, registration, frags, route, routed, terminate, training>>

\* NodeTransferInit: register_master and register_local_node_to_master.
\* Nothing makes a node wait until the master has registered its classes.
RegisterLocalNode(n) ==
    /\ pc[n] = "start"
    /\ msgs' = msgs \cup {Request("init_address", n, Master)}
    /\ Goto(n, "registering")
    /\ UNCHANGED <<classes, registration, frags, route, routed, terminate,
                   training>>

Transition(t, at, node) == thread' = [thread EXCEPT ![t] = [at |-> at, node |-> node]]

Assigned(kind) == {n \in kind : ids[n] # 0}

\* Mutant: ids are drawn from the counters, which are incremented later.
AssignIdUnlocked(t, m) ==
    LET n == m.from IN
    /\ Arrives(m, "init_address", Master)
    /\ Known(m)
    /\ thread[t].at = "idle"
    /\ ids' = [ids EXCEPT ![n] = IF n \in Servers THEN serverNum + 1
                                 ELSE IdMax - (nodeNum - serverNum + 1)]
    /\ Transition(t, "count node", n)
    /\ msgs' = msgs \ {m}
    /\ UNCHANGED <<pc, classes, nodeNum, serverNum, allHere, frags, route,
                   routed, terminate, training>>

\* Mutant: worker ids are counted up from id_max_range.
AssignIdUpwards(t, m) ==
    LET n == m.from IN
    /\ Arrives(m, "init_address", Master)
    /\ Known(m)
    /\ thread[t].at = "idle"
    /\ ids' = [ids EXCEPT ![n] =
                 IF n \in Servers THEN Cardinality(Assigned(Servers)) + 1
                 ELSE IdMax + Cardinality(Assigned(Workers)) + 1]
    /\ Transition(t, "count node", n)
    /\ msgs' = msgs \ {m}
    /\ UNCHANGED <<pc, classes, nodeNum, serverNum, allHere, frags, route,
                   routed, terminate, training>>

\* node_init_address up to the count: register_node_ gives out the id, under
\* the route's write lock.  The response stays empty.
AssignId(t, m) ==
    LET n == m.from IN
    /\ Arrives(m, "init_address", Master)
    /\ Known(m)
    /\ thread[t].at = "idle"
    /\ ids' = [ids EXCEPT ![n] =
                 IF n \in Servers THEN Cardinality(Assigned(Servers)) + 1
                 ELSE IdMax - (Cardinality(Assigned(Workers)) + 1)]
    /\ Transition(t, "count node", n)
    /\ msgs' = msgs \ {m}
    /\ UNCHANGED <<pc, classes, nodeNum, serverNum, allHere, frags, route,
                   routed, terminate, training>>

CountNode(t) ==
    LET n == thread[t].node IN
    /\ Up(Master)
    /\ thread[t].at = "count node"
    /\ nodeNum' = nodeNum + 1
    /\ Transition(t, IF n \in Servers THEN "count server" ELSE "compare", n)
    /\ UNCHANGED <<pc, classes, msgs, ids, serverNum, allHere, frags, route,
                   routed, terminate, training>>

CountServer(t) ==
    /\ Up(Master)
    /\ thread[t].at = "count server"
    /\ serverNum' = serverNum + 1
    /\ Transition(t, "compare", thread[t].node)
    /\ UNCHANGED <<pc, classes, msgs, ids, nodeNum, allHere, frags, route,
                   routed, terminate, training>>

\* Mutant: the barrier opens one node too early.
CompareCountEarly(t) ==
    /\ Up(Master)
    /\ thread[t].at = "compare"
    /\ allHere' = (allHere \/ nodeNum >= ExpectedNodes - 1)
    /\ Transition(t, "idle", Free)
    /\ UNCHANGED <<pc, classes, msgs, ids, nodeNum, serverNum, frags, route,
                   routed, terminate, training>>

\* if (registered_node_num == expected_node_num) the barrier is opened.
CompareCount(t) ==
    /\ Up(Master)
    /\ thread[t].at = "compare"
    /\ allHere' = (allHere \/ nodeNum = ExpectedNodes)
    /\ Transition(t, "idle", Free)
    /\ UNCHANGED <<pc, classes, msgs, ids, nodeNum, serverNum, frags, route,
                   routed, terminate, training>>

\* Mutant: the fragments are divided among all the nodes.
InitHashfragAmongAll ==
    /\ pc[Master] = "waiting"
    /\ allHere
    /\ frags' = [frags EXCEPT ![Master] = nodeNum]
    /\ Goto(Master, "routing")
    /\ UNCHANGED <<classes, msgs, registration, route, routed, terminate, training>>

\* The main thread passes _route_init_barrier; init_hashfrag.
InitHashfrag ==
    /\ pc[Master] = "waiting"
    /\ allHere
    /\ IF serverNum > 0
       THEN /\ frags' = [frags EXCEPT ![Master] = serverNum]
            /\ Goto(Master, "routing")
       ELSE Goto(Master, "failed check") /\ UNCHANGED frags
    /\ UNCHANGED <<classes, msgs, registration, route, routed, terminate, training>>

\* send_route_to_workers, one iteration: the deferred response to node n.
SendRoute(n) ==
    /\ pc[Master] = "routing"
    /\ n \in Assigned(Nodes) \ routed
    /\ msgs' = msgs \cup {Response("init_address", Master, n, Assigned(Nodes))}
    /\ routed' = routed \cup {n}
    /\ UNCHANGED <<pc, classes, registration, frags, route, terminate, training>>

\* SwiftMaster: terminate.set_worker_num(worker_num())
SetWorkerNum ==
    /\ pc[Master] = "routing"
    /\ routed = Assigned(Nodes)
    /\ IF nodeNum > serverNum
       THEN workerTotal' = nodeNum - serverNum /\ Goto(Master, "totals")
       ELSE UNCHANGED workerTotal /\ Goto(Master, "failed check")
    /\ UNCHANGED <<classes, msgs, registration, frags, route, routed,
                   serverTotal, finished, told, stopped, training>>

\* terminate.set_server_num(server_num())
SetServerNum ==
    /\ pc[Master] = "totals"
    /\ IF serverNum > 0
       THEN serverTotal' = serverNum /\ Goto(Master, "terminating")
       ELSE UNCHANGED serverTotal /\ Goto(Master, "failed check")
    /\ UNCHANGED <<classes, msgs, registration, frags, route, routed,
                   workerTotal, finished, told, stopped, training>>

\* node_askfor_hashfrag; serialize CHECKs that the table exists.
HandleAskHashfrag(m) ==
    /\ Arrives(m, "hashfrag", Master)
    /\ Known(m)
    /\ \E t \in PoolThreads : thread[t].at = "idle"
    /\ IF frags[Master] > 0
       THEN Answer(m, {frags[Master]}) /\ UNCHANGED pc
       ELSE Goto(Master, "failed check") /\ UNCHANGED msgs
    /\ UNCHANGED <<classes, registration, frags, route, routed, terminate, training>>

-----------------------------------------------------------------------------
(* Both kinds of nodes: NodeTransferInit and NodeHashfragInit.             *)

\* The callback takes the route and opens the barrier; askfor_hashfrag.
AskHashfrag(n, m) ==
    /\ pc[n] = "registering"
    /\ IsAnswer(m, "init_address", Master, n)
    /\ route' = [route EXCEPT ![n] = m.load]
    /\ msgs' = (msgs \ {m}) \cup {Request("hashfrag", n, Master)}
    /\ Goto(n, "asking")
    /\ UNCHANGED <<classes, registration, frags, routed, terminate, training>>

\* The callback of askfor_hashfrag: deserialize, and the barrier is opened.
GetHashfrag(n, m) ==
    /\ pc[n] = "asking"
    /\ IsAnswer(m, "hashfrag", Master, n)
    /\ frags' = [frags EXCEPT ![n] = CHOOSE servers \in m.load : TRUE]
    /\ msgs' = msgs \ {m}
    /\ Goto(n, "inited")
    /\ UNCHANGED <<classes, registration, route, routed, terminate, training>>

\* time_limit of an init barrier.
Timeout(p) ==
    /\ MayTimeout
    /\ pc[p] \in {"registering", "asking"} \/ (p = Master /\ pc[p] = "waiting" /\ ~allHere)
    /\ Goto(p, "timeout")
    /\ UNCHANGED <<classes, msgs, registration, frags, route, routed,
                   terminate, training>>

-----------------------------------------------------------------------------
(* A server: init_pull_method, init_push_method and ServerTerminate.       *)

InitPullMethod(s) == AddClass(s, "inited", "pull", "pull ready")
InitPushMethod(s) == AddClass(s, "pull ready", "push", "push ready")
AwaitMaster(s)    == AddClass(s, "push ready", "terminate", "serving")

\* The handlers of pull and push; the table is not modelled here.
HandleAccess(s, m) ==
    /\ m.class \in {"pull", "push"}
    /\ Arrives(m, m.class, s)
    /\ Known(m)
    /\ Answer(m, {})
    /\ UNCHANGED <<pc, classes, registration, frags, route, routed, terminate,
                   training>>

\* The handler of SERVER_TOLD_TO_TERMINATE opens the barrier: from now on
\* main and the pool thread that has run the handler go on side by side.
HandleTerminate(s, m) ==
    /\ Arrives(m, "terminate", s)
    /\ Known(m)
    /\ msgs' = msgs \ {m}
    /\ Goto(s, "told")
    /\ UNCHANGED <<classes, registration, frags, route, routed, terminate, training>>

\* The pool thread sends the response.  main may have returned meanwhile.
SendTerminated(s) ==
    /\ pc[s] = "told"
    /\ msgs' = msgs \cup {Response("terminate", s, Master, {})}
    /\ Goto(s, "answered")
    /\ UNCHANGED <<classes, registration, frags, route, routed, terminate, training>>

\* main returns and ~Transfer has joined the pool thread.  main's own steps
\* before that join touch nothing another process sees.
LeaveServer(s) ==
    /\ pc[s] = "answered"
    /\ Goto(s, "gone")
    /\ UNCHANGED <<classes, msgs, registration, frags, route, routed,
                   terminate, training>>

-----------------------------------------------------------------------------
(* A worker: the Algorithm's train, which pulls and pushes by turns, and   *)
(* ClientTerminate.  The sleeps before the training and before the finish  *)
(* message wait for nobody: they are no steps.                             *)

\* The ids to_node_id can return on a node that has the hashfrag.
OwnersFor(n) == IF frags[n] > 0 THEN Owners(FragNum, frags[n]) ELSE {}

\* The ids send_addrs of a worker holds.
KnownIds(w) == {ids[n] : n \in route[w]}

\* pull_with_barrier or push_with_barrier, for keys of the servers with the
\* ids in `to`.  A worker pulls the keys of a minibatch before it pushes.
StartRound(w, to) ==
    LET class == IF rounds[w] % 2 = 0 THEN "pull" ELSE "push" IN
    /\ pc[w] = "inited"
    /\ waiting[w] = {}
    /\ rounds[w] < MaxRounds
    /\ IF to \subseteq KnownIds(w)
       THEN LET targets == {s \in route[w] : ids[s] \in to} IN
            /\ waiting' = [waiting EXCEPT ![w] = targets]
            /\ rounds' = [rounds EXCEPT ![w] = @ + 1]
            /\ msgs' = msgs \cup {Request(class, w, s) : s \in targets}
            /\ UNCHANGED pc
       ELSE Goto(w, "failed check") /\ UNCHANGED <<msgs, training>>
    /\ UNCHANGED <<classes, registration, frags, route, routed, terminate>>

\* The callback of one request of the round.
GetAccess(w, m) ==
    /\ m.class \in {"pull", "push"}
    /\ IsAnswer(m, m.class, m.from, w)
    /\ msgs' = msgs \ {m}
    /\ waiting' = [waiting EXCEPT ![w] = @ \ {m.from}]
    /\ UNCHANGED <<pc, classes, registration, frags, route, routed, terminate,
                   rounds>>

\* Mutant: the worker does not block until its last push is answered.
SendFinishAtOnce(w) ==
    /\ pc[w] = "inited"
    /\ msgs' = msgs \cup {Request("finish", w, Master)}
    /\ Goto(w, "finishing")
    /\ UNCHANGED <<classes, registration, frags, route, routed, terminate, training>>

\* train returns; worker_send_finish_message.
SendFinish(w) ==
    /\ pc[w] = "inited"
    /\ waiting[w] = {}
    /\ msgs' = msgs \cup {Request("finish", w, Master)}
    /\ Goto(w, "finishing")
    /\ UNCHANGED <<classes, registration, frags, route, routed, terminate, training>>

LeaveWorker(w, m) ==
    /\ pc[w] = "finishing"
    /\ IsAnswer(m, "finish", Master, w)
    /\ msgs' = msgs \ {m}
    /\ Goto(w, "gone")
    /\ UNCHANGED <<classes, registration, frags, route, routed, terminate, training>>

-----------------------------------------------------------------------------
(* The end of the job: MasterTerminate.                                    *)

\* wait_for_all_workers_finish registers its class only now.
AwaitWorkers == AddClass(Master, "terminating", "finish", "await workers")

\* The handler of WORKER_FINISH_WORK, on pool thread t.  The execution that
\* finds finished = workerTotal opens the barrier, which stays open: main
\* goes on while the thread has still to send the response.
HandleFinish(t, m) ==
    /\ Arrives(m, "finish", Master)
    /\ Known(m)
    /\ thread[t].at = "idle"
    /\ finished' = finished + 1
    /\ Transition(t, "answer", m.from)
    /\ msgs' = msgs \ {m}
    /\ UNCHANGED <<pc, classes, ids, nodeNum, serverNum, allHere, frags, route,
                   routed, workerTotal, serverTotal, told, stopped, training>>

\* Mutant: the handler leaves the response empty, so it is not sent.
AnswerFinishSilently(t) ==
    /\ Up(Master)
    /\ thread[t].at = "answer"
    /\ Transition(t, "idle", Free)
    /\ UNCHANGED <<pc, classes, msgs, ids, nodeNum, serverNum, allHere, frags,
                   route, routed, terminate, training>>

\* The rest of that task: send_response.
AnswerFinish(t) ==
    /\ Up(Master)
    /\ thread[t].at = "answer"
    /\ msgs' = msgs \cup {Response("finish", Master, thread[t].node, {})}
    /\ Transition(t, "idle", Free)
    /\ UNCHANGED <<pc, classes, ids, nodeNum, serverNum, allHere, frags, route,
                   routed, terminate, training>>

\* tell_all_servers_to_terminate, one iteration.
TellServer(s) ==
    /\ pc[Master] = "await workers"
    /\ finished >= workerTotal
    /\ s \in Assigned(Servers) \ told
    /\ told' = told \cup {s}
    /\ msgs' = msgs \cup {Request("terminate", Master, s)}
    /\ UNCHANGED <<pc, classes, registration, frags, route, routed,
                   workerTotal, serverTotal, finished, stopped, training>>

\* The callback of that request.
GetTerminated(m) ==
    /\ IsAnswer(m, "terminate", m.from, Master)
    /\ \E t \in PoolThreads : thread[t].at = "idle"
    /\ msgs' = msgs \ {m}
    /\ stopped' = stopped + 1
    /\ UNCHANGED <<pc, classes, registration, frags, route, routed,
                   workerTotal, serverTotal, finished, told, training>>

\* Mutant: ~Transfer does not join the pool threads.
LeaveMasterUnjoined ==
    /\ pc[Master] = "await workers"
    /\ finished >= workerTotal
    /\ told = Assigned(Servers)
    /\ stopped >= serverTotal
    /\ Goto(Master, IF stopped = Cardinality(told) THEN "gone"
                                                   ELSE "failed check")
    /\ UNCHANGED <<classes, msgs, registration, frags, route, routed,
                   terminate, training>>

\* The last barrier opens and main returns; ~Transfer CHECKs that no reply
\* is missing, and joins the pool threads, which may have answers to send.
LeaveMaster ==
    /\ pc[Master] = "await workers"
    /\ finished >= workerTotal
    /\ told = Assigned(Servers)
    /\ stopped >= serverTotal
    /\ \/ /\ stopped # Cardinality(told)
          /\ Goto(Master, "failed check")
       \/ /\ stopped = Cardinality(told)
          /\ \A t \in PoolThreads : thread[t].at = "idle"
          /\ Goto(Master, "gone")
    /\ UNCHANGED <<classes, msgs, registration, frags, route, routed,
                   terminate, training>>

-----------------------------------------------------------------------------
MasterMain ==
    \/ RegisterMessageClass \/ InitHashfrag \/ SetWorkerNum \/ SetServerNum
    \/ AwaitWorkers \/ LeaveMaster
    \/ \E n \in Nodes : SendRoute(n)
    \/ \E s \in Servers : TellServer(s)

MasterPool ==
    \/ \E t \in PoolThreads :
          \/ \E m \in msgs : AssignId(t, m) \/ HandleFinish(t, m)
          \/ CountNode(t) \/ CountServer(t) \/ CompareCount(t) \/ AnswerFinish(t)
    \/ \E m \in msgs : HandleAskHashfrag(m) \/ GetTerminated(m)

NodeInit(n) ==
    \/ RegisterLocalNode(n)
    \/ \E m \in msgs : AskHashfrag(n, m) \/ GetHashfrag(n, m)

ServerStep(s) ==
    \/ NodeInit(s)
    \/ InitPullMethod(s) \/ InitPushMethod(s) \/ AwaitMaster(s)
    \/ \E m \in msgs : HandleAccess(s, m) \/ HandleTerminate(s, m)
    \/ SendTerminated(s) \/ LeaveServer(s)

WorkerStep(w) ==
    \/ NodeInit(w)
    \/ \E to \in (SUBSET OwnersFor(w)) \ {{}} : StartRound(w, to)
    \/ SendFinish(w)
    \/ \E m \in msgs : GetAccess(w, m) \/ LeaveWorker(w, m)

Next ==
    \/ MasterMain
    \/ MasterPool
    \/ \E s \in Servers : ServerStep(s)
    \/ \E w \in Workers : WorkerStep(w)
    \/ \E m \in msgs : UnknownClass(m)
    \/ \E p \in Processes : Timeout(p)

Spec == Init /\ [][Next]_vars
(***************************************************************************)
(* Every thread is scheduled: a process that can go on does.  The start of *)
(* the processes and the sleeps take finite time.  A worker's training     *)
(* ends (MaxRounds).  A time limit is never obliged to expire, and a       *)
(* request never obliged to arrive before its class is registered.         *)
(***************************************************************************)
Fairness ==
    /\ WF_vars(MasterMain)
    /\ WF_vars(MasterPool)
    /\ \A s \in Servers : WF_vars(ServerStep(s))
    /\ \A w \in Workers : WF_vars(WorkerStep(w))

FairSpec == Spec /\ Fairness

-----------------------------------------------------------------------------
(* Properties.                                                             *)

MasterPlaces == {"start", "waiting", "routing", "totals", "terminating",
                 "await workers"}
NodePlaces   == {"start", "registering", "asking", "inited", "pull ready",
                 "push ready", "serving", "told", "answered", "finishing"}
AddingPlaces == {"adding pull", "adding push", "adding terminate", "adding finish"}
ThreadPlaces == {"idle", "count node", "count server", "compare", "answer"}

TypeOK ==
    /\ pc \in [Processes -> MasterPlaces \cup NodePlaces \cup AddingPlaces \cup Ended]
    /\ classes \in [Processes -> SUBSET Classes]
    /\ \A m \in msgs : /\ m.type \in {"request", "response"}
                       /\ m.class \in Classes
                       /\ m.from \in Processes /\ m.to \in Processes
    /\ thread \in [PoolThreads -> [at : ThreadPlaces, node : Nodes \cup {Free}]]
    /\ ids \in [Nodes -> 0 .. IdMax]
    /\ nodeNum \in Nat /\ serverNum \in Nat
    /\ allHere \in BOOLEAN
    /\ frags \in [Processes -> Nat]
    /\ route \in [Nodes -> SUBSET Nodes]
    /\ routed \subseteq Nodes
    /\ workerTotal \in Nat /\ serverTotal \in Nat
    /\ finished \in Nat /\ stopped \in Nat
    /\ told \subseteq Servers
    /\ waiting \in [Workers -> SUBSET Servers]
    /\ rounds \in [Workers -> 0 .. MaxRounds]

(***************************************************************************)
(* The master gives every node an id of its own, the servers 1, 2, ... in  *)
(* the order they come, although its pool threads register nodes at the    *)
(* same time and the ids are numbers it has counted (ServerWorkerRoute.h). *)
(***************************************************************************)
IdsIdentify ==
    /\ \A m, n \in Assigned(Nodes) : ids[m] = ids[n] => m = n
    /\ {ids[s] : s \in Assigned(Servers)} = 1 .. Cardinality(Assigned(Servers))

(***************************************************************************)
(* No node is told the route before everyone is in it, and what it is told *)
(* is enough: each id its hashfrag can return is the id, in its own route, *)
(* of a server.                                                            *)
(***************************************************************************)
NodesCanReachOwners ==
    \A n \in Nodes :
       /\ pc[n] \in {"asking", "inited"} => route[n] = Nodes
       /\ \A id \in OwnersFor(n) : \E s \in Servers \cap route[n] : ids[s] = id

(***************************************************************************)
(* A node that has the hashfrag spreads the keys over all the servers: the *)
(* master divided the fragments when every server had been counted.        *)
(***************************************************************************)
EveryServerHasKeys ==
    \A p \in Processes :
       frags[p] > 0 => OwnersFor(p) = {ids[s] : s \in Servers}

(***************************************************************************)
(* A server is not told to terminate while anyone may still need it: by    *)
(* then every worker has ended its training, has all the answers it waited *)
(* for, and no pull or push is on its way.                                 *)
(***************************************************************************)
ServersOutliveTraining ==
    (told # {}) =>
       /\ \A w \in Workers : pc[w] \in {"finishing", "gone"} /\ waiting[w] = {}
       /\ \A m \in msgs : m.class \notin {"pull", "push"}

(***************************************************************************)
(* When the master is gone nobody needs it any more: every server has      *)
(* exported its table and sent its answer (server/terminate.h:33-41), and  *)
(* every worker is gone or its answer is on the way, although the answers  *)
(* are sent by pool threads while the main threads go on.  The servers     *)
(* need not be gone: "all servers have terminated" (master/terminate.h:36) *)
(* says more than their answers do.                                        *)
(***************************************************************************)
MasterLeavesNobody ==
    pc[Master] = "gone" =>
       /\ \A s \in Servers : pc[s] \in {"answered", "gone"}
       /\ \A w \in Workers : \/ pc[w] = "gone"
                             \/ \E m \in msgs : /\ m.type = "response"
                                                /\ m.class = "finish" /\ m.to = w

(***************************************************************************)
(* The CHECKs of the start-up code hold: the counts handed to set_num_nodes *)
(* (hashfrag.h:23) and to MasterTerminate (terminate.h:22, 26) are         *)
(* positive, the table exists when it is asked for (hashfrag.h:89), keys   *)
(* belong to ids in the route (transfer.h:97), and no reply is missing     *)
(* when the master leaves (transfer.h:244).                                *)
(***************************************************************************)
StartUpChecksHold == \A p \in Processes : pc[p] # "failed check"

\* Where the receiver of a request of a class can be when it has not
\* registered the class: there and nowhere else.
EarlyPlaces ==
    LET starting == {"registering", "asking", "inited", "adding pull"}
        unpushed == starting \cup {"pull ready", "adding push"} IN
    [init_address |-> {"start"},
     hashfrag     |-> {},
     pull         |-> starting,
     push         |-> unpushed,
     terminate    |-> unpushed \cup {"push ready", "adding terminate"},
     finish       |-> {"routing", "totals", "terminating", "adding finish"}]

(***************************************************************************)
(* MessageClass::get aborts a process that has not registered the class of *)
(* a request (transfer.h:43), and nothing but sleeps keeps requests from   *)
(* being early.  But only these can be: a registration at a master that    *)
(* has just been started, a finish message at a master that is still busy  *)
(* with the routes and the totals, and calls of a server between its       *)
(* registration and the adding of the class.  A node never asks for the    *)
(* hashfrag too early, and no one calls a server that has not registered.  *)
(***************************************************************************)
OnlyEarlyRequestsAreUnknown ==
    \A m \in msgs :
       m.type = "request" /\ Up(m.to) /\ ~Known(m) => pc[m.to] \in EarlyPlaces[m.class]

\* The transfer layer of p looks up the class of a request in this step.
LooksUp(p) ==
    \/ \E m \in msgs \ msgs' : m.type = "request" /\ m.to = p
    \/ Up(p) /\ pc'[p] = "unknown class"

(***************************************************************************)
(* "message_class will only be changed between read" (transfer.h:19-20),   *)
(* which is why get does without the lock: no request is looked up while   *)
(* the main thread of its receiver adds a class.                           *)
(***************************************************************************)
ClassesChangeBetweenReads == [][\A p \in Processes : Adding(p) => ~LooksUp(p)]_vars

(***************************************************************************)
(* The job ends: every process returns from its main, unless a request was *)
(* so early that its receiver aborted.                                     *)
(***************************************************************************)
JobTerminates ==
    <>(\/ \A p \in Processes : pc[p] = "gone"
       \/ \E p \in Processes : pc[p] = "unknown class")
=============================================================================
