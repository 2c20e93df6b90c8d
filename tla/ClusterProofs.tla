--------------------------- MODULE ClusterProofs ---------------------------
(***************************************************************************)
(* Theorems about Cluster, for every number of servers, workers and pool   *)
(* threads.  The invariants are found in layers, each proved inductive     *)
(* with the help of those before it: what the messages are, how the master *)
(* registers nodes, what the phases of the start-up have brought about,    *)
(* the workers' training, the end of the job, and what is owed to whom.    *)
(***************************************************************************)
EXTENDS Cluster, HashFragProofs, FiniteSetTheorems

\* The two ends of the call a message belongs to.
Caller(m) == IF m.type = "request" THEN m.from ELSE m.to
Callee(m) == IF m.type = "request" THEN m.to ELSE m.from

\* async_exec_num = 1.
OneThread == \A t, u \in PoolThreads : t = u

Places == MasterPlaces \cup NodePlaces \cup AddingPlaces \cup Ended

-----------------------------------------------------------------------------
(* What the variables and the messages are.                                *)

MessageOK(m) ==
    /\ m.type \in {"request", "response"}
    /\ m.class \in Classes
    /\ m.type = "request" => m = Request(m.class, m.from, m.to)
    /\ m.class \in {"init_address", "hashfrag"} =>
          Caller(m) \in Nodes /\ Callee(m) = Master
    /\ m.class = "finish" => Caller(m) \in Workers /\ Callee(m) = Master
    /\ m.class \in {"pull", "push"} => Caller(m) \in Workers /\ Callee(m) \in Nodes
    /\ m.class = "terminate" => Caller(m) = Master /\ Callee(m) \in Servers
    /\ m.type = "response" /\ m.class = "init_address" => m.load \subseteq Nodes
    /\ m.type = "response" /\ m.class = "hashfrag" =>
          \E v \in Nat : v > 0 /\ m.load = {v}

\* TypeOK but for waiting: that only servers are in it takes the whole
\* start-up to show.
PlacesOK ==
    /\ pc \in [Processes -> Places]
    /\ classes \in [Processes -> SUBSET Classes]
CountersOK ==
    /\ thread \in [PoolThreads -> [at : ThreadPlaces, node : Nodes \cup {Free}]]
    /\ \A t \in PoolThreads : thread[t].at = "answer" => thread[t].node \in Workers
    /\ ids \in [Nodes -> 0 .. IdMax]
    /\ nodeNum \in Nat /\ serverNum \in Nat
    /\ allHere \in BOOLEAN
RoutesOK ==
    /\ frags \in [Processes -> Nat]
    /\ route \in [Nodes -> SUBSET Nodes]
    /\ routed \subseteq Nodes
TotalsOK ==
    /\ workerTotal \in Nat /\ serverTotal \in Nat
    /\ finished \in Nat /\ stopped \in Nat
    /\ told \subseteq Servers
RoundsOK ==
    /\ waiting \in [Workers -> SUBSET Nodes]
    /\ rounds \in [Workers -> 0 .. MaxRounds]

VarsOK == PlacesOK /\ CountersOK /\ RoutesOK /\ TotalsOK /\ RoundsOK

TypeInv == VarsOK /\ \A m \in msgs : MessageOK(m)

-----------------------------------------------------------------------------
(* Registration.                                                           *)

\* A node asks for an id once, before it has one.
Fresh ==
    \A n \in Nodes :
       /\ Request("init_address", n, Master) \in msgs => ids[n] = 0
       /\ pc[n] = "start" =>
             ids[n] = 0 /\ Request("init_address", n, Master) \notin msgs

ServerIds ==
    /\ \A m, n \in Assigned(Servers) : ids[m] = ids[n] => m = n
    /\ \A s \in Assigned(Servers) : ids[s] \in 1 .. Cardinality(Assigned(Servers))
    /\ \A i \in 1 .. Cardinality(Assigned(Servers)) :
          \E s \in Assigned(Servers) : ids[s] = i

WorkerIds ==
    /\ \A m, n \in Assigned(Workers) : ids[m] = ids[n] => m = n
    /\ \A w \in Assigned(Workers) :
          /\ ids[w] >= IdMax - Cardinality(Assigned(Workers))
          /\ ids[w] < IdMax

\* The steps of the registration handler: an answer does not count.
Counting(t) == thread[t].at \notin {"idle", "answer"}

\* A thread registers a node that has its id, and no other thread's node.
ThreadsInv ==
    /\ \A t \in PoolThreads :
          Counting(t) => thread[t].node \in Nodes /\ ids[thread[t].node] # 0
    /\ \A t \in PoolThreads :
          thread[t].at = "count server" => thread[t].node \in Servers
    /\ \A t, u \in PoolThreads :
          Counting(t) /\ Counting(u) /\ thread[t].node = thread[u].node => t = u

\* The nodes that are counted in the two counters.
CountedNodes ==
    {n \in Nodes : /\ ids[n] # 0
                   /\ \A t \in PoolThreads :
                         thread[t].node = n => thread[t].at # "count node"}
CountedServers ==
    {s \in Servers : /\ ids[s] # 0
                     /\ \A t \in PoolThreads :
                           thread[t].node = s =>
                              thread[t].at \notin {"count node", "count server"}}

CountsInv ==
    /\ nodeNum = Cardinality(CountedNodes)
    /\ serverNum = Cardinality(CountedServers)
    /\ allHere => CountedNodes = Nodes
    /\ OneThread /\ allHere => CountedServers = Servers

RegInv == Fresh /\ ServerIds /\ WorkerIds /\ ThreadsInv /\ CountsInv

-----------------------------------------------------------------------------
(* The phases of the start-up.                                             *)

\* The places of the master after it has built the table.
Routing == {"routing", "totals", "terminating", "adding finish", "await workers",
            "gone"}

MasterPhases ==
    /\ pc[Master] \in {"start", "waiting"} => frags[Master] = 0
    /\ pc[Master] \in Routing => frags[Master] > 0
    /\ frags[Master] > 0 =>
          /\ allHere
          /\ frags[Master] <= Cardinality(Servers)
          /\ OneThread => frags[Master] = Cardinality(Servers)
    /\ pc[Master] \in Routing \ {"routing"} =>
          /\ workerTotal >= Cardinality(Workers)
          /\ OneThread => workerTotal = Cardinality(Workers)
    /\ pc[Master] \in {"terminating", "adding finish", "await workers"} /\ OneThread =>
          serverTotal = Cardinality(Servers)

\* A node that has not failed and has got the route.
Routed(n) == pc[n] \notin {"start", "registering"} \cup Failed

NodePhases ==
    \A n \in Nodes :
       /\ route[n] # {} => route[n] = Nodes /\ frags[Master] > 0
       /\ frags[n] > 0 => route[n] # {} /\ frags[n] = frags[Master]
       /\ Routed(n) \/ classes[n] # {} => route[n] # {}

Loads ==
    \A m \in msgs :
       /\ m.class = "init_address" /\ m.type = "response" =>
             m.load = Nodes /\ frags[Master] > 0
       /\ m.class = "hashfrag" => frags[Master] > 0
       /\ m.class = "hashfrag" /\ m.type = "response" => m.load = {frags[Master]}

PhaseInv == MasterPhases /\ NodePhases /\ Loads

-----------------------------------------------------------------------------
(* Training.                                                               *)

IsAccess(m) == m.class \in {"pull", "push"}

\* A pool thread has counted the worker and has still to answer it.
Answering(w) == \E t \in PoolThreads : thread[t].at = "answer" /\ thread[t].node = w

\* The workers whose finish message has been handled.
Handled ==
    {w \in Workers : \/ pc[w] = "gone"
                     \/ Answering(w)
                     \/ \E m \in msgs : /\ m.class = "finish"
                                        /\ m.type = "response" /\ m.to = w}

AccessInv ==
    /\ \A w \in Workers : waiting[w] \subseteq Servers
    /\ \A m \in msgs : IsAccess(m) => Callee(m) \in waiting[Caller(m)]
    /\ \A m, k \in msgs :
          IsAccess(m) /\ IsAccess(k) /\ Caller(m) = Caller(k) /\ Callee(m) = Callee(k)
          => m = k

FinishInv ==
    /\ \A w \in Workers : pc[w] \in {"finishing", "gone"} => waiting[w] = {}
    /\ \A m \in msgs : m.class = "finish" => pc[Caller(m)] = "finishing"
    /\ \A m, k \in msgs :
          m.class = "finish" /\ k.class = "finish" /\ Caller(m) = Caller(k) => m = k

\* Its call is in one place: a message, or the one thread that will answer it.
AnsweringInv ==
    /\ \A t \in PoolThreads : thread[t].at = "answer" =>
          /\ pc[thread[t].node] = "finishing"
          /\ \A m \in msgs : m.class = "finish" => Caller(m) # thread[t].node
    /\ \A t, u \in PoolThreads :
          /\ thread[t].at = "answer" /\ thread[u].at = "answer"
          /\ thread[t].node = thread[u].node
          => t = u

HandledInv ==
    /\ finished = Cardinality(Handled)
    /\ told # {} \/ pc[Master] = "gone" => Handled = Workers

TrainInv == AccessInv /\ FinishInv /\ AnsweringInv /\ HandledInv

-----------------------------------------------------------------------------
(* The end of the job.                                                     *)

\* The servers that have sent their answer, which the master has taken.
Closed ==
    {s \in Servers : /\ pc[s] \in {"answered", "gone"}
                     /\ \A m \in msgs : m.class = "terminate" => Callee(m) # s}

TerminateInv ==
    /\ \A s \in Servers : pc[s] \in {"told", "answered", "gone"} => s \in told
    /\ \A m \in msgs : m.class = "terminate" =>
          /\ Callee(m) \in told
          /\ pc[Callee(m)] # "told"
          /\ m.type = "response" <=> pc[Callee(m)] \in {"answered", "gone"}
    /\ \A m, k \in msgs :
          m.class = "terminate" /\ k.class = "terminate" /\ Callee(m) = Callee(k)
          => m = k

ClosedInv ==
    /\ stopped = Cardinality(Closed)
    /\ pc[Master] = "gone" => Closed = Servers

\* ~Transfer has joined the pool.
JoinedInv == pc[Master] = "gone" => \A t \in PoolThreads : thread[t].at = "idle"

StopInv == TerminateInv /\ ClosedInv /\ JoinedInv

-----------------------------------------------------------------------------
(* The message classes.                                                    *)

\* Where a server can be, and where it has registered a class.
ServerPlaces == {"start", "registering", "asking", "inited", "adding pull",
                 "pull ready", "adding push", "push ready", "adding terminate",
                 "serving", "told", "answered"}
PullPlaces == {"pull ready", "adding push", "push ready", "adding terminate",
               "serving", "told", "answered"}
PushPlaces == PullPlaces \ {"pull ready", "adding push"}
ServingPlaces == {"serving", "told", "answered"}

\* What p has registered when it is at a place.
HasClasses(p, place, known) ==
    /\ p = Master =>
          /\ place \in MasterPlaces \cup {"adding finish"} \cup Ended
          /\ place \notin {"start"} \cup Ended =>
                {"init_address", "hashfrag"} \subseteq known
          /\ place = "await workers" => "finish" \in known
    /\ p \in Servers =>
          /\ place \in ServerPlaces \cup Ended
          /\ place \in PullPlaces => "pull" \in known
          /\ place \in PushPlaces => "push" \in known
          /\ place \in ServingPlaces => "terminate" \in known
          /\ "terminate" \in known => {"pull", "push"} \subseteq known

ClassesInv == \A p \in Processes : HasClasses(p, pc[p], classes[p])

\* Nobody trains without the hashfrag.
RoundsInv == \A w \in Workers : waiting[w] # {} => frags[w] > 0

KnownInv == ClassesInv /\ RoundsInv

-----------------------------------------------------------------------------
(* What is owed: whoever waits will be answered.                           *)

\* A node that is registering has its request under way, or is in the route
\* that the master has still to send it, or its response is under way.
RegisteringIsOwed(n) ==
    \/ Request("init_address", n, Master) \in msgs
    \/ ids[n] # 0 /\ n \notin routed
    \/ \E m \in msgs : /\ m.class = "init_address"
                       /\ m.type = "response" /\ m.to = n

RoutedInv ==
    /\ routed \subseteq Assigned(Nodes)
    /\ pc[Master] \in Routing \ {"routing"} => routed = Nodes

AskingInv ==
    \A n \in Nodes :
       /\ pc[n] = "registering" => RegisteringIsOwed(n)
       /\ pc[n] = "asking" => \E m \in msgs : m.class = "hashfrag" /\ Caller(m) = n

AskInv == RoutedInv /\ AskingInv

\* The thread that counts the last node finds that it is the last.
CountedInv ==
    \/ allHere
    \/ CountedNodes # Nodes
    \/ \E t \in PoolThreads : Counting(t)

AnswerInv ==
    \A w \in Workers :
       /\ \A s \in waiting[w] :
             \E m \in msgs : IsAccess(m) /\ Caller(m) = w /\ Callee(m) = s
       /\ pc[w] = "finishing" =>
             Answering(w) \/ \E m \in msgs : m.class = "finish" /\ Caller(m) = w

ToldInv ==
    \A s \in told :
       \/ pc[s] \in {"told", "answered", "gone"}
       \/ \E m \in msgs : m.class = "terminate" /\ Callee(m) = s

OwedInv == AskInv /\ CountedInv /\ AnswerInv /\ ToldInv

\* The main thread blocks on a barrier that nobody has opened yet.
MasterBlocks ==
    \/ pc[Master] = "waiting" /\ ~allHere
    \/ pc[Master] = "await workers" /\ finished < workerTotal
    \/ /\ pc[Master] = "await workers"
       /\ told = Assigned(Servers) /\ stopped < serverTotal
NodeBlocks(n) ==
    \/ pc[n] \in {"registering", "asking", "finishing"}
    \/ n \in Servers /\ pc[n] = "serving"
    \/ n \in Workers /\ pc[n] = "inited" /\ waiting[n] # {}

\* No process has failed, and no main thread can go on by itself.
AllBlock ==
    /\ MasterBlocks \/ pc[Master] = "gone"
    /\ \A n \in Nodes : NodeBlocks(n) \/ pc[n] = "gone"

IdleThread == \E t \in PoolThreads : thread[t].at = "idle"

\* Message m can be handled, or be refused because its class is not there:
\* its receiver is up, with an idle thread if it is the master, and a
\* response finds who waits for it.
CanTake(m) ==
    /\ Up(m.to)
    /\ m.to = Master => IdleThread
    /\ m.type = "response" =>
          /\ m.class = "init_address" => pc[m.to] = "registering"
          /\ m.class = "hashfrag" => pc[m.to] = "asking"
          /\ m.class = "finish" => pc[m.to] = "finishing"

\* All block only when all have returned, or a pool thread or a message
\* will wake one of them.
SomebodyGoesOn ==
    AllBlock =>
       \/ \A p \in Processes : pc[p] = "gone"
       \/ \E t \in PoolThreads : thread[t].at # "idle"
       \/ \E m \in msgs : CanTake(m)

-----------------------------------------------------------------------------
(* Messages and steps.                                                     *)

LEMMA RequestFields ==
    ASSUME NEW class, NEW from, NEW to
    PROVE  LET m == Request(class, from, to) IN
           /\ m.type = "request" /\ m.class = class
           /\ m.from = from /\ m.to = to
           /\ Caller(m) = from /\ Callee(m) = to
  BY DEF Request, Caller, Callee

LEMMA ResponseFields ==
    ASSUME NEW class, NEW from, NEW to, NEW load
    PROVE  LET m == Response(class, from, to, load) IN
           /\ m.type = "response" /\ m.class = class
           /\ m.from = from /\ m.to = to /\ m.load = load
           /\ Caller(m) = to /\ Callee(m) = from
  BY DEF Response, Caller, Callee

\* The steps of AddClass: who takes them, and at which place.
AddsClass(p) ==
    \/ p = Master /\ AwaitWorkers
    \/ p \in Servers /\ (InitPullMethod(p) \/ InitPushMethod(p) \/ AwaitMaster(p))

LEMMA NodesAndMaster ==
    /\ IsFiniteSet(Nodes) /\ IsFiniteSet(Servers) /\ IsFiniteSet(Workers)
    /\ Cardinality(Nodes) \in Nat
    /\ Cardinality(Servers) \in Nat /\ Cardinality(Workers) \in Nat
    /\ Cardinality(Servers) > 0 /\ Cardinality(Workers) > 0
    /\ Cardinality(Nodes) = Cardinality(Servers) + Cardinality(Workers)
<1>1. IsFiniteSet(Nodes) /\ Servers \subseteq Nodes /\ Workers \subseteq Nodes
  BY ClusterAssumption DEF Nodes
<1>2. IsFiniteSet(Servers) /\ IsFiniteSet(Workers)
  BY <1>1, FS_Subset
<1>3. /\ Cardinality(Nodes) \in Nat
      /\ Cardinality(Servers) \in Nat /\ Cardinality(Workers) \in Nat
  BY <1>1, <1>2, FS_CardinalityType
<1>4. Cardinality(Servers) # 0 /\ Cardinality(Workers) # 0
  BY <1>2, FS_EmptySet, ClusterAssumption
<1>5. Servers \cap Workers = {}
  BY ClusterAssumption
<1>6. Cardinality(Servers \cap Workers) = 0
  BY <1>5, FS_EmptySet
<1>7. Cardinality(Nodes) = Cardinality(Servers) + Cardinality(Workers)
                              - Cardinality(Servers \cap Workers)
  BY <1>2, FS_Union DEF Nodes
<1> QED
  BY <1>1, <1>2, <1>3, <1>4, <1>6, <1>7

\* What a step is, action by action.
Step ==
    \/ RegisterMessageClass \/ InitHashfrag \/ SetWorkerNum \/ SetServerNum
    \/ LeaveMaster
    \/ \E n \in Nodes : SendRoute(n) \/ RegisterLocalNode(n)
    \/ \E s \in Servers : TellServer(s) \/ SendTerminated(s) \/ LeaveServer(s)
    \/ \E w \in Workers : SendFinish(w)
    \/ \E w \in Workers : \E to \in (SUBSET OwnersFor(w)) \ {{}} : StartRound(w, to)
    \/ \E p \in Processes : AddsClass(p) \/ Timeout(p)
    \/ \E t \in PoolThreads :
          CountNode(t) \/ CountServer(t) \/ CompareCount(t) \/ AnswerFinish(t)
    \/ \E m \in msgs :
          \/ HandleAskHashfrag(m) \/ GetTerminated(m) \/ UnknownClass(m)
          \/ \E t \in PoolThreads : AssignId(t, m) \/ HandleFinish(t, m)
          \/ \E n \in Nodes : AskHashfrag(n, m) \/ GetHashfrag(n, m)
          \/ \E s \in Servers : HandleAccess(s, m) \/ HandleTerminate(s, m)
          \/ \E w \in Workers : GetAccess(w, m) \/ LeaveWorker(w, m)

LEMMA NextIsStep ==
    ASSUME Next PROVE Step
<1>1. CASE MasterMain
  BY <1>1 DEF MasterMain, AddsClass, Processes, Step
<1>2. CASE MasterPool
  BY <1>2 DEF MasterPool, Step
<1>3. ASSUME NEW n \in Nodes, NodeInit(n) PROVE Step
  BY <1>3 DEF NodeInit, Step
<1>4. ASSUME NEW s \in Servers, ServerStep(s) PROVE Step
  <2>1. s \in Nodes /\ s \in Processes
    BY DEF Nodes, Processes
  <2> QED
    BY <1>3, <1>4, <2>1 DEF ServerStep, AddsClass, Step
<1>5. ASSUME NEW w \in Workers, WorkerStep(w) PROVE Step
  <2>1. w \in Nodes
    BY DEF Nodes
  <2> QED
    BY <1>3, <1>5, <2>1 DEF WorkerStep, Step
<1> QED
  BY <1>1, <1>2, <1>4, <1>5 DEF Next, Step

LEMMA AddsClassFacts ==
    ASSUME NEW p \in Processes, AddsClass(p)
    PROVE  /\ p = Master \/ p \in Servers
           /\ p = Master =>
                 /\ pc[p] \in {"terminating", "adding finish"}
                 /\ \E place \in {"adding finish", "await workers"} :
                       pc' = [pc EXCEPT ![p] = place]
           /\ p \in Servers =>
                 /\ pc[p] \in {"inited", "pull ready", "push ready", "adding pull",
                               "adding push", "adding terminate"}
                 /\ \E place \in {"pull ready", "push ready", "serving", "adding pull",
                                  "adding push", "adding terminate"} :
                       pc' = [pc EXCEPT ![p] = place]
           /\ \/ UNCHANGED classes
              \/ \E class \in Classes : classes' = [classes EXCEPT ![p] = @ \cup {class}]
           /\ UNCHANGED <<msgs, registration, frags, route, routed, terminate, training>>
<1>1. Master \notin Servers
  BY ClusterAssumption DEF Nodes
<1>2. /\ AddingPlace["pull"] = "adding pull" /\ AddingPlace["push"] = "adding push"
      /\ AddingPlace["terminate"] = "adding terminate"
      /\ AddingPlace["finish"] = "adding finish"
  BY DEF AddingPlace
<1>3. {"pull", "push", "finish", "terminate"} \subseteq Classes
  BY DEF Classes
<1> HIDE DEF AddingPlace
<1>4. CASE p = Master /\ AwaitWorkers
  BY <1>1, <1>2, <1>3, <1>4 DEF AwaitWorkers, AddClass, Goto
<1>5. CASE p \in Servers /\ InitPullMethod(p)
  BY <1>1, <1>2, <1>3, <1>5 DEF InitPullMethod, AddClass, Goto
<1>6. CASE p \in Servers /\ InitPushMethod(p)
  BY <1>1, <1>2, <1>3, <1>6 DEF InitPushMethod, AddClass, Goto
<1>7. CASE p \in Servers /\ AwaitMaster(p)
  BY <1>1, <1>2, <1>3, <1>7 DEF AwaitMaster, AddClass, Goto
<1> QED
  BY <1>4, <1>5, <1>6, <1>7 DEF AddsClass

-----------------------------------------------------------------------------
(* What the variables and the messages are.                                *)

LEMMA AllPlaces ==
    {"start", "waiting", "routing", "totals", "terminating", "await workers",
     "registering", "asking", "inited", "pull ready", "push ready", "serving",
     "told", "answered", "finishing", "adding pull", "adding push", "adding terminate",
     "adding finish", "failed check", "unknown class", "timeout", "gone"}
    \subseteq Places
  BY DEF Places, MasterPlaces, NodePlaces, AddingPlaces, Ended, Failed

LEMMA AllProcesses ==
    /\ Master \in Processes
    /\ \A n \in Nodes : n \in Processes /\ n # Master
    /\ \A s \in Servers : s \in Nodes /\ s \notin Workers
    /\ \A w \in Workers : w \in Nodes /\ w \notin Servers
    /\ Nodes = Servers \cup Workers
  BY ClusterAssumption DEF Processes, Nodes

LEMMA TypeInit == Init => TypeInv
<1> SUFFICES ASSUME Init PROVE TypeInv
  OBVIOUS
<1>1. PlacesOK
  BY AllPlaces DEF Init, PlacesOK
<1>2. CountersOK
  <2>1. 0 \in 0 .. IdMax
    BY ClusterAssumption
  <2> QED
    BY <2>1 DEF Init, CountersOK, ThreadPlaces
<1>3. RoutesOK /\ TotalsOK
  BY DEF Init, RoutesOK, TotalsOK
<1>4. RoundsOK
  <2>1. 0 \in 0 .. MaxRounds
    BY ClusterAssumption
  <2> QED
    BY <2>1 DEF Init, RoundsOK
<1> QED
  BY <1>1, <1>2, <1>3, <1>4 DEF Init, TypeInv, VarsOK

\* The ids that can be given out.
LEMMA NextIds ==
    /\ Cardinality(Assigned(Servers)) \in Nat
    /\ Cardinality(Assigned(Servers)) <= Cardinality(Servers)
    /\ Cardinality(Assigned(Servers)) + 1 \in 1 .. IdMax
    /\ Cardinality(Assigned(Workers)) \in Nat
    /\ Cardinality(Assigned(Workers)) <= Cardinality(Workers)
    /\ IdMax - (Cardinality(Assigned(Workers)) + 1) \in 1 .. IdMax
<1>1. Assigned(Servers) \subseteq Servers /\ Assigned(Workers) \subseteq Workers
  BY DEF Assigned
<1>2. /\ Cardinality(Assigned(Servers)) \in Nat
      /\ Cardinality(Assigned(Servers)) <= Cardinality(Servers)
      /\ Cardinality(Assigned(Workers)) \in Nat
      /\ Cardinality(Assigned(Workers)) <= Cardinality(Workers)
  BY <1>1, NodesAndMaster, FS_Subset, FS_CardinalityType
<1>3. IdMax \in Nat /\ IdMax > Cardinality(Nodes)
  BY ClusterAssumption
<1> QED
  BY <1>2, <1>3, NodesAndMaster

LEMMA VarsStep ==
    ASSUME VarsOK, \A m \in msgs : MessageOK(m), Next
    PROVE  VarsOK'
<1>0. PlacesOK /\ CountersOK /\ RoutesOK /\ TotalsOK /\ RoundsOK
  BY DEF VarsOK
<1>a. UNCHANGED <<pc, classes>> => PlacesOK'
  BY <1>0 DEF PlacesOK
<1>b. UNCHANGED registration => CountersOK'
  BY <1>0 DEF registration, CountersOK
<1>c. UNCHANGED <<frags, route, routed>> => RoutesOK'
  BY <1>0 DEF RoutesOK
<1>d. UNCHANGED terminate => TotalsOK'
  BY <1>0 DEF terminate, TotalsOK
<1>e. UNCHANGED training => RoundsOK'
  BY <1>0 DEF training, RoundsOK
<1>1. ASSUME RegisterMessageClass PROVE VarsOK'
  <2>1. PlacesOK'
    BY <1>1, AllPlaces, AllProcesses, <1>0 DEF RegisterMessageClass, Goto, PlacesOK, Classes
  <2> QED
    BY <1>1, <2>1, <1>b, <1>c, <1>d, <1>e DEF RegisterMessageClass, VarsOK
<1>2. ASSUME InitHashfrag PROVE VarsOK'
  <2>1. PlacesOK'
    BY <1>2, AllPlaces, AllProcesses, <1>0 DEF InitHashfrag, Goto, PlacesOK
  <2>2. RoutesOK'
    <3>1. serverNum \in Nat
      BY <1>0 DEF CountersOK
    <3> QED
      BY <1>2, <3>1, AllProcesses, <1>0 DEF InitHashfrag, RoutesOK
  <2> QED
    BY <1>2, <2>1, <2>2, <1>b, <1>d, <1>e DEF InitHashfrag, VarsOK
<1>3. ASSUME SetWorkerNum PROVE VarsOK'
  <2>1. nodeNum \in Nat /\ serverNum \in Nat /\ workerTotal \in Nat
    BY <1>0 DEF CountersOK, TotalsOK
  <2>2. workerTotal' \in Nat
    <3>1. nodeNum > serverNum => nodeNum - serverNum \in Nat
      BY <2>1
    <3>2. \/ nodeNum > serverNum /\ workerTotal' = nodeNum - serverNum
          \/ workerTotal' = workerTotal
      BY <1>3 DEF SetWorkerNum
    <3> QED
      BY <2>1, <3>1, <3>2
  <2>3. TotalsOK'
    BY <1>3, <2>2, <1>0 DEF SetWorkerNum, TotalsOK
  <2>4. PlacesOK'
    BY <1>3, AllPlaces, AllProcesses, <1>0 DEF SetWorkerNum, Goto, PlacesOK
  <2> QED
    BY <1>3, <2>3, <2>4, <1>b, <1>c, <1>e DEF SetWorkerNum, VarsOK
<1>4. ASSUME SetServerNum PROVE VarsOK'
  <2>1. PlacesOK'
    BY <1>4, AllPlaces, AllProcesses, <1>0 DEF SetServerNum, Goto, PlacesOK
  <2>2. TotalsOK'
    BY <1>4, <1>0 DEF SetServerNum, TotalsOK, CountersOK
  <2> QED
    BY <1>4, <2>1, <2>2, <1>b, <1>c, <1>e DEF SetServerNum, VarsOK
<1>5. ASSUME LeaveMaster PROVE VarsOK'
  <2>1. PlacesOK'
    BY <1>5, AllPlaces, AllProcesses, <1>0 DEF LeaveMaster, Goto, PlacesOK
  <2> QED
    BY <1>5, <2>1, <1>b, <1>c, <1>d, <1>e DEF LeaveMaster, VarsOK
<1>6. ASSUME NEW n \in Nodes, SendRoute(n) PROVE VarsOK'
  <2>1. RoutesOK'
    BY <1>6, AllProcesses, <1>0 DEF SendRoute, RoutesOK
  <2> QED
    BY <1>6, <2>1, <1>a, <1>b, <1>d, <1>e DEF SendRoute, VarsOK
<1>7. ASSUME NEW s \in Servers, TellServer(s) PROVE VarsOK'
  <2>1. TotalsOK'
    BY <1>7, <1>0 DEF TellServer, TotalsOK
  <2> QED
    BY <1>7, <2>1, <1>a, <1>b, <1>c, <1>e DEF TellServer, VarsOK
<1>8. ASSUME NEW t \in PoolThreads, NEW m \in msgs, AssignId(t, m) PROVE VarsOK'
  <2>1. m.from \in Nodes
    BY <1>8 DEF AssignId, Arrives, MessageOK, Caller
  <2>4. thread' \in [PoolThreads -> [at : ThreadPlaces, node : Nodes \cup {Free}]]
    BY <1>8, <2>1, <1>0 DEF AssignId, Transition, CountersOK, ThreadPlaces
  <2>8. \A u \in PoolThreads : thread'[u].at = "answer" => thread'[u].node \in Workers
    BY <1>8, <1>0 DEF AssignId, Transition, CountersOK
  <2>5. ids' \in [Nodes -> 0 .. IdMax]
    <3>1. PICK id : /\ id \in {Cardinality(Assigned(Servers)) + 1,
                              IdMax - (Cardinality(Assigned(Workers)) + 1)}
                    /\ ids' = [ids EXCEPT ![m.from] = id]
      BY <1>8 DEF AssignId
    <3>2. id \in 0 .. IdMax
      <4>1. \A x \in 1 .. IdMax : x \in 0 .. IdMax
        BY ClusterAssumption
      <4> QED
        BY <3>1, <4>1, NextIds
    <3> QED
      BY <3>1, <3>2, <1>0 DEF CountersOK
  <2>6. nodeNum' \in Nat /\ serverNum' \in Nat /\ allHere' \in BOOLEAN
    <3>1. nodeNum \in Nat /\ serverNum \in Nat /\ allHere \in BOOLEAN
      BY <1>0 DEF CountersOK
    <3>2. nodeNum + 1 \in Nat /\ serverNum + 1 \in Nat
      BY <3>1
    <3> QED
      BY <1>8, <3>1, <3>2 DEF AssignId
  <2>7. CountersOK'
    BY <2>4, <2>5, <2>6, <2>8 DEF CountersOK
  <2> QED
    BY <1>8, <2>7, <1>a, <1>c, <1>d, <1>e DEF AssignId, VarsOK
<1>9. ASSUME NEW t \in PoolThreads, CountNode(t) PROVE VarsOK'
  <2>1. thread[t].node \in Nodes \cup {Free}
    BY <1>0 DEF CountersOK
  <2>4. thread' \in [PoolThreads -> [at : ThreadPlaces, node : Nodes \cup {Free}]]
    BY <1>9, <2>1, <1>0 DEF CountNode, Transition, CountersOK, ThreadPlaces
  <2>8. \A u \in PoolThreads : thread'[u].at = "answer" => thread'[u].node \in Workers
    BY <1>9, <1>0 DEF CountNode, Transition, CountersOK
  <2>5. ids' \in [Nodes -> 0 .. IdMax]
    BY <1>9, <1>0 DEF CountNode, CountersOK
  <2>6. nodeNum' \in Nat /\ serverNum' \in Nat /\ allHere' \in BOOLEAN
    <3>1. nodeNum \in Nat /\ serverNum \in Nat /\ allHere \in BOOLEAN
      BY <1>0 DEF CountersOK
    <3>2. nodeNum + 1 \in Nat /\ serverNum + 1 \in Nat
      BY <3>1
    <3> QED
      BY <1>9, <3>1, <3>2 DEF CountNode
  <2>7. CountersOK'
    BY <2>4, <2>5, <2>6, <2>8 DEF CountersOK
  <2> QED
    BY <1>9, <2>7, <1>a, <1>c, <1>d, <1>e DEF CountNode, VarsOK
<1>10. ASSUME NEW t \in PoolThreads, CountServer(t) PROVE VarsOK'
  <2>1. thread[t].node \in Nodes \cup {Free}
    BY <1>0 DEF CountersOK
  <2>4. thread' \in [PoolThreads -> [at : ThreadPlaces, node : Nodes \cup {Free}]]
    BY <1>10, <2>1, <1>0 DEF CountServer, Transition, CountersOK, ThreadPlaces
  <2>8. \A u \in PoolThreads : thread'[u].at = "answer" => thread'[u].node \in Workers
    BY <1>10, <1>0 DEF CountServer, Transition, CountersOK
  <2>5. ids' \in [Nodes -> 0 .. IdMax]
    BY <1>10, <1>0 DEF CountServer, CountersOK
  <2>6. nodeNum' \in Nat /\ serverNum' \in Nat /\ allHere' \in BOOLEAN
    <3>1. nodeNum \in Nat /\ serverNum \in Nat /\ allHere \in BOOLEAN
      BY <1>0 DEF CountersOK
    <3>2. nodeNum + 1 \in Nat /\ serverNum + 1 \in Nat
      BY <3>1
    <3> QED
      BY <1>10, <3>1, <3>2 DEF CountServer
  <2>7. CountersOK'
    BY <2>4, <2>5, <2>6, <2>8 DEF CountersOK
  <2> QED
    BY <1>10, <2>7, <1>a, <1>c, <1>d, <1>e DEF CountServer, VarsOK
<1>11. ASSUME NEW t \in PoolThreads, CompareCount(t) PROVE VarsOK'
  <2>1. CountersOK'
    BY <1>11, <1>0 DEF CompareCount, Transition, CountersOK, ThreadPlaces
  <2> QED
    BY <1>11, <2>1, <1>a, <1>c, <1>d, <1>e DEF CompareCount, VarsOK
<1>12. ASSUME NEW m \in msgs, HandleAskHashfrag(m) PROVE VarsOK'
  <2>1. PlacesOK'
    BY <1>12, AllPlaces, AllProcesses, <1>0 DEF HandleAskHashfrag, Goto, PlacesOK
  <2> QED
    BY <1>12, <2>1, <1>b, <1>c, <1>d, <1>e DEF HandleAskHashfrag, VarsOK
<1>13. ASSUME NEW t \in PoolThreads, NEW m \in msgs, HandleFinish(t, m) PROVE VarsOK'
  <2>1. TotalsOK'
    BY <1>13, <1>0 DEF HandleFinish, TotalsOK
  <2>2. m.from \in Workers
    BY <1>13 DEF HandleFinish, Arrives, MessageOK, Caller
  <2>3. CountersOK'
    BY <1>13, <2>2, <1>0, AllProcesses DEF HandleFinish, Transition, CountersOK, ThreadPlaces
  <2> QED
    BY <1>13, <2>1, <2>3, <1>a, <1>c, <1>e DEF HandleFinish, VarsOK
<1>14. ASSUME NEW m \in msgs, GetTerminated(m) PROVE VarsOK'
  <2>1. TotalsOK'
    BY <1>14, <1>0 DEF GetTerminated, TotalsOK
  <2> QED
    BY <1>14, <2>1, <1>a, <1>b, <1>c, <1>e DEF GetTerminated, VarsOK
<1>15. ASSUME NEW n \in Nodes, RegisterLocalNode(n) PROVE VarsOK'
  <2>1. PlacesOK'
    BY <1>15, AllPlaces, AllProcesses, <1>0 DEF RegisterLocalNode, Goto, PlacesOK
  <2> QED
    BY <1>15, <2>1, <1>b, <1>c, <1>d, <1>e DEF RegisterLocalNode, VarsOK
<1>16. ASSUME NEW n \in Nodes, NEW m \in msgs, AskHashfrag(n, m) PROVE VarsOK'
  <2>1. m.load \subseteq Nodes
    BY <1>16 DEF AskHashfrag, IsAnswer, MessageOK
  <2>2. PlacesOK'
    BY <1>16, <2>1, AllPlaces, AllProcesses, <1>0 DEF AskHashfrag, Goto, PlacesOK
  <2>3. RoutesOK'
    BY <1>16, <2>1, AllProcesses, <1>0 DEF AskHashfrag, RoutesOK
  <2> QED
    BY <1>16, <2>2, <2>3, <1>b, <1>d, <1>e DEF AskHashfrag, VarsOK
<1>17. ASSUME NEW n \in Nodes, NEW m \in msgs, GetHashfrag(n, m) PROVE VarsOK'
  <2>1. PICK v \in Nat : m.load = {v}
    BY <1>17 DEF GetHashfrag, IsAnswer, MessageOK
  <2>2. PlacesOK'
    BY <1>17, <2>1, AllPlaces, AllProcesses, <1>0 DEF GetHashfrag, Goto, PlacesOK
  <2>3. RoutesOK'
    BY <1>17, <2>1, AllProcesses, <1>0 DEF GetHashfrag, RoutesOK
  <2> QED
    BY <1>17, <2>2, <2>3, <1>b, <1>d, <1>e DEF GetHashfrag, VarsOK
<1>18. ASSUME NEW p \in Processes, AddsClass(p) PROVE VarsOK'
  <2>1. UNCHANGED <<msgs, registration, frags, route, routed, terminate, training>>
    BY <1>18, AddsClassFacts
  <2>2. pc' \in [Processes -> Places]
    <3>1. PICK place \in Places : pc' = [pc EXCEPT ![p] = place]
      BY <1>18, AddsClassFacts, AllPlaces
    <3> QED
      BY <3>1, <1>0 DEF PlacesOK
  <2>3. classes' \in [Processes -> SUBSET Classes]
    <3>1. CASE UNCHANGED classes
      BY <3>1, <1>0 DEF PlacesOK
    <3>2. CASE \E class \in Classes : classes' = [classes EXCEPT ![p] = @ \cup {class}]
      BY <3>2, <1>0 DEF PlacesOK
    <3> QED
      BY <1>18, <3>1, <3>2, AddsClassFacts
  <2> QED
    BY <2>1, <2>2, <2>3, <1>b, <1>c, <1>d, <1>e DEF PlacesOK, VarsOK
<1>19. ASSUME NEW s \in Servers, NEW m \in msgs, HandleAccess(s, m) PROVE VarsOK'
  <2> QED
    BY <1>19, <1>a, <1>b, <1>c, <1>d, <1>e DEF HandleAccess, VarsOK
<1>20. ASSUME NEW s \in Servers, NEW m \in msgs, HandleTerminate(s, m) PROVE VarsOK'
  <2>1. PlacesOK'
    BY <1>20, AllPlaces, AllProcesses, <1>0 DEF HandleTerminate, Goto, PlacesOK
  <2> QED
    BY <1>20, <2>1, <1>b, <1>c, <1>d, <1>e DEF HandleTerminate, VarsOK
<1>21. ASSUME NEW s \in Servers, LeaveServer(s) PROVE VarsOK'
  <2>1. PlacesOK'
    BY <1>21, AllPlaces, AllProcesses, <1>0 DEF LeaveServer, Goto, PlacesOK
  <2> QED
    BY <1>21, <2>1, <1>b, <1>c, <1>d, <1>e DEF LeaveServer, VarsOK
<1>22. ASSUME NEW w \in Workers, NEW to \in (SUBSET OwnersFor(w)) \ {{}}, StartRound(w, to) PROVE VarsOK'
  <2>1. PlacesOK'
    BY <1>22, AllPlaces, AllProcesses, <1>0 DEF StartRound, Goto, PlacesOK
  <2>2. waiting' \in [Workers -> SUBSET Nodes]
    <3>1. route[w] \in SUBSET Nodes
      BY AllProcesses, <1>0 DEF RoutesOK
    <3>2. {s \in route[w] : ids[s] \in to} \in SUBSET Nodes
      BY <3>1
    <3>3. \/ UNCHANGED waiting
          \/ waiting' = [waiting EXCEPT ![w] = {s \in route[w] : ids[s] \in to}]
      BY <1>22 DEF StartRound, training
    <3> QED
      BY <3>2, <3>3, <1>0 DEF RoundsOK
  <2>3. rounds' \in [Workers -> 0 .. MaxRounds]
    <3>1. rounds[w] \in 0 .. MaxRounds /\ MaxRounds \in Nat
      BY <1>0, ClusterAssumption DEF RoundsOK
    <3>2. rounds[w] < MaxRounds => rounds[w] + 1 \in 0 .. MaxRounds
      BY <3>1
    <3> QED
      BY <1>22, <3>2, <1>0 DEF StartRound, training, RoundsOK
  <2> QED
    BY <1>22, <2>1, <2>2, <2>3, <1>b, <1>c, <1>d DEF StartRound, RoundsOK, VarsOK
<1>23. ASSUME NEW w \in Workers, SendFinish(w) PROVE VarsOK'
  <2>1. PlacesOK'
    BY <1>23, AllPlaces, AllProcesses, <1>0 DEF SendFinish, Goto, PlacesOK
  <2> QED
    BY <1>23, <2>1, <1>b, <1>c, <1>d, <1>e DEF SendFinish, VarsOK
<1>24. ASSUME NEW w \in Workers, NEW m \in msgs, GetAccess(w, m) PROVE VarsOK'
  <2>1. RoundsOK'
    BY <1>24, <1>0 DEF GetAccess, RoundsOK
  <2> QED
    BY <1>24, <2>1, <1>a, <1>b, <1>c, <1>d DEF GetAccess, VarsOK
<1>25. ASSUME NEW w \in Workers, NEW m \in msgs, LeaveWorker(w, m) PROVE VarsOK'
  <2>1. PlacesOK'
    BY <1>25, AllPlaces, AllProcesses, <1>0 DEF LeaveWorker, Goto, PlacesOK
  <2> QED
    BY <1>25, <2>1, <1>b, <1>c, <1>d, <1>e DEF LeaveWorker, VarsOK
<1>26. ASSUME NEW m \in msgs, UnknownClass(m) PROVE VarsOK'
  <2>1. m.to \in Processes
    BY <1>26, AllProcesses DEF UnknownClass, MessageOK, Classes, Callee
  <2>2. PlacesOK'
    BY <1>26, <2>1, AllPlaces, <1>0 DEF UnknownClass, Goto, PlacesOK
  <2> QED
    BY <1>26, <2>2, <1>b, <1>c, <1>d, <1>e DEF UnknownClass, VarsOK
<1>27. ASSUME NEW p \in Processes, Timeout(p) PROVE VarsOK'
  <2>1. PlacesOK'
    BY <1>27, AllPlaces, AllProcesses, <1>0 DEF Timeout, Goto, PlacesOK
  <2> QED
    BY <1>27, <2>1, <1>b, <1>c, <1>d, <1>e DEF Timeout, VarsOK
<1>28. ASSUME NEW t \in PoolThreads, AnswerFinish(t) PROVE VarsOK'
  <2>1. CountersOK'
    BY <1>28, <1>0 DEF AnswerFinish, Transition, CountersOK, ThreadPlaces
  <2> QED
    BY <1>28, <2>1, <1>a, <1>c, <1>d, <1>e DEF AnswerFinish, VarsOK
<1>29. ASSUME NEW s \in Servers, SendTerminated(s) PROVE VarsOK'
  <2>1. PlacesOK'
    BY <1>29, AllPlaces, AllProcesses, <1>0 DEF SendTerminated, Goto, PlacesOK
  <2> QED
    BY <1>29, <2>1, <1>b, <1>c, <1>d, <1>e DEF SendTerminated, VarsOK
<1> QED
  BY <1>1, <1>2, <1>3, <1>4, <1>5, <1>6, <1>7, <1>8, <1>9, <1>10, <1>11, <1>12, <1>13, <1>14, <1>15, <1>16, <1>17, <1>18, <1>19, <1>20, <1>21, <1>22, <1>23, <1>24, <1>25, <1>26, <1>27, <1>28, <1>29, NextIsStep DEF Step

\* The messages the steps send.
LEMMA RequestsOK ==
    /\ \A n \in Nodes : /\ MessageOK(Request("init_address", n, Master))
                        /\ MessageOK(Request("hashfrag", n, Master))
    /\ \A w \in Workers : MessageOK(Request("finish", w, Master))
    /\ \A s \in Servers : MessageOK(Request("terminate", Master, s))
    /\ \A w \in Workers, n \in Nodes : /\ MessageOK(Request("pull", w, n))
                                       /\ MessageOK(Request("push", w, n))
<1>1. ASSUME NEW class \in Classes, NEW from, NEW to,
             class \in {"init_address", "hashfrag"} => from \in Nodes /\ to = Master,
             class = "finish" => from \in Workers /\ to = Master,
             class \in {"pull", "push"} => from \in Workers /\ to \in Nodes,
             class = "terminate" => from = Master /\ to \in Servers
      PROVE  MessageOK(Request(class, from, to))
  <2>1. PICK m : m = Request(class, from, to)
    OBVIOUS
  <2>2. /\ m.type = "request" /\ m.class = class /\ m.from = from /\ m.to = to
        /\ Caller(m) = from /\ Callee(m) = to
    BY <2>1, RequestFields
  <2> QED
    BY <1>1, <2>1, <2>2 DEF MessageOK
<1> QED
  BY <1>1 DEF Classes

LEMMA ResponsesOK ==
    /\ \A n \in Nodes, load \in SUBSET Nodes :
          MessageOK(Response("init_address", Master, n, load))
    /\ \A n \in Nodes, v \in Nat : v > 0 =>
          MessageOK(Response("hashfrag", Master, n, {v}))
    /\ \A w \in Workers : MessageOK(Response("finish", Master, w, {}))
    /\ \A s \in Servers : MessageOK(Response("terminate", s, Master, {}))
    /\ \A w \in Workers, n \in Nodes : /\ MessageOK(Response("pull", n, w, {}))
                                       /\ MessageOK(Response("push", n, w, {}))
<1>1. ASSUME NEW class \in Classes, NEW from, NEW to, NEW load,
             class \in {"init_address", "hashfrag"} => to \in Nodes /\ from = Master,
             class = "finish" => to \in Workers /\ from = Master,
             class \in {"pull", "push"} => to \in Workers /\ from \in Nodes,
             class = "terminate" => to = Master /\ from \in Servers,
             class = "init_address" => load \subseteq Nodes,
             class = "hashfrag" => \E v \in Nat : v > 0 /\ load = {v}
      PROVE  MessageOK(Response(class, from, to, load))
  <2>1. PICK m : m = Response(class, from, to, load)
    OBVIOUS
  <2>2. /\ m.type = "response" /\ m.class = class /\ m.from = from /\ m.to = to
        /\ m.load = load /\ Caller(m) = to /\ Callee(m) = from
    BY <2>1, ResponseFields
  <2>3. m.class = "hashfrag" => \E v \in Nat : v > 0 /\ m.load = {v}
    BY <1>1, <2>2
  <2>4. m.type # "request"
    BY <2>2
  <2> HIDE DEF Response
  <2>5. MessageOK(m)
    BY <1>1, <2>2, <2>3, <2>4 DEF MessageOK
  <2> QED
    BY <2>1, <2>5
<1> QED
  BY <1>1 DEF Classes

\* A step sends at most the one message that its action sends, or, when a
\* worker begins a round, requests to several servers.
LEMMA MessagesStep ==
    ASSUME VarsOK, \A m \in msgs : MessageOK(m), Next
    PROVE  \A k \in msgs' : MessageOK(k)
<1> USE AllProcesses
<1>0. /\ \A x : MessageOK(x) /\ msgs' \subseteq msgs \cup {x} => \A k \in msgs' : MessageOK(k)
      /\ msgs' \subseteq msgs => \A k \in msgs' : MessageOK(k)
  OBVIOUS
<1>1. ASSUME RegisterMessageClass PROVE \A k \in msgs' : MessageOK(k)
  BY <1>1, <1>0 DEF RegisterMessageClass
<1>2. ASSUME InitHashfrag PROVE \A k \in msgs' : MessageOK(k)
  BY <1>2, <1>0 DEF InitHashfrag
<1>3. ASSUME SetWorkerNum PROVE \A k \in msgs' : MessageOK(k)
  BY <1>3, <1>0 DEF SetWorkerNum
<1>4. ASSUME SetServerNum PROVE \A k \in msgs' : MessageOK(k)
  BY <1>4, <1>0 DEF SetServerNum
<1>5. ASSUME LeaveMaster PROVE \A k \in msgs' : MessageOK(k)
  BY <1>5, <1>0 DEF LeaveMaster
<1>6. ASSUME NEW n \in Nodes, SendRoute(n) PROVE \A k \in msgs' : MessageOK(k)
  <2>1. Assigned(Nodes) \in SUBSET Nodes
    BY DEF Assigned
  <2>2. MessageOK(Response("init_address", Master, n, Assigned(Nodes)))
    BY <2>1, ResponsesOK
  <2> QED
    BY <1>6, <2>2, <1>0 DEF SendRoute
<1>7. ASSUME NEW s \in Servers, TellServer(s) PROVE \A k \in msgs' : MessageOK(k)
  BY <1>7, RequestsOK, <1>0 DEF TellServer
<1>8. ASSUME NEW t \in PoolThreads, NEW m \in msgs, AssignId(t, m) PROVE \A k \in msgs' : MessageOK(k)
  BY <1>8, <1>0 DEF AssignId
<1>9. ASSUME NEW t \in PoolThreads, CountNode(t) PROVE \A k \in msgs' : MessageOK(k)
  BY <1>9, <1>0 DEF CountNode
<1>10. ASSUME NEW t \in PoolThreads, CountServer(t) PROVE \A k \in msgs' : MessageOK(k)
  BY <1>10, <1>0 DEF CountServer
<1>11. ASSUME NEW t \in PoolThreads, CompareCount(t) PROVE \A k \in msgs' : MessageOK(k)
  BY <1>11, <1>0 DEF CompareCount
<1>12. ASSUME NEW m \in msgs, HandleAskHashfrag(m) PROVE \A k \in msgs' : MessageOK(k)
  <2>1. m.class = "hashfrag" /\ m.to = Master /\ m.from \in Nodes
    BY <1>12 DEF HandleAskHashfrag, Arrives, MessageOK, Caller
  <2>2. CASE frags[Master] > 0
    <3>1. frags[Master] \in Nat
      BY DEF VarsOK, RoutesOK
    <3>2. MessageOK(Response("hashfrag", Master, m.from, {frags[Master]}))
      BY <2>1, <2>2, <3>1, ResponsesOK
    <3> QED
      BY <1>12, <2>1, <2>2, <3>2, <1>0 DEF HandleAskHashfrag, Answer
  <2>3. CASE ~(frags[Master] > 0)
    BY <1>12, <2>3, <1>0 DEF HandleAskHashfrag
  <2> QED
    BY <2>2, <2>3
<1>13. ASSUME NEW t \in PoolThreads, NEW m \in msgs, HandleFinish(t, m) PROVE \A k \in msgs' : MessageOK(k)
  BY <1>13, <1>0 DEF HandleFinish
<1>14. ASSUME NEW m \in msgs, GetTerminated(m) PROVE \A k \in msgs' : MessageOK(k)
  BY <1>14, <1>0 DEF GetTerminated
<1>15. ASSUME NEW n \in Nodes, RegisterLocalNode(n) PROVE \A k \in msgs' : MessageOK(k)
  BY <1>15, RequestsOK, <1>0 DEF RegisterLocalNode
<1>16. ASSUME NEW n \in Nodes, NEW m \in msgs, AskHashfrag(n, m) PROVE \A k \in msgs' : MessageOK(k)
  <2>1. MessageOK(Request("hashfrag", n, Master))
    BY RequestsOK
  <2> QED
    BY <1>16, <2>1, <1>0 DEF AskHashfrag
<1>17. ASSUME NEW n \in Nodes, NEW m \in msgs, GetHashfrag(n, m) PROVE \A k \in msgs' : MessageOK(k)
  BY <1>17, <1>0 DEF GetHashfrag
<1>18. ASSUME NEW p \in Processes, AddsClass(p) PROVE \A k \in msgs' : MessageOK(k)
  BY <1>18, <1>0, AddsClassFacts
<1>19. ASSUME NEW s \in Servers, NEW m \in msgs, HandleAccess(s, m) PROVE \A k \in msgs' : MessageOK(k)
  <2>1. m.class \in {"pull", "push"} /\ m.to = s /\ m.from \in Workers
    BY <1>19 DEF HandleAccess, Arrives, MessageOK, Caller
  <2>2. MessageOK(Response(m.class, m.to, m.from, {}))
    BY <2>1, ResponsesOK
  <2> QED
    BY <1>19, <2>2, <1>0 DEF HandleAccess, Answer
<1>20. ASSUME NEW s \in Servers, NEW m \in msgs, HandleTerminate(s, m) PROVE \A k \in msgs' : MessageOK(k)
  BY <1>20, <1>0 DEF HandleTerminate
<1>21. ASSUME NEW s \in Servers, LeaveServer(s) PROVE \A k \in msgs' : MessageOK(k)
  BY <1>21, <1>0 DEF LeaveServer
<1>22. ASSUME NEW w \in Workers, NEW to \in (SUBSET OwnersFor(w)) \ {{}}, StartRound(w, to) PROVE \A k \in msgs' : MessageOK(k)
  <2>1. PICK class \in {"pull", "push"} :
          msgs' \subseteq msgs \cup {Request(class, w, s) : s \in route[w]}
    <3>1. PICK class \in {"pull", "push"} :
             class = IF rounds[w] % 2 = 0 THEN "pull" ELSE "push"
      OBVIOUS
    <3>2. \/ UNCHANGED msgs
          \/ msgs' = msgs \cup
                {Request(class, w, s) : s \in {x \in route[w] : ids[x] \in to}}
      BY <1>22, <3>1 DEF StartRound
    <3> QED
      BY <3>2
  <2>2. route[w] \subseteq Nodes
    BY DEF VarsOK, RoutesOK
  <2>3. \A s \in route[w] : MessageOK(Request(class, w, s))
    BY <2>2, RequestsOK
  <2> QED
    BY <2>1, <2>3
<1>23. ASSUME NEW w \in Workers, SendFinish(w) PROVE \A k \in msgs' : MessageOK(k)
  BY <1>23, RequestsOK, <1>0 DEF SendFinish
<1>24. ASSUME NEW w \in Workers, NEW m \in msgs, GetAccess(w, m) PROVE \A k \in msgs' : MessageOK(k)
  BY <1>24, <1>0 DEF GetAccess
<1>25. ASSUME NEW w \in Workers, NEW m \in msgs, LeaveWorker(w, m) PROVE \A k \in msgs' : MessageOK(k)
  BY <1>25, <1>0 DEF LeaveWorker
<1>26. ASSUME NEW m \in msgs, UnknownClass(m) PROVE \A k \in msgs' : MessageOK(k)
  BY <1>26, <1>0 DEF UnknownClass
<1>27. ASSUME NEW p \in Processes, Timeout(p) PROVE \A k \in msgs' : MessageOK(k)
  BY <1>27, <1>0 DEF Timeout
<1>28. ASSUME NEW t \in PoolThreads, AnswerFinish(t) PROVE \A k \in msgs' : MessageOK(k)
  <2>1. thread[t].node \in Workers
    BY <1>28 DEF AnswerFinish, VarsOK, CountersOK
  <2> QED
    BY <1>28, <2>1, ResponsesOK, <1>0 DEF AnswerFinish
<1>29. ASSUME NEW s \in Servers, SendTerminated(s) PROVE \A k \in msgs' : MessageOK(k)
  BY <1>29, ResponsesOK, <1>0 DEF SendTerminated
<1> QED
  BY <1>1, <1>2, <1>3, <1>4, <1>5, <1>6, <1>7, <1>8, <1>9, <1>10, <1>11, <1>12, <1>13, <1>14, <1>15, <1>16, <1>17, <1>18, <1>19, <1>20, <1>21, <1>22, <1>23, <1>24, <1>25, <1>26, <1>27, <1>28, <1>29, NextIsStep DEF Step

LEMMA TypeStep ==
    ASSUME TypeInv, [Next]_vars
    PROVE  TypeInv'
<1>1. CASE Next
  BY <1>1, VarsStep, MessagesStep DEF TypeInv
<1>2. CASE UNCHANGED vars
  BY <1>2 DEF vars, registration, terminate, training, TypeInv, VarsOK, PlacesOK,
              CountersOK, RoutesOK, TotalsOK, RoundsOK
<1> QED
  BY <1>1, <1>2

LEMMA AlwaysTyped == Spec => []TypeInv
<1>1. Init => TypeInv
  BY TypeInit
<1>2. TypeInv /\ [Next]_vars => TypeInv'
  BY TypeStep
<1> QED
  BY <1>1, <1>2, PTL DEF Spec

-----------------------------------------------------------------------------
(* Registration.                                                           *)

\* What a transition does to the threads.
LEMMA TransitionFacts ==
    ASSUME TypeInv, NEW t \in PoolThreads, NEW at, NEW node, Transition(t, at, node)
    PROVE  /\ thread'[t].at = at /\ thread'[t].node = node
           /\ \A u \in PoolThreads :
                 \/ u = t
                 \/ thread'[u].at = thread[u].at /\ thread'[u].node = thread[u].node
  BY DEF Transition, TypeInv, VarsOK, CountersOK

\* What all other steps leave alone.
QuietForIds ==
    /\ UNCHANGED <<ids, nodeNum, serverNum, allHere>>
    /\ \A t \in PoolThreads :
          \/ thread'[t].at = thread[t].at /\ thread'[t].node = thread[t].node
          \/ ~Counting(t) /\ thread'[t].at \in {"idle", "answer"}
    /\ \A n \in Nodes : pc'[n] = "start" => pc[n] = "start"
    /\ \A n \in Nodes : Request("init_address", n, Master) \in msgs' =>
                           Request("init_address", n, Master) \in msgs

LEMMA RegistrationSteps ==
    ASSUME TypeInv, Next
    PROVE  \/ QuietForIds
           \/ \E n \in Nodes : RegisterLocalNode(n)
           \/ \E t \in PoolThreads : \/ \E m \in msgs : AssignId(t, m)
                                     \/ CountNode(t) \/ CountServer(t) \/ CompareCount(t)
<1> DEFINE SamePlaces == \A n \in Nodes : pc'[n] = "start" => pc[n] = "start"
           SameAsking == \A n \in Nodes : Request("init_address", n, Master) \in msgs' =>
                                             Request("init_address", n, Master) \in msgs
<1>a. UNCHANGED registration /\ SamePlaces /\ SameAsking => QuietForIds
  BY DEF QuietForIds, registration
<1>b. /\ UNCHANGED pc => SamePlaces
      /\ \A p, place : pc' = [pc EXCEPT ![p] = place] /\ place # "start" => SamePlaces
  <2>1. pc \in [Processes -> Places] /\ Nodes \subseteq Processes
    BY AllProcesses DEF TypeInv, VarsOK, PlacesOK
  <2> QED
    BY <2>1
<1>c. /\ msgs' \subseteq msgs => SameAsking
      /\ \A x : msgs' \subseteq msgs \cup {x} /\ x.class # "init_address" => SameAsking
      /\ \A x : msgs' \subseteq msgs \cup {x} /\ x.type = "response" => SameAsking
  <2>1. \A n \in Nodes : /\ Request("init_address", n, Master).type = "request"
                         /\ Request("init_address", n, Master).class = "init_address"
    BY RequestFields
  <2> QED
    BY <2>1
<1>d. \A class, from, to : Request(class, from, to).class = class
  BY RequestFields
<1>e. \A class, from, to, load : Response(class, from, to, load).type = "response"
  BY ResponseFields
<1> HIDE DEF SamePlaces, SameAsking
<1>1. ASSUME RegisterMessageClass PROVE QuietForIds
  <2>1. SamePlaces
    BY <1>1, <1>b DEF RegisterMessageClass, Goto
  <2>2. SameAsking
    BY <1>1, <1>c, <1>d, <1>e DEF RegisterMessageClass, Answer
  <2> QED
    BY <1>1, <2>1, <2>2, <1>a DEF RegisterMessageClass
<1>2. ASSUME InitHashfrag PROVE QuietForIds
  <2>1. SamePlaces
    BY <1>2, <1>b DEF InitHashfrag, Goto
  <2>2. SameAsking
    BY <1>2, <1>c, <1>d, <1>e DEF InitHashfrag, Answer
  <2> QED
    BY <1>2, <2>1, <2>2, <1>a DEF InitHashfrag
<1>3. ASSUME SetWorkerNum PROVE QuietForIds
  <2>1. SamePlaces
    BY <1>3, <1>b DEF SetWorkerNum, Goto
  <2>2. SameAsking
    BY <1>3, <1>c, <1>d, <1>e DEF SetWorkerNum, Answer
  <2> QED
    BY <1>3, <2>1, <2>2, <1>a DEF SetWorkerNum
<1>4. ASSUME SetServerNum PROVE QuietForIds
  <2>1. SamePlaces
    BY <1>4, <1>b DEF SetServerNum, Goto
  <2>2. SameAsking
    BY <1>4, <1>c, <1>d, <1>e DEF SetServerNum, Answer
  <2> QED
    BY <1>4, <2>1, <2>2, <1>a DEF SetServerNum
<1>5. ASSUME LeaveMaster PROVE QuietForIds
  <2>1. SamePlaces
    BY <1>5, <1>b DEF LeaveMaster, Goto
  <2>2. SameAsking
    BY <1>5, <1>c, <1>d, <1>e DEF LeaveMaster, Answer
  <2> QED
    BY <1>5, <2>1, <2>2, <1>a DEF LeaveMaster
<1>6. ASSUME NEW n \in Nodes, SendRoute(n) PROVE QuietForIds
  <2>1. SamePlaces
    BY <1>6, <1>b DEF SendRoute, Goto
  <2>2. SameAsking
    BY <1>6, <1>c, <1>d, <1>e DEF SendRoute, Answer
  <2> QED
    BY <1>6, <2>1, <2>2, <1>a DEF SendRoute
<1>7. ASSUME NEW s \in Servers, TellServer(s) PROVE QuietForIds
  <2>1. SamePlaces
    BY <1>7, <1>b DEF TellServer, Goto
  <2>2. SameAsking
    BY <1>7, <1>c, <1>d, <1>e DEF TellServer, Answer
  <2> QED
    BY <1>7, <2>1, <2>2, <1>a DEF TellServer
<1>8. ASSUME NEW m \in msgs, HandleAskHashfrag(m) PROVE QuietForIds
  <2>1. SamePlaces
    BY <1>8, <1>b DEF HandleAskHashfrag, Goto
  <2>2. SameAsking
    <3>1. \/ UNCHANGED msgs
          \/ msgs' \subseteq msgs \cup
                {Response(m.class, m.to, m.from, {frags[Master]})}
      BY <1>8 DEF HandleAskHashfrag, Answer
    <3> QED
      BY <3>1, <1>c, <1>e
  <2> QED
    BY <1>8, <2>1, <2>2, <1>a DEF HandleAskHashfrag
<1>9. ASSUME NEW t \in PoolThreads, NEW m \in msgs, HandleFinish(t, m) PROVE QuietForIds
  <2>1. SamePlaces
    BY <1>9, <1>b DEF HandleFinish
  <2>2. SameAsking
    BY <1>9, <1>c DEF HandleFinish
  <2>3. /\ ~Counting(t) /\ thread'[t].at = "answer"
        /\ \A u \in PoolThreads :
              \/ u = t
              \/ thread'[u].at = thread[u].at /\ thread'[u].node = thread[u].node
    BY <1>9, TransitionFacts DEF HandleFinish, Counting
  <2> QED
    BY <1>9, <2>1, <2>2, <2>3 DEF HandleFinish, QuietForIds, SamePlaces, SameAsking
<1>10. ASSUME NEW m \in msgs, GetTerminated(m) PROVE QuietForIds
  <2>1. SamePlaces
    BY <1>10, <1>b DEF GetTerminated, Goto
  <2>2. SameAsking
    BY <1>10, <1>c, <1>d, <1>e DEF GetTerminated, Answer
  <2> QED
    BY <1>10, <2>1, <2>2, <1>a DEF GetTerminated
<1>11. ASSUME NEW n \in Nodes, NEW m \in msgs, AskHashfrag(n, m) PROVE QuietForIds
  <2>1. SamePlaces
    BY <1>11, <1>b DEF AskHashfrag, Goto
  <2>2. SameAsking
    BY <1>11, <1>c, <1>d, <1>e DEF AskHashfrag, Answer
  <2> QED
    BY <1>11, <2>1, <2>2, <1>a DEF AskHashfrag
<1>12. ASSUME NEW n \in Nodes, NEW m \in msgs, GetHashfrag(n, m) PROVE QuietForIds
  <2>1. SamePlaces
    BY <1>12, <1>b DEF GetHashfrag, Goto
  <2>2. SameAsking
    BY <1>12, <1>c, <1>d, <1>e DEF GetHashfrag, Answer
  <2> QED
    BY <1>12, <2>1, <2>2, <1>a DEF GetHashfrag
<1>13. ASSUME NEW p \in Processes, AddsClass(p) PROVE QuietForIds
  <2>1. SamePlaces
    <3>1. PICK place : pc' = [pc EXCEPT ![p] = place] /\ place # "start"
      BY <1>13, AddsClassFacts
    <3> QED
      BY <3>1, <1>b
  <2>2. UNCHANGED msgs /\ UNCHANGED registration
    BY <1>13, AddsClassFacts
  <2> QED
    BY <2>1, <2>2, <1>a, <1>c
<1>14. ASSUME NEW s \in Servers, NEW m \in msgs, HandleAccess(s, m) PROVE QuietForIds
  <2>1. SamePlaces
    BY <1>14, <1>b DEF HandleAccess, Goto
  <2>2. SameAsking
    BY <1>14, <1>c, <1>d, <1>e DEF HandleAccess, Answer
  <2> QED
    BY <1>14, <2>1, <2>2, <1>a DEF HandleAccess
<1>15. ASSUME NEW s \in Servers, NEW m \in msgs, HandleTerminate(s, m) PROVE QuietForIds
  <2>1. SamePlaces
    BY <1>15, <1>b DEF HandleTerminate, Goto
  <2>2. SameAsking
    BY <1>15, <1>c, <1>d, <1>e DEF HandleTerminate, Answer
  <2> QED
    BY <1>15, <2>1, <2>2, <1>a DEF HandleTerminate
<1>16. ASSUME NEW s \in Servers, LeaveServer(s) PROVE QuietForIds
  <2>1. SamePlaces
    BY <1>16, <1>b DEF LeaveServer, Goto
  <2>2. SameAsking
    BY <1>16, <1>c, <1>d, <1>e DEF LeaveServer, Answer
  <2> QED
    BY <1>16, <2>1, <2>2, <1>a DEF LeaveServer
<1>17. ASSUME NEW w \in Workers, NEW to \in (SUBSET OwnersFor(w)) \ {{}}, StartRound(w, to) PROVE QuietForIds
  <2>1. SamePlaces
    BY <1>17, <1>b DEF StartRound, Goto
  <2>2. SameAsking
    <3>1. PICK class \in {"pull", "push"} :
             class = IF rounds[w] % 2 = 0 THEN "pull" ELSE "push"
      OBVIOUS
    <3>2. \/ UNCHANGED msgs
          \/ msgs' = msgs \cup
                {Request(class, w, s) : s \in {x \in route[w] : ids[x] \in to}}
      BY <1>17, <3>1 DEF StartRound
    <3>3. \A s, n : Request("init_address", n, Master) # Request(class, w, s)
      BY <3>1, <1>d
    <3> QED
      BY <3>2, <3>3 DEF SameAsking
  <2> QED
    BY <1>17, <2>1, <2>2, <1>a DEF StartRound
<1>18. ASSUME NEW w \in Workers, SendFinish(w) PROVE QuietForIds
  <2>1. SamePlaces
    BY <1>18, <1>b DEF SendFinish, Goto
  <2>2. SameAsking
    BY <1>18, <1>c, <1>d, <1>e DEF SendFinish, Answer
  <2> QED
    BY <1>18, <2>1, <2>2, <1>a DEF SendFinish
<1>19. ASSUME NEW w \in Workers, NEW m \in msgs, GetAccess(w, m) PROVE QuietForIds
  <2>1. SamePlaces
    BY <1>19, <1>b DEF GetAccess, Goto
  <2>2. SameAsking
    BY <1>19, <1>c, <1>d, <1>e DEF GetAccess, Answer
  <2> QED
    BY <1>19, <2>1, <2>2, <1>a DEF GetAccess
<1>20. ASSUME NEW w \in Workers, NEW m \in msgs, LeaveWorker(w, m) PROVE QuietForIds
  <2>1. SamePlaces
    BY <1>20, <1>b DEF LeaveWorker, Goto
  <2>2. SameAsking
    BY <1>20, <1>c, <1>d, <1>e DEF LeaveWorker, Answer
  <2> QED
    BY <1>20, <2>1, <2>2, <1>a DEF LeaveWorker
<1>21. ASSUME NEW m \in msgs, UnknownClass(m) PROVE QuietForIds
  <2>1. SamePlaces
    BY <1>21, <1>b DEF UnknownClass, Goto
  <2>2. SameAsking
    BY <1>21, <1>c, <1>d, <1>e DEF UnknownClass, Answer
  <2> QED
    BY <1>21, <2>1, <2>2, <1>a DEF UnknownClass
<1>22. ASSUME NEW p \in Processes, Timeout(p) PROVE QuietForIds
  <2>1. SamePlaces
    BY <1>22, <1>b DEF Timeout, Goto
  <2>2. SameAsking
    BY <1>22, <1>c, <1>d, <1>e DEF Timeout, Answer
  <2> QED
    BY <1>22, <2>1, <2>2, <1>a DEF Timeout
<1>23. ASSUME NEW t \in PoolThreads, AnswerFinish(t) PROVE QuietForIds
  <2>1. SamePlaces
    BY <1>23, <1>b DEF AnswerFinish
  <2>2. SameAsking
    BY <1>23, <1>c, <1>e DEF AnswerFinish
  <2>3. /\ ~Counting(t) /\ thread'[t].at = "idle"
        /\ \A u \in PoolThreads :
              \/ u = t
              \/ thread'[u].at = thread[u].at /\ thread'[u].node = thread[u].node
    BY <1>23, TransitionFacts DEF AnswerFinish, Counting
  <2> QED
    BY <1>23, <2>1, <2>2, <2>3 DEF AnswerFinish, QuietForIds, SamePlaces, SameAsking
<1>24. ASSUME NEW s \in Servers, SendTerminated(s) PROVE QuietForIds
  <2>1. SamePlaces
    BY <1>24, <1>b DEF SendTerminated, Goto
  <2>2. SameAsking
    BY <1>24, <1>c, <1>e DEF SendTerminated
  <2> QED
    BY <1>24, <2>1, <2>2, <1>a DEF SendTerminated
<1> QED
  BY <1>1, <1>2, <1>3, <1>4, <1>5, <1>6, <1>7, <1>8, <1>9, <1>10, <1>11, <1>12, <1>13, <1>14, <1>15, <1>16, <1>17, <1>18, <1>19, <1>20, <1>21, <1>22, <1>23, <1>24,
     NextIsStep DEF Step

LEMMA RegInit == Init => RegInv
<1> SUFFICES ASSUME Init PROVE RegInv
  OBVIOUS
<1>1. /\ Assigned(Servers) = {} /\ Assigned(Workers) = {}
      /\ CountedNodes = {} /\ CountedServers = {}
  BY AllProcesses DEF Init, Assigned, CountedNodes, CountedServers
<1>2. Cardinality({}) = 0
  BY FS_EmptySet
<1>3. Fresh
  BY DEF Init, Fresh
<1>4. ServerIds /\ WorkerIds
  BY <1>1, <1>2 DEF ServerIds, WorkerIds
<1>5. ThreadsInv /\ CountsInv
  BY <1>1, <1>2 DEF Init, ThreadsInv, CountsInv, Counting
<1> QED
  BY <1>3, <1>4, <1>5 DEF RegInv

\* The counts, and who counts, are kept.
LEMMA CountedKept ==
    ASSUME QuietForIds
    PROVE  /\ \A t \in PoolThreads : Counting(t) \/ Counting(t)' =>
                 thread'[t].at = thread[t].at /\ thread'[t].node = thread[t].node
           /\ \A t \in PoolThreads : Counting(t)' <=> Counting(t)
           /\ CountedNodes' = CountedNodes /\ CountedServers' = CountedServers
<1>3. \A t \in PoolThreads : Counting(t) \/ Counting(t)' =>
         thread'[t].at = thread[t].at /\ thread'[t].node = thread[t].node
  BY DEF QuietForIds, Counting
<1>4. \A t \in PoolThreads : Counting(t)' <=> Counting(t)
  BY <1>3 DEF Counting
<1>5. CountedNodes' = CountedNodes /\ CountedServers' = CountedServers
  <2>1. \A t \in PoolThreads, n \in Nodes :
           /\ (thread'[t].node = n => thread'[t].at # "count node")
                 <=> (thread[t].node = n => thread[t].at # "count node")
           /\ (thread'[t].node = n => thread'[t].at \notin {"count node", "count server"})
                 <=> (thread[t].node = n => thread[t].at \notin {"count node", "count server"})
    BY <1>3 DEF Counting
  <2>2. CountedNodes' = CountedNodes
    BY <2>1 DEF QuietForIds, CountedNodes
  <2>3. CountedServers' = CountedServers
    BY <2>1, AllProcesses DEF QuietForIds, CountedServers
  <2> QED
    BY <2>2, <2>3
<1> QED
  BY <1>3, <1>4, <1>5

LEMMA RegQuiet ==
    ASSUME RegInv, QuietForIds
    PROVE  RegInv'
<1>1. Fresh'
  BY DEF QuietForIds, RegInv, Fresh
<1>2. ServerIds' /\ WorkerIds'
  BY DEF QuietForIds, RegInv, ServerIds, WorkerIds, Assigned
<1>3. \A t \in PoolThreads : Counting(t) \/ Counting(t)' =>
         thread'[t].at = thread[t].at /\ thread'[t].node = thread[t].node
  BY CountedKept
<1>4. ThreadsInv'
  <2>1. \A t \in PoolThreads : Counting(t)' <=> Counting(t)
    BY <1>3 DEF Counting
  <2>2. \A t \in PoolThreads : thread'[t].at = "count server" => Counting(t)'
    BY DEF Counting
  <2> QED
    BY <1>3, <2>1, <2>2 DEF QuietForIds, RegInv, ThreadsInv
<1>5. CountedNodes' = CountedNodes /\ CountedServers' = CountedServers
  BY CountedKept
<1>6. CountsInv'
  BY <1>5 DEF QuietForIds, RegInv, CountsInv
<1> QED
  BY <1>1, <1>2, <1>4, <1>6 DEF RegInv

LEMMA RegAsk ==
    ASSUME TypeInv, RegInv, NEW n \in Nodes, RegisterLocalNode(n)
    PROVE  RegInv'
<1>1. pc \in [Processes -> Places] /\ Nodes \subseteq Processes
  BY AllProcesses DEF TypeInv, VarsOK, PlacesOK
<1>2. ids[n] = 0
  BY DEF RegisterLocalNode, RegInv, Fresh
<1>3. UNCHANGED registration
  BY DEF RegisterLocalNode
<1>4. Fresh'
  <2>1. \A k \in Nodes : Request("init_address", k, Master) \in msgs' =>
           k = n \/ Request("init_address", k, Master) \in msgs
    <3>1. \A k \in Nodes : Request("init_address", k, Master).from = k
      BY RequestFields
    <3> QED
      BY <3>1 DEF RegisterLocalNode
  <2>2. \A k \in Nodes : pc'[k] = "start" => k # n /\ pc[k] = "start"
    BY <1>1 DEF RegisterLocalNode, Goto
  <2> QED
    BY <2>1, <2>2, <1>2, <1>3 DEF RegInv, Fresh, registration
<1>5. ServerIds' /\ WorkerIds'
  BY <1>3 DEF registration, RegInv, ServerIds, WorkerIds, Assigned
<1>6. ThreadsInv'
  BY <1>3 DEF registration, RegInv, ThreadsInv, Counting
<1>7. CountedNodes' = CountedNodes /\ CountedServers' = CountedServers
  BY <1>3 DEF registration, CountedNodes, CountedServers
<1>8. CountsInv'
  BY <1>3, <1>7 DEF registration, RegInv, CountsInv
<1> QED
  BY <1>4, <1>5, <1>6, <1>8 DEF RegInv

\* A set of nodes that grows by one.
LEMMA OneMore ==
    ASSUME NEW S \in SUBSET Nodes, NEW n \in Nodes, n \notin S
    PROVE  /\ Cardinality(S \cup {n}) = Cardinality(S) + 1
           /\ Cardinality(S) \in Nat
<1>1. IsFiniteSet(S)
  BY NodesAndMaster, FS_Subset
<1> QED
  BY <1>1, FS_AddElement, FS_CardinalityType

\* The request that a thread takes on, and its node.
LEMMA TakenRequest ==
    ASSUME TypeInv, RegInv, NEW t \in PoolThreads, NEW m \in msgs, AssignId(t, m)
    PROVE  /\ m.from \in Nodes /\ m = Request("init_address", m.from, Master)
           /\ ids[m.from] = 0 /\ pc[m.from] # "start"
           /\ ids' = [ids EXCEPT ![m.from] =
                 IF m.from \in Servers THEN Cardinality(Assigned(Servers)) + 1
                 ELSE IdMax - (Cardinality(Assigned(Workers)) + 1)]
<1>1. /\ m.type = "request" /\ m.class = "init_address" /\ m.to = Master
      /\ MessageOK(m)
  BY DEF AssignId, Arrives, TypeInv
<1>2. m.from \in Nodes /\ m = Request("init_address", m.from, Master)
  BY <1>1 DEF MessageOK, Caller
<1> QED
  BY <1>2 DEF RegInv, Fresh, AssignId

LEMMA RegAssignFresh ==
    ASSUME TypeInv, RegInv, NEW t \in PoolThreads, NEW m \in msgs, AssignId(t, m)
    PROVE  Fresh'
<1>1. ids \in [Nodes -> 0 .. IdMax]
  BY DEF TypeInv, VarsOK, CountersOK
<1>2. msgs' = msgs \ {m} /\ pc' = pc
  BY DEF AssignId
<1>3. \A k \in Nodes : k # m.from => ids'[k] = ids[k]
  BY <1>1, TakenRequest
<1>4. Request("init_address", m.from, Master) \notin msgs' /\ pc'[m.from] # "start"
  BY <1>2, TakenRequest
<1> QED
  BY <1>2, <1>3, <1>4 DEF RegInv, Fresh

LEMMA RegAssignIds ==
    ASSUME TypeInv, RegInv, NEW t \in PoolThreads, NEW m \in msgs, AssignId(t, m)
    PROVE  ServerIds' /\ WorkerIds'
<1> DEFINE n == m.from
<1>1. ids \in [Nodes -> 0 .. IdMax]
  BY DEF TypeInv, VarsOK, CountersOK
<1>2. /\ n \in Nodes /\ ids[n] = 0
      /\ ids' = [ids EXCEPT ![n] =
                    IF n \in Servers THEN Cardinality(Assigned(Servers)) + 1
                    ELSE IdMax - (Cardinality(Assigned(Workers)) + 1)]
  BY TakenRequest
<1>3. /\ Assigned(Servers) \subseteq Servers /\ n \notin Assigned(Servers)
      /\ Assigned(Workers) \subseteq Workers /\ n \notin Assigned(Workers)
  BY <1>2 DEF Assigned
<1>4. /\ Cardinality(Assigned(Servers)) \in Nat /\ Cardinality(Assigned(Workers)) \in Nat
      /\ Cardinality(Assigned(Servers)) + 1 > 0
      /\ IdMax - (Cardinality(Assigned(Workers)) + 1) > 0
      /\ IdMax \in Nat
  <2>1. IdMax \in Nat
    BY ClusterAssumption
  <2>2. \A id \in 1 .. IdMax : id > 0
    BY <2>1
  <2> QED
    BY NextIds, <2>1, <2>2
<1>5. CASE n \in Servers
  <2>1. /\ ids'[n] = Cardinality(Assigned(Servers)) + 1
        /\ \A k \in Nodes : k # n => ids'[k] = ids[k]
    BY <1>1, <1>2, <1>5
  <2>2. Assigned(Servers)' = Assigned(Servers) \cup {n}
    BY <1>4, <1>5, <2>1, AllProcesses DEF Assigned
  <2>3. Assigned(Workers)' = Assigned(Workers)
    BY <1>5, <2>1, AllProcesses DEF Assigned
  <2>4. Cardinality(Assigned(Servers))' = Cardinality(Assigned(Servers)) + 1
    BY <1>2, <1>3, <2>2, OneMore, AllProcesses
  <2>5. \A s \in Assigned(Servers) : s # n /\ ids'[s] = ids[s]
    BY <1>3, <2>1, AllProcesses
  <2>6. \A w \in Assigned(Workers) : ids'[w] = ids[w]
    BY <1>3, <2>1, AllProcesses
  <2>7. WorkerIds'
    BY <2>3, <2>6 DEF RegInv, WorkerIds
  <2>8. \A s \in Assigned(Servers) : ids[s] \in 1 .. Cardinality(Assigned(Servers))
    BY DEF RegInv, ServerIds
  <2>9. ServerIds'
    <3>1. \A k, l \in Assigned(Servers)' : ids'[k] = ids'[l] => k = l
      <4>1. \A s \in Assigned(Servers) : ids'[s] # ids'[n]
        BY <1>4, <2>1, <2>5, <2>8
      <4>2. \A k, l \in Assigned(Servers) : ids[k] = ids[l] => k = l
        BY DEF RegInv, ServerIds
      <4> QED
        BY <2>2, <2>5, <4>1, <4>2
    <3>2. \A s \in Assigned(Servers)' : ids'[s] \in 1 .. Cardinality(Assigned(Servers))'
      BY <1>4, <2>1, <2>2, <2>4, <2>5, <2>8
    <3>3. ASSUME NEW i \in 1 .. Cardinality(Assigned(Servers))'
          PROVE  \E s \in Assigned(Servers)' : ids'[s] = i
      <4>1. CASE i = Cardinality(Assigned(Servers)) + 1
        BY <2>1, <2>2, <4>1
      <4>2. CASE i # Cardinality(Assigned(Servers)) + 1
        <5>1. i \in 1 .. Cardinality(Assigned(Servers))
          BY <1>4, <2>4, <4>2, <3>3
        <5>2. PICK s \in Assigned(Servers) : ids[s] = i
          BY <5>1 DEF RegInv, ServerIds
        <5> QED
          BY <2>2, <2>5, <5>2
      <4> QED
        BY <4>1, <4>2
    <3> QED
      BY <3>1, <3>2, <3>3 DEF ServerIds
  <2> QED
    BY <2>7, <2>9
<1>6. CASE n \notin Servers
  <2>0. n \in Workers
    BY <1>2, <1>6, AllProcesses
  <2>1. /\ ids'[n] = IdMax - (Cardinality(Assigned(Workers)) + 1)
        /\ \A k \in Nodes : k # n => ids'[k] = ids[k]
    BY <1>1, <1>2, <1>6
  <2>2. Assigned(Workers)' = Assigned(Workers) \cup {n}
    BY <1>4, <2>0, <2>1, AllProcesses DEF Assigned
  <2>3. Assigned(Servers)' = Assigned(Servers)
    BY <1>6, <2>1, AllProcesses DEF Assigned
  <2>4. Cardinality(Assigned(Workers))' = Cardinality(Assigned(Workers)) + 1
    BY <1>2, <1>3, <2>2, OneMore, AllProcesses
  <2>5. \A w \in Assigned(Workers) : w # n /\ ids'[w] = ids[w]
    BY <1>3, <2>1, AllProcesses
  <2>6. \A s \in Assigned(Servers) : ids'[s] = ids[s]
    BY <1>3, <2>1, AllProcesses
  <2>7. ServerIds'
    BY <2>3, <2>6 DEF RegInv, ServerIds
  <2>8. \A w \in Assigned(Workers) :
           /\ ids[w] >= IdMax - Cardinality(Assigned(Workers))
           /\ ids[w] < IdMax /\ ids[w] \in Nat
    BY <1>1, <1>3, <1>4, AllProcesses DEF RegInv, WorkerIds
  <2>9. WorkerIds'
    <3>1. \A k, l \in Assigned(Workers)' : ids'[k] = ids'[l] => k = l
      <4>1. \A w \in Assigned(Workers) : ids'[w] # ids'[n]
        BY <1>4, <2>1, <2>5, <2>8
      <4>2. \A k, l \in Assigned(Workers) : ids[k] = ids[l] => k = l
        BY DEF RegInv, WorkerIds
      <4> QED
        BY <2>2, <2>5, <4>1, <4>2
    <3>2. \A w \in Assigned(Workers)' :
             ids'[w] >= IdMax - Cardinality(Assigned(Workers))' /\ ids'[w] < IdMax
      BY <1>4, <2>1, <2>2, <2>4, <2>5, <2>8
    <3> QED
      BY <3>1, <3>2 DEF WorkerIds
  <2> QED
    BY <2>7, <2>9
<1> QED
  BY <1>5, <1>6

\* A thread that goes on with its node, or has done with it.
LEMMA ThreadsGoOn ==
    ASSUME ThreadsInv, UNCHANGED ids, NEW t \in PoolThreads, Counting(t),
           thread'[t].node = thread[t].node \/ thread'[t].at = "idle",
           thread'[t].at = "count server" => thread'[t].node \in Servers,
           \A u \in PoolThreads :
              \/ u = t
              \/ thread'[u].at = thread[u].at /\ thread'[u].node = thread[u].node
    PROVE  ThreadsInv'
<1>1. ASSUME NEW u \in PoolThreads, Counting(u)'
      PROVE  Counting(u) /\ thread'[u].node = thread[u].node
  BY <1>1 DEF Counting
<1>2. ASSUME NEW u \in PoolThreads, Counting(u)'
      PROVE  thread'[u].node \in Nodes /\ ids'[thread'[u].node] # 0
  BY <1>1, <1>2 DEF ThreadsInv
<1>3. ASSUME NEW u \in PoolThreads, thread'[u].at = "count server"
      PROVE  thread'[u].node \in Servers
  BY <1>3 DEF ThreadsInv
<1>4. ASSUME NEW u \in PoolThreads, NEW v \in PoolThreads,
             Counting(u)', Counting(v)',
             thread'[u].node = thread'[v].node
      PROVE  u = v
  BY <1>1, <1>4 DEF ThreadsInv
<1> QED
  BY <1>2, <1>3, <1>4 DEF ThreadsInv

LEMMA RegAssign ==
    ASSUME TypeInv, RegInv, NEW t \in PoolThreads, NEW m \in msgs, AssignId(t, m)
    PROVE  RegInv'
<1> DEFINE n == m.from
<1>1. ids \in [Nodes -> 0 .. IdMax]
  BY DEF TypeInv, VarsOK, CountersOK
<1>2. n \in Nodes /\ ids[n] = 0
  BY TakenRequest
<1>3. /\ thread[t].at = "idle"
      /\ thread'[t].at = "count node" /\ thread'[t].node = n
      /\ \A u \in PoolThreads :
            \/ u = t
            \/ thread'[u].at = thread[u].at /\ thread'[u].node = thread[u].node
  BY TransitionFacts DEF AssignId
<1>4. \A k \in Nodes : k # n => ids'[k] = ids[k]
  BY <1>1, TakenRequest
<1>5. ids'[n] # 0
  <2>1. \A id \in 1 .. IdMax : id # 0
    BY ClusterAssumption
  <2>2. \/ ids'[n] = Cardinality(Assigned(Servers)) + 1
        \/ ids'[n] = IdMax - (Cardinality(Assigned(Workers)) + 1)
    BY <1>1, TakenRequest
  <2> QED
    BY <2>1, <2>2, NextIds
<1>6. \A u \in PoolThreads : Counting(u) => thread[u].node # n
  BY <1>2 DEF RegInv, ThreadsInv
<1>7. ThreadsInv'
  <2>1. ASSUME NEW u \in PoolThreads, u # t, Counting(u)'
        PROVE  /\ Counting(u) /\ thread'[u].node = thread[u].node
               /\ thread[u].node # n
    BY <1>3, <1>6, <2>1 DEF Counting
  <2>2. ASSUME NEW u \in PoolThreads, Counting(u)'
        PROVE  thread'[u].node \in Nodes /\ ids'[thread'[u].node] # 0
    <3>1. CASE u = t
      BY <3>1, <1>2, <1>3, <1>5
    <3>2. CASE u # t
      <4>1. thread[u].node \in Nodes /\ ids[thread[u].node] # 0
        BY <2>1, <2>2, <3>2 DEF RegInv, ThreadsInv
      <4> QED
        BY <4>1, <2>1, <2>2, <3>2, <1>4
    <3> QED
      BY <3>1, <3>2
  <2>3. ASSUME NEW u \in PoolThreads, thread'[u].at = "count server"
        PROVE  thread'[u].node \in Servers
    BY <1>3, <2>3 DEF RegInv, ThreadsInv
  <2>4. ASSUME NEW u \in PoolThreads, NEW v \in PoolThreads,
               Counting(u)', Counting(v)',
               thread'[u].node = thread'[v].node
        PROVE  u = v
    <3>1. CASE u = t \/ v = t
      BY <1>3, <2>1, <2>4, <3>1
    <3>2. CASE u # t /\ v # t
      BY <2>1, <2>4, <3>2 DEF RegInv, ThreadsInv
    <3> QED
      BY <3>1, <3>2
  <2> QED
    BY <2>2, <2>3, <2>4 DEF ThreadsInv
<1>8. CountedNodes' = CountedNodes
  <2>1. n \notin CountedNodes /\ n \notin CountedNodes'
    BY <1>2, <1>3 DEF CountedNodes
  <2>2. \A k \in Nodes : k # n => (k \in CountedNodes' <=> k \in CountedNodes)
    BY <1>3, <1>4 DEF CountedNodes
  <2>3. CountedNodes \subseteq Nodes /\ CountedNodes' \subseteq Nodes
    BY DEF CountedNodes
  <2> QED
    BY <2>1, <2>2, <2>3
<1>9. CountedServers' = CountedServers
  <2>1. n \notin CountedServers /\ n \notin CountedServers'
    BY <1>2, <1>3 DEF CountedServers
  <2>2. \A k \in Servers : k # n => (k \in CountedServers' <=> k \in CountedServers)
    BY <1>3, <1>4, AllProcesses DEF CountedServers
  <2>3. CountedServers \subseteq Servers /\ CountedServers' \subseteq Servers
    BY DEF CountedServers
  <2> QED
    BY <2>1, <2>2, <2>3
<1>10. CountsInv'
  BY <1>8, <1>9 DEF AssignId, RegInv, CountsInv
<1> QED
  BY <1>7, <1>10, RegAssignFresh, RegAssignIds DEF RegInv

\* Counting changes neither the ids nor who asks for one.
LEMMA RegSameIds ==
    ASSUME RegInv, UNCHANGED <<pc, msgs, ids>>
    PROVE  Fresh' /\ ServerIds' /\ WorkerIds'
  BY DEF RegInv, Fresh, ServerIds, WorkerIds, Assigned

LEMMA RegCountNode ==
    ASSUME TypeInv, RegInv, NEW t \in PoolThreads, CountNode(t)
    PROVE  RegInv'
<1> DEFINE n == thread[t].node
<1>1. thread[t].at = "count node" /\ UNCHANGED <<pc, msgs, ids, serverNum, allHere>>
  BY DEF CountNode
<1>2. n \in Nodes /\ ids[n] # 0
  BY <1>1 DEF RegInv, ThreadsInv, Counting
<1>3. /\ thread'[t].at = IF n \in Servers THEN "count server" ELSE "compare"
      /\ thread'[t].node = n
      /\ \A u \in PoolThreads :
            \/ u = t
            \/ thread'[u].at = thread[u].at /\ thread'[u].node = thread[u].node
  BY TransitionFacts DEF CountNode
<1>4. \A u \in PoolThreads : u # t /\ Counting(u) => thread[u].node # n
  BY <1>1 DEF RegInv, ThreadsInv, Counting
<1>5. ThreadsInv'
  BY <1>1, <1>2, <1>3, ThreadsGoOn DEF RegInv, Counting
<1>6. CountedNodes' = CountedNodes \cup {n} /\ n \notin CountedNodes
  <2>1. n \notin CountedNodes
    BY <1>1 DEF CountedNodes
  <2>2. n \in CountedNodes'
    BY <1>1, <1>2, <1>3, <1>4 DEF CountedNodes, Counting
  <2>3. \A k \in Nodes : k # n => (k \in CountedNodes' <=> k \in CountedNodes)
    BY <1>1, <1>3 DEF CountedNodes
  <2>4. CountedNodes \subseteq Nodes /\ CountedNodes' \subseteq Nodes
    BY DEF CountedNodes
  <2> QED
    BY <2>1, <2>2, <2>3, <2>4, <1>2
<1>7. CountedServers' = CountedServers
  <2>1. n \notin CountedServers
    BY <1>1 DEF CountedServers
  <2>2. n \notin CountedServers'
    BY <1>3 DEF CountedServers
  <2>3. \A k \in Servers : k # n => (k \in CountedServers' <=> k \in CountedServers)
    BY <1>1, <1>3 DEF CountedServers
  <2>4. CountedServers \subseteq Servers /\ CountedServers' \subseteq Servers
    BY DEF CountedServers
  <2> QED
    BY <2>1, <2>2, <2>3, <2>4
<1>8. nodeNum' = Cardinality(CountedNodes')
  <2>1. nodeNum' = nodeNum + 1 /\ nodeNum = Cardinality(CountedNodes)
    BY DEF CountNode, RegInv, CountsInv
  <2>2. CountedNodes \in SUBSET Nodes
    BY DEF CountedNodes
  <2>3. Cardinality(CountedNodes \cup {n}) = Cardinality(CountedNodes) + 1
    BY <1>2, <1>6, <2>2, OneMore
  <2> QED
    BY <1>6, <2>1, <2>3
<1>9. ~allHere
  BY <1>2, <1>6 DEF RegInv, CountsInv
<1>10. CountsInv'
  BY <1>1, <1>7, <1>8, <1>9 DEF RegInv, CountsInv
<1> QED
  BY <1>1, <1>5, <1>10, RegSameIds DEF RegInv

LEMMA RegCountServer ==
    ASSUME TypeInv, RegInv, NEW t \in PoolThreads, CountServer(t)
    PROVE  RegInv'
<1> DEFINE n == thread[t].node
<1>1. thread[t].at = "count server" /\ UNCHANGED <<pc, msgs, ids, nodeNum, allHere>>
  BY DEF CountServer
<1>2. n \in Servers /\ n \in Nodes /\ ids[n] # 0
  BY <1>1 DEF RegInv, ThreadsInv, Counting
<1>3. /\ thread'[t].at = "compare" /\ thread'[t].node = n
      /\ \A u \in PoolThreads :
            \/ u = t
            \/ thread'[u].at = thread[u].at /\ thread'[u].node = thread[u].node
  BY TransitionFacts DEF CountServer
<1>4. \A u \in PoolThreads : u # t /\ Counting(u) => thread[u].node # n
  BY <1>1 DEF RegInv, ThreadsInv, Counting
<1>5. ThreadsInv'
  BY <1>1, <1>2, <1>3, ThreadsGoOn DEF RegInv, Counting
<1>6. CountedServers' = CountedServers \cup {n} /\ n \notin CountedServers
  <2>1. n \notin CountedServers
    BY <1>1 DEF CountedServers
  <2>2. n \in CountedServers'
    BY <1>1, <1>2, <1>3, <1>4 DEF CountedServers, Counting
  <2>3. \A k \in Servers : k # n => (k \in CountedServers' <=> k \in CountedServers)
    BY <1>1, <1>3 DEF CountedServers
  <2>4. CountedServers \subseteq Servers /\ CountedServers' \subseteq Servers
    BY DEF CountedServers
  <2> QED
    BY <2>1, <2>2, <2>3, <2>4, <1>2
<1>7. CountedNodes' = CountedNodes
  <2>1. \A k \in Nodes : k \in CountedNodes' <=> k \in CountedNodes
    BY <1>1, <1>3 DEF CountedNodes
  <2>2. CountedNodes \subseteq Nodes /\ CountedNodes' \subseteq Nodes
    BY DEF CountedNodes
  <2> QED
    BY <2>1, <2>2
<1>8. serverNum' = Cardinality(CountedServers')
  <2>1. serverNum' = serverNum + 1 /\ serverNum = Cardinality(CountedServers)
    BY DEF CountServer, RegInv, CountsInv
  <2>2. CountedServers \in SUBSET Nodes
    BY AllProcesses DEF CountedServers
  <2>3. Cardinality(CountedServers \cup {n}) = Cardinality(CountedServers) + 1
    BY <1>2, <1>6, <2>2, OneMore
  <2> QED
    BY <1>6, <2>1, <2>3
<1>9. ~(OneThread /\ allHere)
  BY <1>2, <1>6 DEF RegInv, CountsInv
<1>10. CountsInv'
  BY <1>1, <1>7, <1>8, <1>9 DEF RegInv, CountsInv, OneThread
<1> QED
  BY <1>1, <1>5, <1>10, RegSameIds DEF RegInv

LEMMA RegCompare ==
    ASSUME TypeInv, RegInv, NEW t \in PoolThreads, CompareCount(t)
    PROVE  RegInv'
<1>1. /\ thread[t].at = "compare" /\ UNCHANGED <<pc, msgs, ids, nodeNum, serverNum>>
      /\ allHere' = (allHere \/ nodeNum = Cardinality(Nodes))
  BY DEF CompareCount, ExpectedNodes
<1>2. /\ thread'[t].at = "idle" /\ thread'[t].node = Free
      /\ \A u \in PoolThreads :
            \/ u = t
            \/ thread'[u].at = thread[u].at /\ thread'[u].node = thread[u].node
  BY TransitionFacts DEF CompareCount
<1>3. ThreadsInv'
  BY <1>1, <1>2, ThreadsGoOn DEF RegInv, Counting
<1>4. Free \notin Nodes
  BY ClusterAssumption
<1>5. CountedNodes' = CountedNodes
  <2>1. \A k \in Nodes : k \in CountedNodes' <=> k \in CountedNodes
    BY <1>1, <1>2, <1>4 DEF CountedNodes
  <2>2. CountedNodes \subseteq Nodes /\ CountedNodes' \subseteq Nodes
    BY DEF CountedNodes
  <2> QED
    BY <2>1, <2>2
<1>6. CountedServers' = CountedServers
  <2>1. \A k \in Servers : k \in CountedServers' <=> k \in CountedServers
    BY <1>1, <1>2, <1>4, AllProcesses DEF CountedServers
  <2>2. CountedServers \subseteq Servers /\ CountedServers' \subseteq Servers
    BY DEF CountedServers
  <2> QED
    BY <2>1, <2>2
<1>7. nodeNum = Cardinality(Nodes) => CountedNodes = Nodes
  <2>1. CountedNodes \subseteq Nodes
    BY DEF CountedNodes
  <2> QED
    BY <2>1, NodesAndMaster, FS_Subset DEF RegInv, CountsInv
<1>8. OneThread /\ CountedNodes = Nodes => CountedServers = Servers
  <2>1. OneThread => \A u \in PoolThreads : thread[u].at = "compare"
    BY <1>1 DEF OneThread
  <2> QED
    BY <2>1, AllProcesses DEF CountedNodes, CountedServers
<1>9. allHere' => CountedNodes = Nodes
  BY <1>1, <1>7 DEF RegInv, CountsInv
<1>10. CountsInv'
  BY <1>1, <1>5, <1>6, <1>8, <1>9 DEF RegInv, CountsInv
<1> QED
  BY <1>1, <1>3, <1>10, RegSameIds DEF RegInv

LEMMA RegStep ==
    ASSUME TypeInv, RegInv, [Next]_vars
    PROVE  RegInv'
<1>1. CASE Next
  BY <1>1, RegistrationSteps, RegQuiet, RegAsk, RegAssign, RegCountNode, RegCountServer,
     RegCompare
<1>2. CASE UNCHANGED vars
  BY <1>2, RegQuiet DEF vars, registration, QuietForIds
<1> QED
  BY <1>1, <1>2

LEMMA AlwaysRegistered == Spec => []RegInv
<1>1. Init => RegInv
  BY RegInit
<1>2. TypeInv /\ RegInv /\ [Next]_vars => RegInv'
  BY RegStep
<1> QED
  BY <1>1, <1>2, AlwaysTyped, PTL DEF Spec

\* The ids of the servers are small, those of the workers large.
LEMMA IdRanges ==
    ASSUME TypeInv, RegInv
    PROVE  /\ \A s \in Assigned(Servers) : ids[s] \in 1 .. Cardinality(Servers)
           /\ \A w \in Assigned(Workers) : ids[w] \notin 0 .. Cardinality(Servers)
<1>1. /\ Cardinality(Assigned(Servers)) \in Nat /\ Cardinality(Assigned(Workers)) \in Nat
      /\ Cardinality(Assigned(Servers)) <= Cardinality(Servers)
      /\ Cardinality(Assigned(Workers)) <= Cardinality(Workers)
  BY NextIds
<1>2. IdMax \in Nat /\ IdMax > Cardinality(Servers) + Cardinality(Workers)
  BY ClusterAssumption, NodesAndMaster
<1>3. \A n \in Nodes : ids[n] \in Nat
  BY <1>2 DEF TypeInv, VarsOK, CountersOK
<1>4. Assigned(Servers) \subseteq Nodes /\ Assigned(Workers) \subseteq Nodes
  BY AllProcesses DEF Assigned
<1>5. \A s \in Assigned(Servers) : ids[s] \in 1 .. Cardinality(Assigned(Servers))
  BY DEF RegInv, ServerIds
<1>6. \A w \in Assigned(Workers) : ids[w] >= IdMax - Cardinality(Assigned(Workers))
  BY DEF RegInv, WorkerIds
<1>7. ASSUME NEW s \in Assigned(Servers)
      PROVE  ids[s] \in 1 .. Cardinality(Servers)
  BY <1>1, <1>5, NodesAndMaster
<1>8. ASSUME NEW w \in Assigned(Workers)
      PROVE  ids[w] \notin 0 .. Cardinality(Servers)
  <2>1. ids[w] >= IdMax - Cardinality(Assigned(Workers)) /\ ids[w] \in Nat
    BY <1>3, <1>4, <1>6
  <2> QED
    BY <1>1, <1>2, <2>1, NodesAndMaster
<1> QED
  BY <1>7, <1>8

(***************************************************************************)
(* register_node_ gives every node an id of its own, the servers 1, 2, ... *)
(* in the order they come (ServerWorkerRoute.h), whatever the number of    *)
(* pool threads that run it at the same time.                              *)
(***************************************************************************)
THEOREM NodesAreIdentified == Spec => []IdsIdentify
<1>1. TypeInv /\ RegInv => IdsIdentify
  <2> SUFFICES ASSUME TypeInv, RegInv PROVE IdsIdentify
    OBVIOUS
  <2>1. ASSUME NEW m \in Assigned(Nodes), NEW n \in Assigned(Nodes), ids[m] = ids[n]
        PROVE  m = n
    <3>1. /\ m \in Assigned(Servers) \/ m \in Assigned(Workers)
          /\ n \in Assigned(Servers) \/ n \in Assigned(Workers)
      BY AllProcesses DEF Assigned
    <3>2. CASE m \in Assigned(Servers) /\ n \in Assigned(Servers)
      BY <2>1, <3>2 DEF RegInv, ServerIds
    <3>3. CASE m \in Assigned(Workers) /\ n \in Assigned(Workers)
      BY <2>1, <3>3 DEF RegInv, WorkerIds
    <3>4. \A i \in 1 .. Cardinality(Servers) : i \in 0 .. Cardinality(Servers)
      BY NodesAndMaster
    <3> QED
      BY <2>1, <3>1, <3>2, <3>3, <3>4, IdRanges
  <2>2. {ids[s] : s \in Assigned(Servers)} = 1 .. Cardinality(Assigned(Servers))
    BY DEF RegInv, ServerIds
  <2> QED
    BY <2>1, <2>2 DEF IdsIdentify
<1> QED
  BY <1>1, AlwaysTyped, AlwaysRegistered, PTL

\* What the open barrier promises the master's main thread.
LEMMA AllAreHere ==
    ASSUME TypeInv, RegInv, allHere
    PROVE  /\ Assigned(Nodes) = Nodes /\ Assigned(Servers) = Servers
           /\ Assigned(Workers) = Workers
           /\ nodeNum = Cardinality(Servers) + Cardinality(Workers)
           /\ serverNum \in Nat /\ serverNum <= Cardinality(Servers)
           /\ OneThread => serverNum = Cardinality(Servers)
<1>1. CountedNodes = Nodes /\ nodeNum = Cardinality(CountedNodes)
  BY DEF RegInv, CountsInv
<1>2. \A n \in Nodes : ids[n] # 0
  BY <1>1 DEF CountedNodes
<1>3. CountedServers \subseteq Servers /\ serverNum = Cardinality(CountedServers)
  BY DEF RegInv, CountsInv, CountedServers
<1>4. serverNum \in Nat /\ serverNum <= Cardinality(Servers)
  BY <1>3, NodesAndMaster, FS_Subset, FS_CardinalityType
<1>5. OneThread => serverNum = Cardinality(Servers)
  BY <1>3 DEF RegInv, CountsInv
<1> QED
  BY <1>1, <1>2, <1>4, <1>5, NodesAndMaster, AllProcesses DEF Assigned

-----------------------------------------------------------------------------
(* The phases of the start-up.                                             *)

LEMMA PhaseInit == Init => PhaseInv
<1> SUFFICES ASSUME Init PROVE PhaseInv
  OBVIOUS
<1>1. frags = [p \in Processes |-> 0] /\ pc = [p \in Processes |-> "start"]
  BY DEF Init
<1>2. MasterPhases
  BY <1>1, AllProcesses DEF MasterPhases, Routing
<1>3. NodePhases /\ Loads
  BY <1>1, AllProcesses DEF Init, NodePhases, Loads, Routed
<1> QED
  BY <1>2, <1>3 DEF PhaseInv

\* What most steps leave alone.
SamePhases ==
    /\ pc'[Master] \in {"start", "waiting"} => pc[Master] \in {"start", "waiting"}
    /\ pc'[Master] \in Routing => pc[Master] \in Routing
    /\ pc'[Master] \in Routing \ {"routing"} => pc[Master] \in Routing \ {"routing"}
    /\ pc'[Master] \in {"terminating", "adding finish", "await workers"} =>
          pc[Master] \in {"terminating", "adding finish", "await workers"}
    /\ \A n \in Nodes : Routed(n)' => Routed(n) \/ classes[n] # {}
SameLoads ==
    \A m \in msgs' : \/ m \in msgs
                     \/ m.class \notin {"init_address", "hashfrag"}
                     \/ m.class = "init_address" /\ m.type = "request"
SameClasses ==
    \A n \in Nodes : classes'[n] # {} => classes[n] # {} \/ Routed(n)
QuietForPhases ==
    /\ UNCHANGED <<frags, route, workerTotal, serverTotal>>
    /\ allHere => allHere'
    /\ SamePhases /\ SameLoads /\ SameClasses

LEMMA PhaseSteps ==
    ASSUME TypeInv, Next
    PROVE  \/ QuietForPhases
           \/ InitHashfrag \/ SetWorkerNum \/ SetServerNum
           \/ \E n \in Nodes : SendRoute(n)
           \/ \E m \in msgs : HandleAskHashfrag(m)
           \/ \E n \in Nodes, m \in msgs : AskHashfrag(n, m) \/ GetHashfrag(n, m)
<1>a. UNCHANGED pc => SamePhases
  BY DEF SamePhases, Routed
<1>m. UNCHANGED classes => SameClasses
  BY DEF SameClasses
<1>b. msgs' \subseteq msgs => SameLoads
  BY DEF SameLoads
<1>c. ASSUME NEW p \in Processes, NEW place, pc' = [pc EXCEPT ![p] = place]
      PROVE  /\ pc'[p] = place
             /\ \A q \in Processes : q # p => pc'[q] = pc[q]
  BY <1>c DEF TypeInv, VarsOK, PlacesOK
<1>d. ASSUME NEW n \in Nodes, NEW place, pc' = [pc EXCEPT ![n] = place],
             Routed(n) \/ classes[n] # {} \/ place \in {"start", "registering"} \cup Failed
      PROVE  SamePhases
  BY <1>c, <1>d, AllProcesses DEF SamePhases, Routed
<1>e. ASSUME NEW place, pc' = [pc EXCEPT ![Master] = place],
             \/ place \in Failed
             \/ pc[Master] = "start" /\ place = "waiting"
             \/ /\ pc[Master] \in {"terminating", "adding finish", "await workers"}
                /\ place \in {"adding finish", "await workers", "gone"}
      PROVE  SamePhases
  BY <1>c, <1>e, AllProcesses DEF SamePhases, Routed, Routing, Failed
<1>f. ASSUME NEW p \in Processes, NEW place \in Failed, pc' = [pc EXCEPT ![p] = place]
      PROVE  SamePhases
  BY <1>d, <1>e, <1>f DEF Processes
<1>g. ASSUME NEW x, msgs' \subseteq msgs \cup {x},
             \/ x.class \notin {"init_address", "hashfrag"}
             \/ x.class = "init_address" /\ x.type = "request"
      PROVE  SameLoads
  BY <1>g DEF SameLoads
<1>h. \A class, from, to : Request(class, from, to).class = class
  BY RequestFields
<1>i. \A class, from, to, load : Response(class, from, to, load).class = class
  BY ResponseFields
<1>j. \A class, from, to : Request(class, from, to).type = "request"
  BY RequestFields
<1>k. \A s \in Servers : s \in Nodes
  BY AllProcesses
<1>l. \A w \in Workers : w \in Nodes
  BY AllProcesses
<1>1. ASSUME RegisterMessageClass PROVE QuietForPhases
  <2>1. SamePhases
    BY <1>1, <1>e DEF RegisterMessageClass, Goto
  <2>2. SameLoads
    BY <1>1, <1>b DEF RegisterMessageClass
  <2>3. \A n \in Nodes : classes'[n] = classes[n]
    BY <1>1, AllProcesses DEF RegisterMessageClass, TypeInv, VarsOK, PlacesOK
  <2> QED
    BY <1>1, <2>1, <2>2, <2>3 DEF RegisterMessageClass, registration, terminate,
       QuietForPhases, SameClasses
<1>2. ASSUME LeaveMaster PROVE QuietForPhases
  <2>1. SamePhases
    BY <1>2, <1>e DEF LeaveMaster, Goto, Failed
  <2>2. SameLoads
    BY <1>2, <1>b DEF LeaveMaster
  <2> QED
    BY <1>2, <2>1, <2>2, <1>m DEF LeaveMaster, registration, terminate, QuietForPhases
<1>3. ASSUME NEW s \in Servers, TellServer(s) PROVE QuietForPhases
  <2>1. SamePhases
    BY <1>3, <1>a DEF TellServer
  <2>2. SameLoads
    BY <1>3, <1>g, <1>h DEF TellServer
  <2> QED
    BY <1>3, <2>1, <2>2, <1>m DEF TellServer, registration, terminate, QuietForPhases
<1>4. ASSUME NEW t \in PoolThreads, NEW m \in msgs, AssignId(t, m) PROVE QuietForPhases
  <2>1. SamePhases
    BY <1>4, <1>a DEF AssignId
  <2>2. SameLoads
    BY <1>4, <1>b DEF AssignId
  <2> QED
    BY <1>4, <2>1, <2>2, <1>m DEF AssignId, registration, terminate, QuietForPhases
<1>5. ASSUME NEW t \in PoolThreads, CountNode(t) PROVE QuietForPhases
  <2>1. SamePhases
    BY <1>5, <1>a DEF CountNode
  <2>2. SameLoads
    BY <1>5, <1>b DEF CountNode
  <2> QED
    BY <1>5, <2>1, <2>2, <1>m DEF CountNode, registration, terminate, QuietForPhases
<1>6. ASSUME NEW t \in PoolThreads, CountServer(t) PROVE QuietForPhases
  <2>1. SamePhases
    BY <1>6, <1>a DEF CountServer
  <2>2. SameLoads
    BY <1>6, <1>b DEF CountServer
  <2> QED
    BY <1>6, <2>1, <2>2, <1>m DEF CountServer, registration, terminate, QuietForPhases
<1>7. ASSUME NEW t \in PoolThreads, CompareCount(t) PROVE QuietForPhases
  <2>1. SamePhases
    BY <1>7, <1>a DEF CompareCount
  <2>2. SameLoads
    BY <1>7, <1>b DEF CompareCount
  <2> QED
    BY <1>7, <2>1, <2>2, <1>m DEF CompareCount, registration, terminate, QuietForPhases
<1>8. ASSUME NEW t \in PoolThreads, NEW m \in msgs, HandleFinish(t, m) PROVE QuietForPhases
  <2>1. SamePhases
    BY <1>8, <1>a DEF HandleFinish
  <2>2. SameLoads
    BY <1>8, <1>b DEF HandleFinish
  <2> QED
    BY <1>8, <2>1, <2>2, <1>m DEF HandleFinish, registration, terminate, QuietForPhases
<1>9. ASSUME NEW m \in msgs, GetTerminated(m) PROVE QuietForPhases
  <2>1. SamePhases
    BY <1>9, <1>a DEF GetTerminated
  <2>2. SameLoads
    BY <1>9, <1>b DEF GetTerminated
  <2> QED
    BY <1>9, <2>1, <2>2, <1>m DEF GetTerminated, registration, terminate, QuietForPhases
<1>10. ASSUME NEW n \in Nodes, RegisterLocalNode(n) PROVE QuietForPhases
  <2>1. SamePhases
    BY <1>10, <1>d DEF RegisterLocalNode, Goto, Routed, Failed
  <2>2. SameLoads
    BY <1>10, <1>g, <1>h, <1>j DEF RegisterLocalNode
  <2> QED
    BY <1>10, <2>1, <2>2, <1>m DEF RegisterLocalNode, registration, terminate, QuietForPhases
<1>11. ASSUME NEW p \in Processes, AddsClass(p) PROVE QuietForPhases
  <2>1. SamePhases
    <3>1. CASE p = Master
      BY <1>11, <3>1, <1>e, AddsClassFacts
    <3>2. CASE p \in Servers
      BY <1>11, <3>2, <1>d, <1>k, AddsClassFacts DEF Routed, Failed
    <3> QED
      BY <1>11, <3>1, <3>2, AddsClassFacts
  <2>2. UNCHANGED <<msgs, registration, frags, route, terminate>>
    BY <1>11, AddsClassFacts
  <2>3. SameClasses
    <3>1. CASE p = Master
      <4>1. \A n \in Nodes : classes'[n] = classes[n]
        BY <1>11, <3>1, AddsClassFacts, AllProcesses DEF TypeInv, VarsOK, PlacesOK
      <4> QED
        BY <4>1 DEF SameClasses
    <3>2. CASE p \in Servers
      <4>1. \A n \in Nodes : n # p => classes'[n] = classes[n]
        BY <1>11, <3>2, AddsClassFacts, AllProcesses DEF TypeInv, VarsOK, PlacesOK
      <4>2. Routed(p)
        BY <1>11, <3>2, AddsClassFacts DEF Routed, Failed
      <4> QED
        BY <4>1, <4>2 DEF SameClasses
    <3> QED
      BY <1>11, <3>1, <3>2, AddsClassFacts
  <2> QED
    BY <2>1, <2>2, <2>3, <1>b DEF registration, terminate, QuietForPhases
<1>12. ASSUME NEW s \in Servers, NEW m \in msgs, HandleAccess(s, m) PROVE QuietForPhases
  <2>1. SamePhases
    BY <1>12, <1>a DEF HandleAccess
  <2>2. SameLoads
    BY <1>12, <1>g, <1>i DEF HandleAccess, Answer, Arrives
  <2> QED
    BY <1>12, <2>1, <2>2, <1>m DEF HandleAccess, registration, terminate, QuietForPhases
<1>13. ASSUME NEW s \in Servers, NEW m \in msgs, HandleTerminate(s, m) PROVE QuietForPhases
  <2>0. classes[s] # {}
    BY <1>13 DEF HandleTerminate, Arrives, Known
  <2>1. SamePhases
    BY <1>13, <2>0, <1>d, <1>k DEF HandleTerminate, Goto
  <2>2. SameLoads
    BY <1>13, <1>b DEF HandleTerminate
  <2> QED
    BY <1>13, <2>1, <2>2, <1>m DEF HandleTerminate, registration, terminate, QuietForPhases
<1>14. ASSUME NEW s \in Servers, LeaveServer(s) PROVE QuietForPhases
  <2>1. SamePhases
    BY <1>14, <1>d, <1>k DEF LeaveServer, Goto, Routed, Failed
  <2>2. SameLoads
    BY <1>14, <1>b DEF LeaveServer
  <2> QED
    BY <1>14, <2>1, <2>2, <1>m DEF LeaveServer, registration, terminate, QuietForPhases
<1>15. ASSUME NEW w \in Workers, NEW to \in (SUBSET OwnersFor(w)) \ {{}}, StartRound(w, to) PROVE QuietForPhases
  <2>1. SamePhases
    BY <1>15, <1>a, <1>d, <1>l DEF StartRound, Goto, Failed
  <2>2. SameLoads
    <3>1. PICK class \in {"pull", "push"} :
             class = IF rounds[w] % 2 = 0 THEN "pull" ELSE "push"
      OBVIOUS
    <3>2. \/ UNCHANGED msgs
          \/ msgs' = msgs \cup
                {Request(class, w, s) : s \in {x \in route[w] : ids[x] \in to}}
      BY <1>15, <3>1 DEF StartRound
    <3> QED
      BY <3>1, <3>2, <1>h DEF SameLoads
  <2> QED
    BY <1>15, <2>1, <2>2, <1>m DEF StartRound, registration, terminate, QuietForPhases
<1>16. ASSUME NEW w \in Workers, SendFinish(w) PROVE QuietForPhases
  <2>1. SamePhases
    BY <1>16, <1>d, <1>l DEF SendFinish, Goto, Routed, Failed
  <2>2. SameLoads
    BY <1>16, <1>g, <1>h DEF SendFinish
  <2> QED
    BY <1>16, <2>1, <2>2, <1>m DEF SendFinish, registration, terminate, QuietForPhases
<1>17. ASSUME NEW w \in Workers, NEW m \in msgs, GetAccess(w, m) PROVE QuietForPhases
  <2>1. SamePhases
    BY <1>17, <1>a DEF GetAccess
  <2>2. SameLoads
    BY <1>17, <1>b DEF GetAccess
  <2> QED
    BY <1>17, <2>1, <2>2, <1>m DEF GetAccess, registration, terminate, QuietForPhases
<1>18. ASSUME NEW w \in Workers, NEW m \in msgs, LeaveWorker(w, m) PROVE QuietForPhases
  <2>1. SamePhases
    BY <1>18, <1>d, <1>l DEF LeaveWorker, Goto, Routed, Failed
  <2>2. SameLoads
    BY <1>18, <1>b DEF LeaveWorker
  <2> QED
    BY <1>18, <2>1, <2>2, <1>m DEF LeaveWorker, registration, terminate, QuietForPhases
<1>19. ASSUME NEW m \in msgs, UnknownClass(m) PROVE QuietForPhases
  <2>1. m.to \in Processes
    BY <1>19, AllProcesses DEF UnknownClass, TypeInv, MessageOK, Classes, Callee
  <2>2. SamePhases
    BY <1>19, <2>1, <1>f DEF UnknownClass, Goto, Failed
  <2> QED
    BY <1>19, <2>2, <1>b, <1>m DEF UnknownClass, registration, terminate, QuietForPhases
<1>20. ASSUME NEW p \in Processes, Timeout(p) PROVE QuietForPhases
  <2>1. SamePhases
    BY <1>20, <1>f DEF Timeout, Goto, Failed
  <2> QED
    BY <1>20, <2>1, <1>b, <1>m DEF Timeout, registration, terminate, QuietForPhases
<1>21. ASSUME NEW t \in PoolThreads, AnswerFinish(t) PROVE QuietForPhases
  <2>1. SamePhases
    BY <1>21, <1>a DEF AnswerFinish
  <2>2. SameLoads
    BY <1>21, <1>g, <1>i DEF AnswerFinish
  <2> QED
    BY <1>21, <2>1, <2>2, <1>m DEF AnswerFinish, registration, terminate, QuietForPhases
<1>22. ASSUME NEW s \in Servers, SendTerminated(s) PROVE QuietForPhases
  <2>1. SamePhases
    BY <1>22, <1>d, <1>k DEF SendTerminated, Goto, Routed, Failed
  <2>2. SameLoads
    BY <1>22, <1>g, <1>i DEF SendTerminated
  <2> QED
    BY <1>22, <2>1, <2>2, <1>m DEF SendTerminated, registration, terminate, QuietForPhases
<1> QED
  BY <1>1, <1>2, <1>3, <1>4, <1>5, <1>6, <1>7, <1>8, <1>9, <1>10, <1>11, <1>12, <1>13, <1>14, <1>15, <1>16, <1>17, <1>18, <1>19, <1>20,
     <1>21, <1>22, NextIsStep DEF Step

LEMMA PhaseQuiet ==
    ASSUME TypeInv, TypeInv', RegInv, PhaseInv, QuietForPhases
    PROVE  PhaseInv'
<1>1. MasterPhases'
  BY DEF QuietForPhases, SamePhases, PhaseInv, MasterPhases, OneThread
<1>2. NodePhases'
  <2>1. \A n \in Nodes : Routed(n)' \/ classes'[n] # {} => Routed(n) \/ classes[n] # {}
    BY DEF QuietForPhases, SamePhases, SameClasses
  <2> QED
    BY <2>1 DEF QuietForPhases, PhaseInv, NodePhases
<1>3. Loads'
  BY DEF QuietForPhases, SameLoads, PhaseInv, Loads
<1> QED
  BY <1>1, <1>2, <1>3 DEF PhaseInv

\* The main thread of the master goes from one place to another.
LEMMA MasterGoes ==
    ASSUME TypeInv, NEW place, Goto(Master, place)
    PROVE  /\ pc'[Master] = place
           /\ \A n \in Nodes : pc'[n] = pc[n]
  BY AllProcesses DEF Goto, TypeInv, VarsOK, PlacesOK

LEMMA NodeGoes ==
    ASSUME TypeInv, NEW n \in Nodes, NEW place, Goto(n, place)
    PROVE  /\ pc'[n] = place /\ pc'[Master] = pc[Master]
           /\ \A k \in Nodes : k # n => pc'[k] = pc[k]
  BY AllProcesses DEF Goto, TypeInv, VarsOK, PlacesOK

LEMMA PhaseInitHashfrag ==
    ASSUME TypeInv, RegInv, PhaseInv, InitHashfrag
    PROVE  PhaseInv'
<1>1. /\ pc[Master] = "waiting" /\ allHere /\ frags[Master] = 0
      /\ UNCHANGED <<classes, msgs, registration, route, terminate>>
  BY DEF InitHashfrag, PhaseInv, MasterPhases
<1>2. frags \in [Processes -> Nat]
  BY DEF TypeInv, VarsOK, RoutesOK
<1>3. /\ \A n \in Nodes : route[n] = {} /\ ~Routed(n) /\ classes[n] = {} /\ ~(frags[n] > 0)
      /\ \A m \in msgs : /\ m.class # "hashfrag"
                         /\ ~(m.class = "init_address" /\ m.type = "response")
  BY <1>1 DEF PhaseInv, NodePhases, Loads
<1>4. serverNum <= Cardinality(Servers) /\ (OneThread => serverNum = Cardinality(Servers))
  BY <1>1, AllAreHere
<1>5. CASE serverNum > 0
  <2>1. frags' = [frags EXCEPT ![Master] = serverNum] /\ Goto(Master, "routing")
    BY <1>5 DEF InitHashfrag
  <2>2. /\ frags'[Master] = serverNum
        /\ \A n \in Nodes : frags'[n] = frags[n]
        /\ pc'[Master] = "routing"
        /\ \A n \in Nodes : pc'[n] = pc[n]
    BY <1>2, <2>1, MasterGoes, AllProcesses
  <2>3. MasterPhases'
    BY <1>1, <1>4, <1>5, <2>2 DEF MasterPhases, Routing, registration, OneThread
  <2>4. NodePhases'
    BY <1>1, <1>3, <2>2 DEF NodePhases, Routed
  <2>5. Loads'
    BY <1>1, <1>3 DEF Loads
  <2> QED
    BY <2>3, <2>4, <2>5 DEF PhaseInv
<1>6. CASE ~(serverNum > 0)
  <2>1. /\ UNCHANGED frags /\ pc'[Master] = "failed check"
        /\ \A n \in Nodes : pc'[n] = pc[n]
    BY <1>6, MasterGoes DEF InitHashfrag
  <2>2. MasterPhases'
    <3>0. frags' = frags /\ frags[Master] = 0
      BY <1>1, <2>1
    <3>1. frags'[Master] = 0 /\ ~(frags'[Master] > 0)
      <4>1. frags'[Master] = 0
        BY <3>0
      <4> QED
        BY <4>1
    <3>2. pc'[Master] \notin {"start", "waiting"} \cup Routing
      BY <2>1 DEF Routing
    <3>3. pc'[Master] \notin {"terminating", "adding finish", "await workers"}
      BY <2>1
    <3> QED
      BY <3>1, <3>2, <3>3 DEF MasterPhases
  <2>3. NodePhases'
    BY <1>1, <2>1 DEF PhaseInv, NodePhases, Routed
  <2>4. Loads'
    BY <1>1, <2>1 DEF PhaseInv, Loads
  <2> QED
    BY <2>2, <2>3, <2>4 DEF PhaseInv
<1> QED
  BY <1>5, <1>6

\* The master goes on with what its barrier has promised.
LEMMA PhaseTotals ==
    ASSUME TypeInv, RegInv, PhaseInv, SetWorkerNum \/ SetServerNum
    PROVE  PhaseInv'
<1>1. /\ pc[Master] \in {"routing", "totals"} /\ frags[Master] > 0 /\ allHere
      /\ UNCHANGED <<classes, msgs, registration, frags, route>>
  BY DEF SetWorkerNum, SetServerNum, PhaseInv, MasterPhases, Routing
<1>2. \A n \in Nodes : pc'[n] = pc[n]
  BY MasterGoes DEF SetWorkerNum, SetServerNum
<1>3. NodePhases' /\ Loads'
  BY <1>1, <1>2 DEF PhaseInv, NodePhases, Loads, Routed
<1>4. /\ nodeNum - serverNum >= Cardinality(Workers)
      /\ OneThread => nodeNum - serverNum = Cardinality(Workers)
      /\ OneThread => serverNum = Cardinality(Servers)
  <2>1. nodeNum = Cardinality(Servers) + Cardinality(Workers)
    BY <1>1, AllAreHere
  <2>2. serverNum \in Nat /\ serverNum <= Cardinality(Servers)
    BY <1>1, AllAreHere
  <2>3. OneThread => serverNum = Cardinality(Servers)
    BY <1>1, AllAreHere
  <2>4. Cardinality(Servers) \in Nat /\ Cardinality(Workers) \in Nat
    BY NodesAndMaster
  <2> QED
    BY <2>1, <2>2, <2>3, <2>4
<1>5. \/ pc'[Master] = "failed check"
      \/ pc'[Master] = "totals" /\ workerTotal' = nodeNum - serverNum
      \/ /\ pc[Master] = "totals" /\ pc'[Master] = "terminating"
         /\ serverTotal' = serverNum /\ UNCHANGED workerTotal
  BY MasterGoes DEF SetWorkerNum, SetServerNum
<1>6. frags'[Master] > 0 /\ frags[Master] <= Cardinality(Servers)
  BY <1>1 DEF PhaseInv, MasterPhases
<1>7. MasterPhases'
  <2>1. CASE pc'[Master] = "failed check"
    BY <1>1, <1>6, <2>1 DEF PhaseInv, MasterPhases, Routing, registration, OneThread
  <2>2. CASE pc'[Master] = "totals" /\ workerTotal' = nodeNum - serverNum
    BY <1>1, <1>4, <1>6, <2>2 DEF PhaseInv, MasterPhases, Routing, registration, OneThread
  <2>3. CASE /\ pc[Master] = "totals" /\ pc'[Master] = "terminating"
             /\ serverTotal' = serverNum /\ UNCHANGED workerTotal
    BY <1>1, <1>4, <1>6, <2>3 DEF PhaseInv, MasterPhases, Routing, registration, OneThread
  <2> QED
    BY <1>5, <2>1, <2>2, <2>3
<1> QED
  BY <1>3, <1>7 DEF PhaseInv

LEMMA PhaseSendRoute ==
    ASSUME TypeInv, RegInv, PhaseInv, NEW n \in Nodes, SendRoute(n)
    PROVE  PhaseInv'
<1>1. UNCHANGED <<pc, classes, registration, frags, route, terminate>>
  BY DEF SendRoute
<1>2. frags[Master] > 0 /\ Assigned(Nodes) = Nodes
  BY AllAreHere DEF SendRoute, PhaseInv, MasterPhases, Routing
<1>3. MasterPhases' /\ NodePhases'
  BY <1>1 DEF PhaseInv, MasterPhases, NodePhases, Routed, OneThread, registration, terminate
<1>4. PICK x : x = Response("init_address", Master, n, Nodes)
  OBVIOUS
<1>5. x.class = "init_address" /\ x.type = "response" /\ x.load = Nodes
  BY <1>4, ResponseFields
<1>6. msgs' = msgs \cup {x}
  BY <1>2, <1>4 DEF SendRoute
<1>7. Loads'
  BY <1>1, <1>2, <1>5, <1>6 DEF PhaseInv, Loads
<1> QED
  BY <1>3, <1>7 DEF PhaseInv

LEMMA PhaseHandleAsk ==
    ASSUME TypeInv, RegInv, PhaseInv, NEW m \in msgs, HandleAskHashfrag(m)
    PROVE  PhaseInv'
<1>1. /\ UNCHANGED <<classes, registration, frags, route, terminate>>
      /\ m.class = "hashfrag"
  BY DEF HandleAskHashfrag, Arrives
<1>2. frags[Master] > 0
  BY <1>1 DEF PhaseInv, Loads
<1>3. UNCHANGED pc
  BY <1>2 DEF HandleAskHashfrag
<1>4. MasterPhases' /\ NodePhases'
  BY <1>1, <1>3 DEF PhaseInv, MasterPhases, NodePhases, Routed, OneThread, registration, terminate
<1>5. PICK x : x = Response(m.class, m.to, m.from, {frags[Master]})
  OBVIOUS
<1>6. x.class = "hashfrag" /\ x.type = "response" /\ x.load = {frags[Master]}
  BY <1>1, <1>5, ResponseFields
<1>7. msgs' \subseteq msgs \cup {x}
  BY <1>2, <1>5 DEF HandleAskHashfrag, Answer
<1>8. Loads'
  BY <1>1, <1>2, <1>6, <1>7 DEF PhaseInv, Loads
<1> QED
  BY <1>4, <1>8 DEF PhaseInv

LEMMA PhaseAsk ==
    ASSUME TypeInv, RegInv, PhaseInv, NEW n \in Nodes, NEW m \in msgs, AskHashfrag(n, m)
    PROVE  PhaseInv'
<1>1. /\ UNCHANGED <<classes, registration, frags, terminate>>
      /\ m.class = "init_address" /\ m.type = "response"
  BY DEF AskHashfrag, IsAnswer
<1>2. m.load = Nodes /\ frags[Master] > 0 /\ Nodes # {}
  BY <1>1, ClusterAssumption DEF PhaseInv, Loads, Nodes
<1>3. /\ pc'[Master] = pc[Master]
      /\ \A k \in Nodes : k # n => pc'[k] = pc[k]
  BY NodeGoes DEF AskHashfrag
<1>4. /\ route'[n] = Nodes
      /\ \A k \in Nodes : k # n => route'[k] = route[k]
  BY <1>2 DEF AskHashfrag, TypeInv, VarsOK, RoutesOK
<1>5. MasterPhases'
  BY <1>1, <1>3 DEF PhaseInv, MasterPhases, OneThread, registration, terminate
<1>6. NodePhases'
  BY <1>1, <1>2, <1>3, <1>4 DEF PhaseInv, NodePhases, Routed
<1>7. PICK x : x = Request("hashfrag", n, Master)
  OBVIOUS
<1>8. x.class = "hashfrag" /\ x.type = "request"
  BY <1>7, RequestFields
<1>9. msgs' \subseteq msgs \cup {x}
  BY <1>7 DEF AskHashfrag
<1>10. Loads'
  BY <1>1, <1>2, <1>8, <1>9 DEF PhaseInv, Loads
<1> QED
  BY <1>5, <1>6, <1>10 DEF PhaseInv

LEMMA PhaseGet ==
    ASSUME TypeInv, RegInv, PhaseInv, NEW n \in Nodes, NEW m \in msgs, GetHashfrag(n, m)
    PROVE  PhaseInv'
<1>1. /\ UNCHANGED <<classes, registration, route, terminate>>
      /\ m.class = "hashfrag" /\ m.type = "response" /\ pc[n] = "asking"
      /\ msgs' \subseteq msgs
  BY DEF GetHashfrag, IsAnswer
<1>2. m.load = {frags[Master]} /\ frags[Master] > 0 /\ route[n] # {}
  BY <1>1 DEF PhaseInv, Loads, NodePhases, Routed, Failed
<1>3. /\ pc'[Master] = pc[Master]
      /\ \A k \in Nodes : k # n => pc'[k] = pc[k]
  BY NodeGoes DEF GetHashfrag
<1>4. /\ frags'[n] = frags[Master] /\ frags'[Master] = frags[Master]
      /\ \A k \in Nodes : k # n => frags'[k] = frags[k]
  <2>1. (CHOOSE servers \in {frags[Master]} : TRUE) = frags[Master]
    OBVIOUS
  <2> QED
    BY <1>2, <2>1, AllProcesses DEF GetHashfrag, TypeInv, VarsOK, RoutesOK
<1>5. MasterPhases'
  BY <1>1, <1>3, <1>4 DEF PhaseInv, MasterPhases, OneThread, registration, terminate
<1>6. NodePhases'
  BY <1>1, <1>2, <1>3, <1>4 DEF PhaseInv, NodePhases, Routed
<1>7. Loads'
  BY <1>1, <1>4 DEF PhaseInv, Loads
<1> QED
  BY <1>5, <1>6, <1>7 DEF PhaseInv

LEMMA PhaseStep ==
    ASSUME TypeInv, RegInv, PhaseInv, [Next]_vars
    PROVE  PhaseInv'
<1>1. CASE Next
  <2>1. TypeInv'
    BY <1>1, TypeStep
  <2> QED
    BY <1>1, <2>1, PhaseSteps, PhaseQuiet, PhaseInitHashfrag, PhaseTotals, PhaseSendRoute,
       PhaseHandleAsk, PhaseAsk, PhaseGet
<1>2. CASE UNCHANGED vars
  BY <1>2 DEF vars, terminate, registration, PhaseInv, MasterPhases, NodePhases, Loads,
              Routed, OneThread
<1> QED
  BY <1>1, <1>2

LEMMA AlwaysInPhase == Spec => []PhaseInv
<1>1. Init => PhaseInv
  BY PhaseInit
<1>2. TypeInv /\ RegInv /\ PhaseInv /\ [Next]_vars => PhaseInv'
  BY PhaseStep
<1> QED
  BY <1>1, <1>2, AlwaysTyped, AlwaysRegistered, PTL DEF Spec

\* What has been settled of the start-up stays as it is.
SettledStays ==
    /\ \A n \in Nodes : /\ ids[n] # 0 => ids'[n] = ids[n]
                        /\ route[n] # {} => route'[n] = route[n]
    /\ \A p \in Processes : frags[p] > 0 => frags'[p] = frags[p]

LEMMA SettledStep ==
    ASSUME TypeInv, RegInv, PhaseInv, Next
    PROVE  SettledStays
<1>1. \A n \in Nodes : ids[n] # 0 => ids'[n] = ids[n]
  <2>1. CASE QuietForIds
    BY <2>1 DEF QuietForIds, registration
  <2>2. ASSUME NEW n \in Nodes, RegisterLocalNode(n) PROVE ids' = ids
    BY <2>2 DEF RegisterLocalNode, registration
  <2>3. ASSUME NEW t \in PoolThreads, CountNode(t) \/ CountServer(t) \/ CompareCount(t)
        PROVE  ids' = ids
    BY <2>3 DEF CountNode, CountServer, CompareCount
  <2>4. ASSUME NEW t \in PoolThreads, NEW m \in msgs, AssignId(t, m)
        PROVE  \A n \in Nodes : ids[n] # 0 => ids'[n] = ids[n]
    <3>1. \A n \in Nodes : n # m.from => ids'[n] = ids[n]
      BY <2>4, TakenRequest DEF TypeInv, VarsOK, CountersOK
    <3> QED
      BY <2>4, <3>1, TakenRequest
  <2> QED
    BY <2>1, <2>2, <2>3, <2>4, RegistrationSteps
<1>2. /\ \A n \in Nodes : route[n] # {} => route'[n] = route[n]
      /\ \A p \in Processes : frags[p] > 0 => frags'[p] = frags[p]
  <2>1. CASE QuietForPhases
    BY <2>1 DEF QuietForPhases
  <2>2. CASE InitHashfrag
    <3>1. frags[Master] = 0 /\ route' = route
      BY <2>2 DEF InitHashfrag, PhaseInv, MasterPhases
    <3>2. \A p \in Processes : p # Master => frags'[p] = frags[p]
      BY <2>2 DEF InitHashfrag, TypeInv, VarsOK, RoutesOK
    <3> QED
      BY <3>1, <3>2
  <2>3. ASSUME SetWorkerNum \/ SetServerNum \/ (\E n \in Nodes : SendRoute(n))
                 \/ (\E m \in msgs : HandleAskHashfrag(m))
        PROVE  UNCHANGED <<route, frags>>
    BY <2>3 DEF SetWorkerNum, SetServerNum, SendRoute, HandleAskHashfrag
  <2>4. ASSUME NEW n \in Nodes, NEW m \in msgs, AskHashfrag(n, m)
        PROVE  UNCHANGED frags /\ \A k \in Nodes : route[k] # {} => route'[k] = route[k]
    <3>1. UNCHANGED frags /\ m.class = "init_address" /\ m.type = "response"
      BY <2>4 DEF AskHashfrag, IsAnswer
    <3>2. m.load = Nodes /\ \A k \in Nodes : route[k] # {} => route[k] = Nodes
      BY <3>1 DEF PhaseInv, Loads, NodePhases
    <3>3. route'[n] = m.load /\ \A k \in Nodes : k # n => route'[k] = route[k]
      BY <2>4 DEF AskHashfrag, TypeInv, VarsOK, RoutesOK
    <3> QED
      BY <3>1, <3>2, <3>3
  <2>5. ASSUME NEW n \in Nodes, NEW m \in msgs, GetHashfrag(n, m)
        PROVE  UNCHANGED route /\ \A p \in Processes : frags[p] > 0 => frags'[p] = frags[p]
    <3>1. UNCHANGED route /\ m.class = "hashfrag" /\ m.type = "response"
      BY <2>5 DEF GetHashfrag, IsAnswer
    <3>2. m.load = {frags[Master]} /\ (frags[n] > 0 => frags[n] = frags[Master])
      BY <3>1 DEF PhaseInv, Loads, NodePhases
    <3>3. (CHOOSE servers \in m.load : TRUE) = frags[Master]
      BY <3>2
    <3>4. frags'[n] = frags[Master] /\ \A p \in Processes : p # n => frags'[p] = frags[p]
      BY <2>5, <3>3, AllProcesses DEF GetHashfrag, TypeInv, VarsOK, RoutesOK
    <3> QED
      BY <3>1, <3>2, <3>4
  <2> QED
    BY <2>1, <2>2, <2>3, <2>4, <2>5, PhaseSteps
<1> QED
  BY <1>1, <1>2 DEF SettledStays

(***************************************************************************)
(* A node keeps its id, its route and its hashfrag once it has them, and   *)
(* the master does not divide the keys again (ServerWorkerRoute.h,         *)
(* hashfrag.h, node_init.h): the server of a key is the same for the whole *)
(* job, and training may take it for a constant.                           *)
(***************************************************************************)
THEOREM SettledForGood == Spec => [][SettledStays]_vars
<1>1. TypeInv /\ RegInv /\ PhaseInv /\ [Next]_vars => [SettledStays]_vars
  BY SettledStep
<1> QED
  BY <1>1, AlwaysTyped, AlwaysRegistered, AlwaysInPhase, PTL DEF Spec

\* What a node that has the hashfrag can rely on.
LEMMA TableFits ==
    ASSUME TypeInv, RegInv, PhaseInv, NEW p \in Processes, frags[p] > 0
    PROVE  /\ allHere
           /\ frags[p] = frags[Master] /\ frags[p] \in Nat
           /\ frags[p] <= Cardinality(Servers) /\ frags[p] <= FragNum
           /\ OwnersFor(p) = Owners(FragNum, frags[p])
           /\ OwnersFor(p) \subseteq 1 .. frags[p]
           /\ OneThread => frags[p] = Cardinality(Servers)
           /\ p \in Nodes => route[p] = Nodes
<1>1. \A n \in Nodes : frags[n] > 0 => frags[n] = frags[Master] /\ route[n] = Nodes
  BY DEF PhaseInv, NodePhases
<1>2. frags[p] = frags[Master] /\ (p \in Nodes => route[p] = Nodes)
  BY <1>1, AllProcesses DEF Processes
<1>3. /\ allHere /\ frags[Master] <= Cardinality(Servers)
      /\ OneThread => frags[Master] = Cardinality(Servers)
  BY <1>2 DEF PhaseInv, MasterPhases
<1>4. frags[p] \in Nat
  BY DEF TypeInv, VarsOK, RoutesOK
<1>5. FragNum \in Nat /\ frags[p] <= FragNum
  BY <1>2, <1>3, <1>4, NodesAndMaster, ClusterAssumption
<1>6. Owners(FragNum, frags[p]) \subseteq 1 .. frags[p]
  BY <1>4, <1>5, OwnersAreServers
<1>7. OwnersFor(p) = Owners(FragNum, frags[p])
  BY DEF OwnersFor
<1> QED
  BY <1>2, <1>3, <1>4, <1>5, <1>6, <1>7

\* The ids of the servers, once all nodes have one.
LEMMA ServersNumbered ==
    ASSUME TypeInv, RegInv, allHere
    PROVE  /\ \A i \in 1 .. Cardinality(Servers) : \E s \in Servers : ids[s] = i
           /\ \A n \in Nodes : ids[n] \in 1 .. Cardinality(Servers) => n \in Servers
           /\ {ids[s] : s \in Servers} = 1 .. Cardinality(Servers)
<1>1. Assigned(Servers) = Servers /\ Assigned(Workers) = Workers
  BY AllAreHere
<1>2. /\ \A i \in 1 .. Cardinality(Servers) : \E s \in Servers : ids[s] = i
      /\ \A s \in Servers : ids[s] \in 1 .. Cardinality(Servers)
  BY <1>1 DEF RegInv, ServerIds
<1>3. \A w \in Workers : ids[w] \notin 0 .. Cardinality(Servers)
  BY <1>1, IdRanges
<1>4. \A i \in 1 .. Cardinality(Servers) : i \in 0 .. Cardinality(Servers)
  BY NodesAndMaster
<1> QED
  BY <1>2, <1>3, <1>4, AllProcesses

(***************************************************************************)
(* No node is told the route before everyone is in it, and every id its    *)
(* hashfrag can return is the id of a server in its own route              *)
(* (system/master/init.h, node_init.h, hashfrag.h): also when the servers  *)
(* are counted late and the master divides the keys among too few.         *)
(***************************************************************************)
THEOREM NodesReachOwners == Spec => []NodesCanReachOwners
<1>1. TypeInv /\ RegInv /\ PhaseInv => NodesCanReachOwners
  <2> SUFFICES ASSUME TypeInv, RegInv, PhaseInv, NEW n \in Nodes
               PROVE  /\ pc[n] \in {"asking", "inited"} => route[n] = Nodes
                      /\ \A id \in OwnersFor(n) : \E s \in Servers \cap route[n] : ids[s] = id
    BY DEF NodesCanReachOwners
  <2>1. pc[n] \in {"asking", "inited"} => route[n] = Nodes
    BY DEF PhaseInv, NodePhases, Routed, Failed
  <2>2. ASSUME NEW id \in OwnersFor(n)
        PROVE  \E s \in Servers \cap route[n] : ids[s] = id
    <3>1. frags[n] > 0
      BY <2>2 DEF OwnersFor
    <3>2. /\ allHere /\ route[n] = Nodes /\ id \in 1 .. frags[n]
          /\ frags[n] \in Nat /\ frags[n] <= Cardinality(Servers)
      BY <2>2, <3>1, TableFits, AllProcesses
    <3>3. id \in 1 .. Cardinality(Servers)
      BY <3>2, NodesAndMaster
    <3> QED
      BY <3>2, <3>3, ServersNumbered, AllProcesses
  <2> QED
    BY <2>1, <2>2
<1> QED
  BY <1>1, AlwaysTyped, AlwaysRegistered, AlwaysInPhase, PTL

(***************************************************************************)
(* With a pool of one thread the servers have all been counted when the    *)
(* master builds the table, so that every process that has it spreads the  *)
(* keys over all the servers (master/init.h:146-153, hashfrag.h:20-47).    *)
(***************************************************************************)
THEOREM AllServersHaveKeys ==
    ASSUME OneThread
    PROVE  Spec => []EveryServerHasKeys
<1>1. TypeInv /\ RegInv /\ PhaseInv => EveryServerHasKeys
  <2> SUFFICES ASSUME TypeInv, RegInv, PhaseInv, NEW p \in Processes, frags[p] > 0
               PROVE  OwnersFor(p) = {ids[s] : s \in Servers}
    BY DEF EveryServerHasKeys
  <2>1. /\ allHere /\ frags[p] = Cardinality(Servers) /\ frags[p] \in Nat
        /\ frags[p] <= FragNum /\ OwnersFor(p) \subseteq 1 .. frags[p]
        /\ OwnersFor(p) = Owners(FragNum, frags[p])
    BY OneThread, TableFits
  <2>2. 1 .. frags[p] \subseteq Owners(FragNum, frags[p])
    BY <2>1, EveryServerOwns, ClusterAssumption
  <2> QED
    BY <2>1, <2>2, ServersNumbered
<1> QED
  BY <1>1, AlwaysTyped, AlwaysRegistered, AlwaysInPhase, PTL

\* A worker's round goes to servers it knows.
LEMMA RoundTargets ==
    ASSUME TypeInv, RegInv, PhaseInv, NEW w \in Workers,
           NEW to \in (SUBSET OwnersFor(w)) \ {{}}
    PROVE  /\ to \subseteq KnownIds(w)
           /\ {s \in route[w] : ids[s] \in to} \subseteq Servers
<1>0. OwnersFor(w) # {}
  OBVIOUS
<1>1. frags[w] > 0 /\ w \in Nodes /\ w \in Processes
  BY <1>0, AllProcesses DEF OwnersFor
<1>2. /\ allHere /\ route[w] = Nodes /\ to \subseteq 1 .. frags[w]
      /\ frags[w] \in Nat /\ frags[w] <= Cardinality(Servers)
  BY <1>1, TableFits
<1>3. to \subseteq 1 .. Cardinality(Servers)
  BY <1>2, NodesAndMaster
<1> QED
  BY <1>2, <1>3, ServersNumbered, AllProcesses DEF KnownIds

-----------------------------------------------------------------------------
(* Training.                                                               *)

LEMMA TrainInit == Init => TrainInv
<1> SUFFICES ASSUME Init PROVE TrainInv
  OBVIOUS
<1>1. msgs = {} /\ waiting = [w \in Workers |-> {}] /\ told = {} /\ finished = 0
  BY DEF Init
<1>2. \A p \in Processes : pc[p] = "start"
  BY DEF Init
<1>3. \A t \in PoolThreads : thread[t].at = "idle"
  BY DEF Init
<1>4. Handled = {} /\ Cardinality({}) = 0
  BY <1>1, <1>2, <1>3, AllProcesses, FS_EmptySet DEF Handled, Answering
<1>5. AccessInv
  BY <1>1 DEF AccessInv
<1>6. FinishInv
  BY <1>1, <1>2, AllProcesses DEF FinishInv
<1>7. HandledInv
  BY <1>1, <1>2, <1>4, AllProcesses DEF HandledInv
<1>8. AnsweringInv
  BY <1>3 DEF AnsweringInv
<1> QED
  BY <1>5, <1>6, <1>7, <1>8 DEF TrainInv

\* Where requests go.
LEMMA RequestsGoTo ==
    ASSUME TypeInv, AccessInv, NEW m \in msgs, m.type = "request"
    PROVE  m.to \in Servers \/ m.to = Master
<1>1. MessageOK(m) /\ m.to = Callee(m)
  BY DEF TypeInv, Callee
<1>2. CASE IsAccess(m)
  BY <1>1, <1>2 DEF AccessInv, MessageOK, IsAccess
<1>3. CASE ~IsAccess(m)
  BY <1>1, <1>3 DEF MessageOK, Classes, IsAccess
<1> QED
  BY <1>2, <1>3

\* What most steps leave alone.
SameEnds ==
    /\ \A w \in Workers : /\ pc'[w] = "finishing" <=> pc[w] = "finishing"
                          /\ pc'[w] = "gone" <=> pc[w] = "gone"
    /\ pc'[Master] = "gone" => pc[Master] = "gone"
OfTraining(m) == m.class \in {"pull", "push", "finish"}
SameTraining == \A m : OfTraining(m) => (m \in msgs' <=> m \in msgs)
SameAnswers ==
    \A t \in PoolThreads :
       \/ thread'[t].at = thread[t].at /\ thread'[t].node = thread[t].node
       \/ thread[t].at # "answer" /\ thread'[t].at # "answer"
QuietForTraining ==
    UNCHANGED <<waiting, finished, told>> /\ SameEnds /\ SameTraining /\ SameAnswers

LEMMA TrainSteps ==
    ASSUME TypeInv, AccessInv, Next
    PROVE  \/ QuietForTraining
           \/ LeaveMaster
           \/ \E s \in Servers : TellServer(s)
           \/ \E t \in PoolThreads : AnswerFinish(t) \/ \E m \in msgs : HandleFinish(t, m)
           \/ \E s \in Servers, m \in msgs : HandleAccess(s, m)
           \/ \E w \in Workers : SendFinish(w)
           \/ \E w \in Workers : \E to \in (SUBSET OwnersFor(w)) \ {{}} : StartRound(w, to)
           \/ \E w \in Workers, m \in msgs : GetAccess(w, m) \/ LeaveWorker(w, m)
<1>a. UNCHANGED pc => SameEnds
  BY DEF SameEnds
<1>b. UNCHANGED msgs => SameTraining
  BY DEF SameTraining
<1>c. ASSUME NEW p \in Processes, NEW place, pc' = [pc EXCEPT ![p] = place]
      PROVE  /\ pc'[p] = place
             /\ \A q \in Processes : q # p => pc'[q] = pc[q]
  BY <1>c DEF TypeInv, VarsOK, PlacesOK
<1>d. ASSUME NEW n \in Nodes, NEW place, pc' = [pc EXCEPT ![n] = place],
             n \in Servers \/ (pc[n] \notin {"finishing", "gone"}
                                /\ place \notin {"finishing", "gone"})
      PROVE  SameEnds
  BY <1>c, <1>d, AllProcesses DEF SameEnds
<1>e. ASSUME NEW place, pc' = [pc EXCEPT ![Master] = place], place # "gone"
      PROVE  SameEnds
  BY <1>c, <1>e, AllProcesses DEF SameEnds
<1>f. ASSUME NEW p \in Processes, NEW place, pc' = [pc EXCEPT ![p] = place],
             pc[p] \notin {"finishing", "gone"} \/ p \in Servers \/ p = Master,
             place \notin {"finishing", "gone"}
      PROVE  SameEnds
  BY <1>d, <1>e, <1>f DEF Processes
<1>g. ASSUME NEW x, NEW y, ~OfTraining(x), ~OfTraining(y),
             \/ msgs' = msgs \cup {x} \/ msgs' = msgs \ {x}
             \/ msgs' = (msgs \ {x}) \cup {y}
      PROVE  SameTraining
  BY <1>g DEF SameTraining
<1>h. \A class, from, to : class \notin {"pull", "push", "finish"} =>
                              ~OfTraining(Request(class, from, to))
  BY RequestFields DEF OfTraining
<1>i. \A class, from, to, load : class \notin {"pull", "push", "finish"} =>
                                    ~OfTraining(Response(class, from, to, load))
  BY ResponseFields DEF OfTraining
<1>l. UNCHANGED registration => SameAnswers
  BY DEF registration, SameAnswers
<1>m. ASSUME NEW t \in PoolThreads, NEW at, NEW node, Transition(t, at, node),
             thread[t].at # "answer", at # "answer"
      PROVE  SameAnswers
  BY <1>m, TransitionFacts DEF SameAnswers
<1>k. \A s \in Servers : s \in Nodes
  BY AllProcesses
<1>1. ASSUME RegisterMessageClass PROVE QuietForTraining
  <2>1. SameEnds
    BY <1>1, <1>e DEF RegisterMessageClass, Goto
  <2>2. SameTraining
    BY <1>1, <1>b DEF RegisterMessageClass
  <2> QED
    BY <1>1, <2>1, <2>2, <1>l DEF RegisterMessageClass, training, terminate, QuietForTraining
<1>2. ASSUME InitHashfrag PROVE QuietForTraining
  <2>1. SameEnds
    BY <1>2, <1>e DEF InitHashfrag, Goto
  <2>2. SameTraining
    BY <1>2, <1>b DEF InitHashfrag
  <2> QED
    BY <1>2, <2>1, <2>2, <1>l DEF InitHashfrag, training, terminate, QuietForTraining
<1>3. ASSUME SetWorkerNum PROVE QuietForTraining
  <2>1. SameEnds
    BY <1>3, <1>e DEF SetWorkerNum, Goto
  <2>2. SameTraining
    BY <1>3, <1>b DEF SetWorkerNum
  <2> QED
    BY <1>3, <2>1, <2>2, <1>l DEF SetWorkerNum, training, terminate, QuietForTraining
<1>4. ASSUME SetServerNum PROVE QuietForTraining
  <2>1. SameEnds
    BY <1>4, <1>e DEF SetServerNum, Goto
  <2>2. SameTraining
    BY <1>4, <1>b DEF SetServerNum
  <2> QED
    BY <1>4, <2>1, <2>2, <1>l DEF SetServerNum, training, terminate, QuietForTraining
<1>5. ASSUME NEW n \in Nodes, SendRoute(n) PROVE QuietForTraining
  <2>1. SameEnds
    BY <1>5, <1>a DEF SendRoute
  <2>2. SameTraining
    BY <1>5, <1>g, <1>i DEF SendRoute
  <2> QED
    BY <1>5, <2>1, <2>2, <1>l DEF SendRoute, training, terminate, QuietForTraining
<1>6. ASSUME NEW t \in PoolThreads, NEW m \in msgs, AssignId(t, m) PROVE QuietForTraining
  <2>1. SameEnds
    BY <1>6, <1>a DEF AssignId
  <2>2. SameTraining
    <3>1. ~OfTraining(m)
      BY <1>6 DEF AssignId, Arrives, OfTraining
    <3> QED
      BY <1>6, <3>1, <1>g DEF AssignId
  <2>3. SameAnswers
    BY <1>6, <1>m DEF AssignId
  <2> QED
    BY <1>6, <2>1, <2>2, <2>3 DEF AssignId, training, terminate, QuietForTraining
<1>7. ASSUME NEW t \in PoolThreads, CountNode(t) PROVE QuietForTraining
  <2>1. SameEnds
    BY <1>7, <1>a DEF CountNode
  <2>2. SameTraining
    BY <1>7, <1>b DEF CountNode
  <2>3. SameAnswers
    BY <1>7, <1>m DEF CountNode
  <2> QED
    BY <1>7, <2>1, <2>2, <2>3 DEF CountNode, training, terminate, QuietForTraining
<1>8. ASSUME NEW t \in PoolThreads, CountServer(t) PROVE QuietForTraining
  <2>1. SameEnds
    BY <1>8, <1>a DEF CountServer
  <2>2. SameTraining
    BY <1>8, <1>b DEF CountServer
  <2>3. SameAnswers
    BY <1>8, <1>m DEF CountServer
  <2> QED
    BY <1>8, <2>1, <2>2, <2>3 DEF CountServer, training, terminate, QuietForTraining
<1>9. ASSUME NEW t \in PoolThreads, CompareCount(t) PROVE QuietForTraining
  <2>1. SameEnds
    BY <1>9, <1>a DEF CompareCount
  <2>2. SameTraining
    BY <1>9, <1>b DEF CompareCount
  <2>3. SameAnswers
    BY <1>9, <1>m DEF CompareCount
  <2> QED
    BY <1>9, <2>1, <2>2, <2>3 DEF CompareCount, training, terminate, QuietForTraining
<1>10. ASSUME NEW m \in msgs, HandleAskHashfrag(m) PROVE QuietForTraining
  <2>1. SameEnds
    BY <1>10, <1>a, <1>e DEF HandleAskHashfrag, Goto
  <2>2. SameTraining
    <3>1. ~OfTraining(m)
      BY <1>10 DEF HandleAskHashfrag, Arrives, OfTraining
    <3>2. ~OfTraining(Response(m.class, m.to, m.from, {frags[Master]}))
      BY <1>10, <1>i DEF HandleAskHashfrag, Arrives
    <3> QED
      BY <1>10, <3>1, <3>2, <1>b, <1>g DEF HandleAskHashfrag, Answer
  <2> QED
    BY <1>10, <2>1, <2>2, <1>l DEF HandleAskHashfrag, training, terminate, QuietForTraining
<1>11. ASSUME NEW m \in msgs, GetTerminated(m) PROVE QuietForTraining
  <2>1. SameEnds
    BY <1>11, <1>a DEF GetTerminated
  <2>2. SameTraining
    <3>1. ~OfTraining(m)
      BY <1>11 DEF GetTerminated, IsAnswer, OfTraining
    <3> QED
      BY <1>11, <3>1, <1>g DEF GetTerminated
  <2> QED
    BY <1>11, <2>1, <2>2, <1>l DEF GetTerminated, training, terminate, QuietForTraining
<1>12. ASSUME NEW n \in Nodes, RegisterLocalNode(n) PROVE QuietForTraining
  <2>1. SameEnds
    BY <1>12, <1>d DEF RegisterLocalNode, Goto
  <2>2. SameTraining
    BY <1>12, <1>g, <1>h DEF RegisterLocalNode
  <2> QED
    BY <1>12, <2>1, <2>2, <1>l DEF RegisterLocalNode, training, terminate, QuietForTraining
<1>13. ASSUME NEW n \in Nodes, NEW m \in msgs, AskHashfrag(n, m) PROVE QuietForTraining
  <2>1. SameEnds
    BY <1>13, <1>d DEF AskHashfrag, Goto
  <2>2. SameTraining
    <3>1. ~OfTraining(m) /\ ~OfTraining(Request("hashfrag", n, Master))
      BY <1>13, <1>h DEF AskHashfrag, IsAnswer, OfTraining
    <3> QED
      BY <1>13, <3>1, <1>g DEF AskHashfrag
  <2> QED
    BY <1>13, <2>1, <2>2, <1>l DEF AskHashfrag, training, terminate, QuietForTraining
<1>14. ASSUME NEW n \in Nodes, NEW m \in msgs, GetHashfrag(n, m) PROVE QuietForTraining
  <2>1. SameEnds
    BY <1>14, <1>d DEF GetHashfrag, Goto
  <2>2. SameTraining
    <3>1. ~OfTraining(m)
      BY <1>14 DEF GetHashfrag, IsAnswer, OfTraining
    <3> QED
      BY <1>14, <3>1, <1>g DEF GetHashfrag
  <2> QED
    BY <1>14, <2>1, <2>2, <1>l DEF GetHashfrag, training, terminate, QuietForTraining
<1>15. ASSUME NEW p \in Processes, AddsClass(p) PROVE QuietForTraining
  <2>1. SameEnds
    <3>1. CASE p = Master
      BY <1>15, <3>1, <1>e, AddsClassFacts
    <3>2. CASE p \in Servers
      BY <1>15, <3>2, <1>d, <1>k, AddsClassFacts
    <3> QED
      BY <1>15, <3>1, <3>2, AddsClassFacts
  <2>2. UNCHANGED <<msgs, registration, terminate, training>>
    BY <1>15, AddsClassFacts
  <2> QED
    BY <2>1, <2>2, <1>b, <1>l DEF terminate, training, QuietForTraining
<1>16. ASSUME NEW s \in Servers, NEW m \in msgs, HandleTerminate(s, m) PROVE QuietForTraining
  <2>1. SameEnds
    BY <1>16, <1>d, <1>k DEF HandleTerminate, Goto
  <2>2. SameTraining
    <3>1. ~OfTraining(m)
      BY <1>16 DEF HandleTerminate, Arrives, OfTraining
    <3> QED
      BY <1>16, <3>1, <1>g DEF HandleTerminate
  <2> QED
    BY <1>16, <2>1, <2>2, <1>l DEF HandleTerminate, training, terminate, QuietForTraining
<1>17. ASSUME NEW s \in Servers, LeaveServer(s) PROVE QuietForTraining
  <2>1. SameEnds
    BY <1>17, <1>d, <1>k DEF LeaveServer, Goto
  <2>2. SameTraining
    BY <1>17, <1>b DEF LeaveServer
  <2> QED
    BY <1>17, <2>1, <2>2, <1>l DEF LeaveServer, training, terminate, QuietForTraining
<1>18. ASSUME NEW m \in msgs, UnknownClass(m) PROVE QuietForTraining
  <2>1. m.to \in Processes /\ (m.to \in Servers \/ m.to = Master)
    BY <1>18, RequestsGoTo, AllProcesses DEF UnknownClass
  <2>2. SameEnds
    <3>1. pc' = [pc EXCEPT ![m.to] = "unknown class"]
      BY <1>18 DEF UnknownClass, Goto
    <3>2. CASE m.to \in Servers
      BY <3>1, <3>2, <1>d, <1>k
    <3>3. CASE m.to = Master
      BY <3>1, <3>3, <1>e
    <3> QED
      BY <2>1, <3>2, <3>3
  <2> QED
    BY <1>18, <2>2, <1>b, <1>l DEF UnknownClass, training, terminate, QuietForTraining
<1>19. ASSUME NEW p \in Processes, Timeout(p) PROVE QuietForTraining
  <2>1. SameEnds
    BY <1>19, <1>f DEF Timeout, Goto
  <2>2. SameTraining
    BY <1>19, <1>b DEF Timeout
  <2> QED
    BY <1>19, <2>1, <2>2, <1>l DEF Timeout, training, terminate, QuietForTraining
<1>20. ASSUME NEW s \in Servers, SendTerminated(s) PROVE QuietForTraining
  <2>1. SameEnds
    BY <1>20, <1>d, <1>k DEF SendTerminated, Goto
  <2>2. SameTraining
    BY <1>20, <1>g, <1>i DEF SendTerminated
  <2> QED
    BY <1>20, <2>1, <2>2, <1>l DEF SendTerminated, training, terminate, QuietForTraining
<1> QED
  BY <1>1, <1>2, <1>3, <1>4, <1>5, <1>6, <1>7, <1>8, <1>9, <1>10, <1>11, <1>12, <1>13, <1>14, <1>15, <1>16, <1>17, <1>18, <1>19, <1>20,
     NextIsStep DEF Step

\* The workers whose finish message has been handled are the same if no
\* worker leaves, and the threads that answer and the finish messages stay.
LEMMA HandledKept ==
    ASSUME \A w \in Workers : pc'[w] = "gone" <=> pc[w] = "gone", SameAnswers,
           \A m : m.class = "finish" => (m \in msgs' <=> m \in msgs)
    PROVE  Handled' = Handled
<1>1. \A w \in Workers : Answering(w)' <=> Answering(w)
  BY DEF SameAnswers, Answering
<1>2. \A w \in Workers : w \in Handled' <=> w \in Handled
  BY <1>1 DEF Handled
<1> QED
  BY <1>2 DEF Handled

\* The answering threads are not disturbed.
LEMMA AnsweringStays ==
    ASSUME TypeInv, AnsweringInv, SameAnswers,
           \A w \in Workers : Answering(w) => pc'[w] = "finishing",
           \A m \in msgs' : m.class = "finish" => m \in msgs \/ ~Answering(Caller(m))
    PROVE  AnsweringInv'
<1>1. ASSUME NEW t \in PoolThreads, thread'[t].at = "answer"
      PROVE  /\ thread[t].at = "answer" /\ thread'[t].node = thread[t].node
             /\ thread[t].node \in Workers /\ Answering(thread[t].node)
  <2>1. thread[t].at = "answer" /\ thread'[t].node = thread[t].node
    BY <1>1 DEF SameAnswers
  <2> QED
    BY <2>1 DEF TypeInv, VarsOK, CountersOK, Answering
<1>2. ASSUME NEW t \in PoolThreads, thread'[t].at = "answer"
      PROVE  /\ pc'[thread'[t].node] = "finishing"
             /\ \A m \in msgs' : m.class = "finish" => Caller(m) # thread'[t].node
  BY <1>1, <1>2 DEF AnsweringInv
<1>3. ASSUME NEW t \in PoolThreads, NEW u \in PoolThreads,
             thread'[t].at = "answer", thread'[u].at = "answer",
             thread'[t].node = thread'[u].node
      PROVE  t = u
  BY <1>1, <1>3 DEF AnsweringInv
<1> QED
  BY <1>2, <1>3 DEF AnsweringInv

\* A worker that is answered waits for it.
LEMMA AnsweredWaits ==
    ASSUME TypeInv, AnsweringInv, NEW w, Answering(w)
    PROVE  /\ w \in Workers /\ pc[w] = "finishing"
           /\ \A m \in msgs : m.class = "finish" => Caller(m) # w
<1>1. PICK t \in PoolThreads : thread[t].at = "answer" /\ thread[t].node = w
  BY DEF Answering
<1>2. w \in Workers
  BY <1>1 DEF TypeInv, VarsOK, CountersOK
<1> QED
  BY <1>1, <1>2 DEF AnsweringInv

LEMMA TrainQuiet ==
    ASSUME TypeInv, TrainInv, QuietForTraining
    PROVE  TrainInv'
<1>1. /\ UNCHANGED <<waiting, finished, told>>
      /\ \A w \in Workers : pc'[w] \in {"finishing", "gone"} => pc[w] \in {"finishing", "gone"}
      /\ \A w \in Workers : pc[w] = "finishing" => pc'[w] = "finishing"
      /\ pc'[Master] = "gone" => pc[Master] = "gone"
  BY DEF QuietForTraining, SameEnds
<1>2. \A m \in msgs' : OfTraining(m) => m \in msgs
  BY DEF QuietForTraining, SameTraining
<1>3. AccessInv'
  BY <1>1, <1>2 DEF TrainInv, AccessInv, IsAccess, OfTraining
<1>4. Handled' = Handled
  BY HandledKept DEF QuietForTraining, SameEnds, SameTraining, OfTraining
<1>5. HandledInv'
  BY <1>1, <1>4 DEF TrainInv, HandledInv
<1>6. FinishInv'
  <2>1. \A m \in msgs : m.class = "finish" => Caller(m) \in Workers
    BY DEF TypeInv, MessageOK
  <2> QED
    BY <1>1, <1>2, <2>1 DEF TrainInv, FinishInv, OfTraining
<1>7. AnsweringInv'
  BY <1>1, <1>2, AnsweringStays, AnsweredWaits DEF TrainInv, QuietForTraining, OfTraining
<1> QED
  BY <1>3, <1>5, <1>6, <1>7 DEF TrainInv

\* A worker goes from one place to another.
LEMMA WorkerGoes ==
    ASSUME TypeInv, NEW w \in Workers, NEW place, Goto(w, place)
    PROVE  /\ pc'[w] = place /\ pc'[Master] = pc[Master]
           /\ \A k \in Workers : k # w => pc'[k] = pc[k]
  BY AllProcesses, NodeGoes

LEMMA Squeezed ==
    ASSUME NEW a \in Nat, NEW b \in Nat, NEW c \in Nat, a >= b, b >= c, a <= c
    PROVE  a = c
  OBVIOUS

\* When the master goes on from its last but one barrier.
LEMMA EveryoneHandled ==
    ASSUME TypeInv, PhaseInv, HandledInv, pc[Master] = "await workers",
           finished >= workerTotal
    PROVE  Handled = Workers
<1>1. workerTotal >= Cardinality(Workers)
  BY DEF PhaseInv, MasterPhases, Routing
<1>2. Handled \subseteq Workers /\ finished = Cardinality(Handled)
  BY DEF HandledInv, Handled
<1>3. /\ Cardinality(Handled) \in Nat /\ Cardinality(Handled) <= Cardinality(Workers)
      /\ Cardinality(Handled) = Cardinality(Workers) => Handled = Workers
  BY <1>2, NodesAndMaster, FS_Subset, FS_CardinalityType
<1>4. workerTotal \in Nat
  BY DEF TypeInv, VarsOK, TotalsOK
<1>5. Cardinality(Workers) \in Nat
  BY NodesAndMaster
<1>6. Cardinality(Handled) >= workerTotal
  BY <1>2
<1>7. Cardinality(Handled) = Cardinality(Workers)
  BY <1>1, <1>3, <1>4, <1>5, <1>6, Squeezed
<1> QED
  BY <1>3, <1>7

LEMMA TrainTell ==
    ASSUME TypeInv, PhaseInv, TrainInv, NEW s \in Servers, TellServer(s)
    PROVE  TrainInv'
<1>1. /\ UNCHANGED <<pc, waiting, finished>> /\ Handled = Workers
  BY EveryoneHandled DEF TellServer, TrainInv, training
<1>2. PICK x : x = Request("terminate", Master, s)
  OBVIOUS
<1>3. x.class = "terminate"
  BY <1>2, RequestFields
<1>4. msgs' = msgs \cup {x}
  BY <1>2 DEF TellServer
<1>5. AccessInv'
  BY <1>1, <1>3, <1>4 DEF TrainInv, AccessInv, IsAccess
<1>6. FinishInv'
  BY <1>1, <1>3, <1>4 DEF TrainInv, FinishInv
<1>9. SameAnswers
  BY DEF TellServer, registration, SameAnswers
<1>7. Handled' = Handled
  BY <1>1, <1>3, <1>4, <1>9, HandledKept
<1>8. HandledInv'
  BY <1>1, <1>7 DEF TrainInv, HandledInv
<1>10. AnsweringInv'
  BY <1>1, <1>3, <1>4, <1>9, AnsweringStays, AnsweredWaits DEF TrainInv
<1> QED
  BY <1>5, <1>6, <1>8, <1>10 DEF TrainInv

LEMMA TrainLeaveMaster ==
    ASSUME TypeInv, PhaseInv, TrainInv, LeaveMaster
    PROVE  TrainInv'
<1>1. /\ UNCHANGED <<msgs, waiting, finished, told>> /\ Handled = Workers
      /\ \A w \in Workers : pc'[w] = pc[w]
  BY EveryoneHandled, MasterGoes, AllProcesses
     DEF LeaveMaster, TrainInv, training, terminate
<1>2. AccessInv'
  BY <1>1 DEF TrainInv, AccessInv
<1>3. FinishInv'
  <2>1. \A m \in msgs : m.class = "finish" => Caller(m) \in Workers
    BY DEF TypeInv, MessageOK
  <2> QED
    BY <1>1, <2>1 DEF TrainInv, FinishInv
<1>6. SameAnswers
  BY DEF LeaveMaster, registration, SameAnswers
<1>4. Handled' = Handled
  BY <1>1, <1>6, HandledKept
<1>5. HandledInv'
  BY <1>1, <1>4 DEF TrainInv, HandledInv
<1>7. AnsweringInv'
  BY <1>1, <1>6, AnsweringStays, AnsweredWaits DEF TrainInv
<1> QED
  BY <1>2, <1>3, <1>5, <1>7 DEF TrainInv

LEMMA TrainHandleFinish ==
    ASSUME TypeInv, TrainInv, NEW t \in PoolThreads, NEW m \in msgs, HandleFinish(t, m)
    PROVE  TrainInv'
<1>1. /\ m.type = "request" /\ m.class = "finish" /\ MessageOK(m)
      /\ UNCHANGED <<pc, waiting, told>> /\ finished' = finished + 1
      /\ msgs' = msgs \ {m} /\ thread[t].at = "idle"
  BY DEF HandleFinish, Arrives, TypeInv, training
<1>2. PICK w \in Workers : w = m.from
  BY <1>1 DEF MessageOK, Caller
<1>3. /\ thread'[t].at = "answer" /\ thread'[t].node = w
      /\ \A u \in PoolThreads :
            \/ u = t
            \/ thread'[u].at = thread[u].at /\ thread'[u].node = thread[u].node
  BY <1>2, TransitionFacts DEF HandleFinish
<1>4. Caller(m) = w /\ pc[w] = "finishing"
  BY <1>1, <1>2 DEF Caller, TrainInv, FinishInv
<1>5. ~Answering(w)
  BY <1>1, <1>4, AnsweredWaits DEF TrainInv
<1>6. \A k \in msgs : k.class = "finish" /\ Caller(k) = w => k = m
  BY <1>1, <1>4 DEF TrainInv, FinishInv
<1>7. AccessInv'
  BY <1>1 DEF TrainInv, AccessInv
<1>8. FinishInv'
  BY <1>1 DEF TrainInv, FinishInv
<1>9. AnsweringInv'
  <2>1. ASSUME NEW u \in PoolThreads, u # t, thread'[u].at = "answer"
        PROVE  /\ thread[u].at = "answer" /\ thread'[u].node = thread[u].node
               /\ thread[u].node # w
    BY <1>3, <1>5, <2>1 DEF Answering
  <2>2. ASSUME NEW u \in PoolThreads, thread'[u].at = "answer"
        PROVE  /\ pc'[thread'[u].node] = "finishing"
               /\ \A k \in msgs' : k.class = "finish" => Caller(k) # thread'[u].node
    <3>1. CASE u = t
      BY <1>1, <1>3, <1>4, <1>6, <3>1
    <3>2. CASE u # t
      BY <1>1, <2>1, <2>2, <3>2 DEF TrainInv, AnsweringInv
    <3> QED
      BY <3>1, <3>2
  <2>3. ASSUME NEW u \in PoolThreads, NEW v \in PoolThreads,
               thread'[u].at = "answer", thread'[v].at = "answer",
               thread'[u].node = thread'[v].node
        PROVE  u = v
    <3>1. CASE u = t \/ v = t
      BY <1>3, <2>1, <2>3, <3>1
    <3>2. CASE u # t /\ v # t
      BY <2>1, <2>3, <3>2 DEF TrainInv, AnsweringInv
    <3> QED
      BY <3>1, <3>2
  <2> QED
    BY <2>2, <2>3 DEF AnsweringInv
<1>10. w \notin Handled
  <2>1. \A k \in msgs : k.class = "finish" /\ k.type = "response" => k.to # w
    BY <1>1, <1>6 DEF Caller
  <2> QED
    BY <1>4, <1>5, <2>1 DEF Handled
<1>11. Handled' = Handled \cup {w}
  <2>1. w \in Handled'
    BY <1>3 DEF Handled, Answering
  <2>2. \A v \in Workers : v # w => (Answering(v)' <=> Answering(v))
    BY <1>1, <1>3 DEF Answering
  <2>3. \A v \in Workers : v # w => (v \in Handled' <=> v \in Handled)
    BY <1>1, <2>2 DEF Handled
  <2>4. Handled \subseteq Workers /\ Handled' \subseteq Workers
    BY DEF Handled
  <2> QED
    BY <2>1, <2>3, <2>4
<1>12. finished' = Cardinality(Handled')
  <2>1. Handled \in SUBSET Nodes
    BY AllProcesses DEF Handled
  <2>2. Cardinality(Handled \cup {w}) = Cardinality(Handled) + 1
    BY <1>10, <2>1, OneMore, AllProcesses
  <2> QED
    BY <1>1, <1>11, <2>2 DEF TrainInv, HandledInv
<1>13. HandledInv'
  BY <1>1, <1>10, <1>12 DEF TrainInv, HandledInv
<1> QED
  BY <1>7, <1>8, <1>9, <1>13 DEF TrainInv

LEMMA TrainAnswerFinish ==
    ASSUME TypeInv, TrainInv, NEW t \in PoolThreads, AnswerFinish(t)
    PROVE  TrainInv'
<1>1. /\ UNCHANGED <<pc, waiting, finished, told>> /\ thread[t].at = "answer"
      /\ thread'[t].at = "idle"
      /\ \A u \in PoolThreads :
            \/ u = t
            \/ thread'[u].at = thread[u].at /\ thread'[u].node = thread[u].node
  BY TransitionFacts DEF AnswerFinish, terminate, training
<1>2. PICK w \in Workers : w = thread[t].node
  BY <1>1 DEF TypeInv, VarsOK, CountersOK
<1>3. PICK x : x = Response("finish", Master, w, {})
  OBVIOUS
<1>4. x.type = "response" /\ x.class = "finish" /\ x.to = w /\ Caller(x) = w
  BY <1>3, ResponseFields
<1>5. msgs' = msgs \cup {x}
  BY <1>2, <1>3 DEF AnswerFinish
<1>6. /\ pc[w] = "finishing"
      /\ \A k \in msgs : k.class = "finish" => Caller(k) # w
      /\ \A u \in PoolThreads : thread[u].at = "answer" /\ u # t => thread[u].node # w
  BY <1>1, <1>2 DEF TrainInv, AnsweringInv
<1>7. AccessInv'
  BY <1>1, <1>4, <1>5 DEF TrainInv, AccessInv, IsAccess
<1>8. FinishInv'
  <2>1. \A k, l \in msgs' :
           k.class = "finish" /\ l.class = "finish" /\ Caller(k) = Caller(l) => k = l
    BY <1>4, <1>5, <1>6 DEF TrainInv, FinishInv
  <2>2. \A k \in msgs' : k.class = "finish" => pc'[Caller(k)] = "finishing"
    BY <1>1, <1>4, <1>5, <1>6 DEF TrainInv, FinishInv
  <2> QED
    BY <1>1, <2>1, <2>2 DEF TrainInv, FinishInv
<1>9. \A u \in PoolThreads : thread'[u].at = "answer" =>
         u # t /\ thread[u].at = "answer" /\ thread'[u].node = thread[u].node
  BY <1>1
<1>10. AnsweringInv'
  <2>1. ASSUME NEW u \in PoolThreads, thread'[u].at = "answer"
        PROVE  /\ pc'[thread'[u].node] = "finishing"
               /\ \A k \in msgs' : k.class = "finish" => Caller(k) # thread'[u].node
    BY <1>1, <1>4, <1>5, <1>6, <1>9, <2>1 DEF TrainInv, AnsweringInv
  <2>2. ASSUME NEW u \in PoolThreads, NEW v \in PoolThreads,
               thread'[u].at = "answer", thread'[v].at = "answer",
               thread'[u].node = thread'[v].node
        PROVE  u = v
    BY <1>9, <2>2 DEF TrainInv, AnsweringInv
  <2> QED
    BY <2>1, <2>2 DEF AnsweringInv
<1>11. Handled' = Handled
  <2>1. w \in Handled /\ w \in Handled'
    BY <1>1, <1>2, <1>4, <1>5 DEF Handled, Answering
  <2>2. \A v \in Workers : v # w => (Answering(v)' <=> Answering(v))
    BY <1>1, <1>2 DEF Answering
  <2>3. \A v \in Workers : v # w => (v \in Handled' <=> v \in Handled)
    BY <1>1, <1>4, <1>5, <2>2 DEF Handled
  <2>4. Handled \subseteq Workers /\ Handled' \subseteq Workers
    BY DEF Handled
  <2> QED
    BY <2>1, <2>3, <2>4
<1>12. HandledInv'
  BY <1>1, <1>11 DEF TrainInv, HandledInv
<1> QED
  BY <1>7, <1>8, <1>10, <1>12 DEF TrainInv

LEMMA TrainHandleAccess ==
    ASSUME TypeInv, TrainInv, NEW s \in Servers, NEW m \in msgs, HandleAccess(s, m)
    PROVE  TrainInv'
<1>1. /\ m.type = "request" /\ m.class \in {"pull", "push"} /\ m.to = s
      /\ UNCHANGED <<pc, waiting, finished, told>>
  BY DEF HandleAccess, Arrives, training, terminate
<1>2. PICK x : x = Response(m.class, m.to, m.from, {})
  OBVIOUS
<1>3. x.class = m.class /\ Caller(x) = Caller(m) /\ Callee(x) = Callee(m)
  BY <1>1, <1>2, ResponseFields DEF Caller, Callee
<1>4. msgs' = (msgs \ {m}) \cup {x} /\ x.class \in {"pull", "push"}
  BY <1>1, <1>2, <1>3 DEF HandleAccess, Answer
<1>5. AccessInv'
  <2>1. \A k \in msgs' : IsAccess(k) => Callee(k) \in waiting'[Caller(k)]
    BY <1>1, <1>3, <1>4 DEF TrainInv, AccessInv, IsAccess
  <2>2. \A k \in msgs : IsAccess(k) /\ Caller(k) = Caller(m) /\ Callee(k) = Callee(m) => k = m
    BY <1>1 DEF TrainInv, AccessInv, IsAccess
  <2>3. \A k, l \in msgs' :
           IsAccess(k) /\ IsAccess(l) /\ Caller(k) = Caller(l) /\ Callee(k) = Callee(l) => k = l
    BY <1>3, <1>4, <2>2 DEF TrainInv, AccessInv
  <2> QED
    BY <1>1, <2>1, <2>3 DEF TrainInv, AccessInv
<1>6. FinishInv'
  BY <1>1, <1>4 DEF TrainInv, FinishInv
<1>9. SameAnswers
  BY DEF HandleAccess, registration, SameAnswers
<1>7. Handled' = Handled
  BY <1>1, <1>4, <1>9, HandledKept
<1>8. HandledInv'
  BY <1>1, <1>7 DEF TrainInv, HandledInv
<1>10. AnsweringInv'
  BY <1>1, <1>4, <1>9, AnsweringStays, AnsweredWaits DEF TrainInv
<1> QED
  BY <1>5, <1>6, <1>8, <1>10 DEF TrainInv

LEMMA TrainSendFinish ==
    ASSUME TypeInv, TrainInv, NEW w \in Workers, SendFinish(w)
    PROVE  TrainInv'
<1>1. /\ pc[w] = "inited" /\ waiting[w] = {} /\ UNCHANGED <<waiting, finished, told>>
      /\ pc'[w] = "finishing" /\ pc'[Master] = pc[Master]
      /\ \A k \in Workers : k # w => pc'[k] = pc[k]
  BY WorkerGoes DEF SendFinish, training, terminate
<1>2. PICK x : x = Request("finish", w, Master)
  OBVIOUS
<1>3. x.class = "finish" /\ x.type = "request" /\ Caller(x) = w
  BY <1>2, RequestFields
<1>4. msgs' = msgs \cup {x}
  BY <1>2 DEF SendFinish
<1>5. \A k \in msgs : k.class = "finish" => Caller(k) \in Workers /\ Caller(k) # w
  BY <1>1 DEF TypeInv, MessageOK, TrainInv, FinishInv
<1>6. AccessInv'
  BY <1>1, <1>3, <1>4 DEF TrainInv, AccessInv, IsAccess
<1>7. FinishInv'
  <2>1. \A v \in Workers : pc'[v] \in {"finishing", "gone"} => waiting'[v] = {}
    BY <1>1 DEF TrainInv, FinishInv
  <2>2. \A k \in msgs' : k.class = "finish" => pc'[Caller(k)] = "finishing"
    BY <1>1, <1>3, <1>4, <1>5 DEF TrainInv, FinishInv
  <2>3. \A k, l \in msgs' :
           k.class = "finish" /\ l.class = "finish" /\ Caller(k) = Caller(l) => k = l
    BY <1>3, <1>4, <1>5 DEF TrainInv, FinishInv
  <2> QED
    BY <2>1, <2>2, <2>3 DEF FinishInv
<1>10. SameAnswers
  BY DEF SendFinish, registration, SameAnswers
<1>8. Handled' = Handled
  <2>1. \A v \in Workers : Answering(v)' <=> Answering(v)
    BY <1>10 DEF SameAnswers, Answering
  <2>2. \A v \in Workers : v \in Handled' <=> v \in Handled
    BY <1>1, <1>3, <1>4, <2>1 DEF Handled
  <2> QED
    BY <2>2 DEF Handled
<1>9. HandledInv'
  BY <1>1, <1>8 DEF TrainInv, HandledInv
<1>11. AnsweringInv'
  <2>1. ~Answering(w)
    BY <1>1, AnsweredWaits DEF TrainInv
  <2> QED
    BY <1>1, <1>3, <1>4, <1>10, <2>1, AnsweringStays, AnsweredWaits DEF TrainInv
<1> QED
  BY <1>6, <1>7, <1>9, <1>11 DEF TrainInv

LEMMA TrainLeaveWorker ==
    ASSUME TypeInv, TrainInv, NEW w \in Workers, NEW m \in msgs, LeaveWorker(w, m)
    PROVE  TrainInv'
<1>1. /\ pc[w] = "finishing" /\ UNCHANGED <<waiting, finished, told>>
      /\ pc'[w] = "gone" /\ pc'[Master] = pc[Master]
      /\ \A k \in Workers : k # w => pc'[k] = pc[k]
      /\ msgs' = msgs \ {m}
  BY WorkerGoes DEF LeaveWorker, training, terminate
<1>2. m.class = "finish" /\ m.type = "response" /\ m.to = w /\ Caller(m) = w
  BY DEF LeaveWorker, IsAnswer, Caller
<1>3. \A k \in msgs' : k.class = "finish" => Caller(k) \in Workers /\ Caller(k) # w
  BY <1>1, <1>2 DEF TypeInv, MessageOK, TrainInv, FinishInv
<1>4. AccessInv'
  BY <1>1 DEF TrainInv, AccessInv
<1>5. FinishInv'
  <2>1. \A v \in Workers : pc'[v] \in {"finishing", "gone"} => waiting'[v] = {}
    BY <1>1 DEF TrainInv, FinishInv
  <2>2. \A k \in msgs' : k.class = "finish" => pc'[Caller(k)] = "finishing"
    BY <1>1, <1>3 DEF TrainInv, FinishInv
  <2>3. \A k, l \in msgs' :
           k.class = "finish" /\ l.class = "finish" /\ Caller(k) = Caller(l) => k = l
    BY <1>1 DEF TrainInv, FinishInv
  <2> QED
    BY <2>1, <2>2, <2>3 DEF FinishInv
<1>8. SameAnswers
  BY DEF LeaveWorker, registration, SameAnswers
<1>6. Handled' = Handled
  <2>1. w \in Handled /\ w \in Handled'
    BY <1>1, <1>2 DEF Handled
  <2>2. \A v \in Workers : v # w => (v \in Handled' <=> v \in Handled)
    <3>1. \A v \in Workers : Answering(v)' <=> Answering(v)
      BY <1>8 DEF SameAnswers, Answering
    <3> QED
      BY <1>1, <1>2, <3>1 DEF Handled
  <2>3. Handled \subseteq Workers /\ Handled' \subseteq Workers
    BY DEF Handled
  <2> QED
    BY <2>1, <2>2, <2>3
<1>7. HandledInv'
  BY <1>1, <1>6 DEF TrainInv, HandledInv
<1>9. AnsweringInv'
  <2>1. ~Answering(w)
    BY <1>2, AnsweredWaits DEF TrainInv
  <2> QED
    BY <1>1, <1>8, <2>1, AnsweringStays, AnsweredWaits DEF TrainInv
<1> QED
  BY <1>4, <1>5, <1>7, <1>9 DEF TrainInv

LEMMA TrainGetAccess ==
    ASSUME TypeInv, TrainInv, NEW w \in Workers, NEW m \in msgs, GetAccess(w, m)
    PROVE  TrainInv'
<1>1. /\ m.class \in {"pull", "push"} /\ m.type = "response" /\ m.to = w
      /\ UNCHANGED <<pc, finished, told>> /\ msgs' = msgs \ {m}
  BY DEF GetAccess, IsAnswer, terminate
<1>2. Caller(m) = w /\ Callee(m) = m.from
  BY <1>1 DEF Caller, Callee
<1>3. /\ waiting'[w] = waiting[w] \ {m.from}
      /\ \A v \in Workers : v # w => waiting'[v] = waiting[v]
  BY DEF GetAccess, TypeInv, VarsOK, RoundsOK
<1>4. AccessInv'
  <2>1. \A v \in Workers : waiting'[v] \subseteq Servers
    BY <1>3 DEF TrainInv, AccessInv
  <2>2. \A k \in msgs' : IsAccess(k) => Callee(k) \in waiting'[Caller(k)]
    <3> SUFFICES ASSUME NEW k \in msgs', IsAccess(k)
                 PROVE  Callee(k) \in waiting'[Caller(k)]
      OBVIOUS
    <3>1. k \in msgs /\ k # m /\ Caller(k) \in Workers /\ Callee(k) \in waiting[Caller(k)]
      BY <1>1 DEF TypeInv, MessageOK, TrainInv, AccessInv, IsAccess
    <3>2. ~(Caller(k) = w /\ Callee(k) = m.from)
      BY <1>1, <1>2, <3>1 DEF TrainInv, AccessInv, IsAccess
    <3> QED
      BY <1>3, <3>1, <3>2
  <2>3. \A k, l \in msgs' :
           IsAccess(k) /\ IsAccess(l) /\ Caller(k) = Caller(l) /\ Callee(k) = Callee(l) => k = l
    BY <1>1 DEF TrainInv, AccessInv
  <2> QED
    BY <2>1, <2>2, <2>3 DEF AccessInv
<1>5. FinishInv'
  BY <1>1, <1>3 DEF TrainInv, FinishInv
<1>8. SameAnswers
  BY DEF GetAccess, registration, SameAnswers
<1>6. Handled' = Handled
  BY <1>1, <1>8, HandledKept
<1>7. HandledInv'
  BY <1>1, <1>6 DEF TrainInv, HandledInv
<1>9. AnsweringInv'
  BY <1>1, <1>8, AnsweringStays, AnsweredWaits DEF TrainInv
<1> QED
  BY <1>4, <1>5, <1>7, <1>9 DEF TrainInv

LEMMA TrainStartRound ==
    ASSUME TypeInv, RegInv, PhaseInv, TrainInv, NEW w \in Workers,
           NEW to \in (SUBSET OwnersFor(w)) \ {{}}, StartRound(w, to)
    PROVE  TrainInv'
<1>1. PICK targets : targets = {s \in route[w] : ids[s] \in to}
  OBVIOUS
<1>2. PICK class \in {"pull", "push"} :
         class = IF rounds[w] % 2 = 0 THEN "pull" ELSE "push"
  OBVIOUS
<1>3. to \subseteq KnownIds(w) /\ targets \subseteq Servers
  BY <1>1, RoundTargets
<1>4. /\ pc[w] = "inited" /\ waiting[w] = {} /\ UNCHANGED <<pc, finished, told>>
      /\ waiting' = [waiting EXCEPT ![w] = targets]
      /\ msgs' = msgs \cup {Request(class, w, s) : s \in targets}
  BY <1>1, <1>2, <1>3 DEF StartRound, terminate
<1>5. /\ waiting'[w] = targets
      /\ \A v \in Workers : v # w => waiting'[v] = waiting[v]
  BY <1>4 DEF TypeInv, VarsOK, RoundsOK
<1>6. \A k \in msgs' : \/ k \in msgs
                       \/ /\ k = Request(class, w, Callee(k))
                          /\ IsAccess(k) /\ k.class # "finish"
                          /\ Caller(k) = w /\ Callee(k) \in targets
  <2> SUFFICES ASSUME NEW k \in msgs', k \notin msgs
               PROVE  /\ k = Request(class, w, Callee(k))
                      /\ IsAccess(k) /\ k.class # "finish"
                      /\ Caller(k) = w /\ Callee(k) \in targets
    OBVIOUS
  <2>1. PICK s \in targets : k = Request(class, w, s)
    BY <1>4
  <2>2. k.class = class /\ Caller(k) = w /\ Callee(k) = s
    BY <2>1, RequestFields
  <2> QED
    BY <1>2, <2>1, <2>2 DEF IsAccess
<1>7. \A k \in msgs : IsAccess(k) => Caller(k) \in Workers /\ Caller(k) # w
  BY <1>4 DEF TypeInv, MessageOK, TrainInv, AccessInv, IsAccess
<1>8. AccessInv'
  <2>1. \A v \in Workers : waiting'[v] \subseteq Servers
    BY <1>3, <1>5 DEF TrainInv, AccessInv
  <2>2. \A k \in msgs' : IsAccess(k) => Callee(k) \in waiting'[Caller(k)]
    BY <1>5, <1>6, <1>7 DEF TrainInv, AccessInv
  <2>3. \A k, l \in msgs' :
           IsAccess(k) /\ IsAccess(l) /\ Caller(k) = Caller(l) /\ Callee(k) = Callee(l) => k = l
    <3> SUFFICES ASSUME NEW k \in msgs', NEW l \in msgs', IsAccess(k), IsAccess(l),
                        Caller(k) = Caller(l), Callee(k) = Callee(l)
                 PROVE  k = l
      OBVIOUS
    <3>1. CASE k \in msgs /\ l \in msgs
      BY <3>1 DEF TrainInv, AccessInv
    <3>2. CASE k \notin msgs \/ l \notin msgs
      <4>1. k \notin msgs /\ l \notin msgs
        BY <1>6, <1>7, <3>2
      <4> QED
        BY <1>6, <4>1
    <3> QED
      BY <3>1, <3>2
  <2> QED
    BY <2>1, <2>2, <2>3 DEF AccessInv
<1>9. FinishInv'
  BY <1>4, <1>5, <1>6 DEF TrainInv, FinishInv
<1>12. SameAnswers
  BY DEF StartRound, registration, SameAnswers
<1>10. Handled' = Handled
  <2>1. \A v \in Workers : Answering(v)' <=> Answering(v)
    BY <1>12 DEF SameAnswers, Answering
  <2>2. \A v \in Workers : v \in Handled' <=> v \in Handled
    BY <1>4, <1>6, <2>1 DEF Handled
  <2> QED
    BY <2>2 DEF Handled
<1>11. HandledInv'
  BY <1>4, <1>10 DEF TrainInv, HandledInv
<1>13. AnsweringInv'
  BY <1>4, <1>6, <1>12, AnsweringStays, AnsweredWaits DEF TrainInv
<1> QED
  BY <1>8, <1>9, <1>11, <1>13 DEF TrainInv

LEMMA TrainStep ==
    ASSUME TypeInv, RegInv, PhaseInv, TrainInv, [Next]_vars
    PROVE  TrainInv'
<1>1. CASE Next
  <2>1. AccessInv
    BY DEF TrainInv
  <2> QED
    BY <1>1, <2>1, TrainSteps, TrainQuiet, TrainTell, TrainLeaveMaster, TrainHandleFinish,
       TrainAnswerFinish, TrainHandleAccess, TrainSendFinish, TrainLeaveWorker, TrainGetAccess, TrainStartRound
<1>2. CASE UNCHANGED vars
  BY <1>2, TrainQuiet DEF vars, registration, training, terminate, QuietForTraining,
     SameEnds, SameTraining, SameAnswers
<1> QED
  BY <1>1, <1>2

LEMMA AlwaysTraining == Spec => []TrainInv
<1>1. Init => TrainInv
  BY TrainInit
<1>2. TypeInv /\ RegInv /\ PhaseInv /\ TrainInv /\ [Next]_vars => TrainInv'
  BY TrainStep
<1> QED
  BY <1>1, <1>2, AlwaysTyped, AlwaysRegistered, AlwaysInPhase, PTL DEF Spec

(***************************************************************************)
(* The variables have their types; in particular a worker waits for        *)
(* servers only, since no id its table returns is a worker's.              *)
(***************************************************************************)
THEOREM Typed == Spec => []TypeOK
<1>1. TypeInv /\ TrainInv => TypeOK
  <2> SUFFICES ASSUME TypeInv, TrainInv PROVE TypeOK
    OBVIOUS
  <2>1. PlacesOK /\ CountersOK /\ RoutesOK /\ TotalsOK /\ RoundsOK
    BY DEF TypeInv, VarsOK
  <2>2. pc \in [Processes -> MasterPlaces \cup NodePlaces \cup AddingPlaces \cup Ended]
    BY <2>1 DEF PlacesOK, Places
  <2>3. waiting \in [Workers -> SUBSET Servers]
    BY <2>1 DEF RoundsOK, TrainInv, AccessInv
  <2>4. \A m \in msgs : /\ m.type \in {"request", "response"}
                        /\ m.class \in Classes
                        /\ m.from \in Processes /\ m.to \in Processes
    <3> SUFFICES ASSUME NEW m \in msgs
                 PROVE  /\ m.type \in {"request", "response"}
                        /\ m.class \in Classes
                        /\ m.from \in Processes /\ m.to \in Processes
      OBVIOUS
    <3>1. MessageOK(m)
      BY DEF TypeInv
    <3>2. Caller(m) \in Processes /\ Callee(m) \in Processes
      BY <3>1, AllProcesses DEF MessageOK, Classes
    <3> QED
      BY <3>1, <3>2 DEF MessageOK, Caller, Callee
  <2> QED
    BY <2>1, <2>2, <2>3, <2>4 DEF PlacesOK, CountersOK, RoutesOK, TotalsOK, RoundsOK, TypeOK
<1> QED
  BY <1>1, AlwaysTyped, AlwaysTraining, PTL

\* Once a server is told to terminate.
LEMMA NobodyTrains ==
    ASSUME TypeInv, TrainInv, told # {}
    PROVE  /\ \A w \in Workers : pc[w] \in {"finishing", "gone"} /\ waiting[w] = {}
           /\ \A m \in msgs : m.class \notin {"pull", "push"}
<1>1. Handled = Workers
  BY DEF TrainInv, HandledInv
<1>2. ASSUME NEW w \in Workers
      PROVE  pc[w] \in {"finishing", "gone"} /\ waiting[w] = {}
  <2>1. \/ pc[w] = "gone" \/ Answering(w)
        \/ \E m \in msgs : m.class = "finish" /\ m.type = "response" /\ m.to = w
    BY <1>1 DEF Handled
  <2>2. pc[w] \in {"finishing", "gone"}
    BY <2>1, AnsweredWaits DEF TrainInv, FinishInv, Caller
  <2> QED
    BY <2>2 DEF TrainInv, FinishInv
<1>3. ASSUME NEW m \in msgs, m.class \in {"pull", "push"}
      PROVE  FALSE
  <2>1. Caller(m) \in Workers /\ Callee(m) \in waiting[Caller(m)]
    BY <1>3 DEF TypeInv, MessageOK, TrainInv, AccessInv, IsAccess
  <2> QED
    BY <1>2, <2>1
<1> QED
  BY <1>2, <1>3

(***************************************************************************)
(* The master tells no server to terminate before every worker has ended   *)
(* its training and has all its answers (wait_for_all_workers_finish and   *)
(* tell_all_servers_to_terminate, system/master/terminate.h), however many *)
(* threads register nodes and whatever the sleeps.                         *)
(***************************************************************************)
THEOREM ServersAreNeeded == Spec => []ServersOutliveTraining
<1>1. TypeInv /\ TrainInv => ServersOutliveTraining
  BY NobodyTrains DEF ServersOutliveTraining
<1> QED
  BY <1>1, AlwaysTyped, AlwaysTraining, PTL

-----------------------------------------------------------------------------
(* The end of the job.                                                     *)

LEMMA StopInit == Init => StopInv
<1> SUFFICES ASSUME Init PROVE StopInv
  OBVIOUS
<1>1. msgs = {} /\ told = {} /\ stopped = 0
  BY DEF Init
<1>2. \A p \in Processes : pc[p] = "start"
  BY DEF Init
<1>3. Closed = {} /\ Cardinality({}) = 0
  BY <1>2, AllProcesses, FS_EmptySet DEF Closed
<1>4. TerminateInv
  BY <1>1, <1>2, AllProcesses DEF TerminateInv
<1>5. ClosedInv
  BY <1>1, <1>2, <1>3, AllProcesses DEF ClosedInv
<1>6. JoinedInv
  BY <1>2, AllProcesses DEF JoinedInv
<1> QED
  BY <1>4, <1>5, <1>6 DEF StopInv

\* What most steps leave alone.
SameLeavers ==
    /\ \A s \in Servers : /\ pc'[s] = "told" <=> pc[s] = "told"
                          /\ pc'[s] \in {"answered", "gone"} <=> pc[s] \in {"answered", "gone"}
    /\ pc'[Master] = "gone" => pc[Master] = "gone"
SameTerminate == \A m : m.class = "terminate" => (m \in msgs' <=> m \in msgs)
SamePool == pc[Master] = "gone" => thread' = thread
QuietForStop ==
    UNCHANGED <<told, stopped>> /\ SameLeavers /\ SameTerminate /\ SamePool

LEMMA StopSteps ==
    ASSUME TypeInv, TrainInv, StopInv, Next
    PROVE  \/ QuietForStop
           \/ LeaveMaster
           \/ \E s \in Servers : TellServer(s) \/ SendTerminated(s)
           \/ \E m \in msgs : GetTerminated(m)
           \/ \E s \in Servers, m \in msgs : HandleTerminate(s, m)
<1>a. UNCHANGED pc => SameLeavers
  BY DEF SameLeavers
<1>b. UNCHANGED msgs => SameTerminate
  BY DEF SameTerminate
<1>c. ASSUME NEW p \in Processes, NEW place, pc' = [pc EXCEPT ![p] = place]
      PROVE  /\ pc'[p] = place
             /\ \A q \in Processes : q # p => pc'[q] = pc[q]
  BY <1>c DEF TypeInv, VarsOK, PlacesOK
<1>d. ASSUME NEW p \in Processes, NEW place, pc' = [pc EXCEPT ![p] = place],
             \/ p \in Workers
             \/ p = Master /\ place # "gone"
             \/ {pc[p], place} \cap {"told", "answered", "gone"} = {}
      PROVE  SameLeavers
  BY <1>c, <1>d, AllProcesses DEF SameLeavers
<1>f. ASSUME NEW x, NEW y, x.class # "terminate", y.class # "terminate",
             \/ msgs' = msgs \cup {x} \/ msgs' = msgs \ {x}
             \/ msgs' = (msgs \ {x}) \cup {y}
      PROVE  SameTerminate
  BY <1>f DEF SameTerminate
<1>h. \A class, from, to : Request(class, from, to).class = class
  BY RequestFields
<1>i. \A class, from, to, load : Response(class, from, to, load).class = class
  BY ResponseFields
<1>m. UNCHANGED registration => SamePool
  BY DEF registration, SamePool
<1>n. Up(Master) => SamePool
  BY DEF Up, Ended, SamePool
<1>k. \A w \in Workers : w \in Processes
  BY AllProcesses
<1>l. Master \in Processes /\ \A n \in Nodes : n \in Processes
  BY AllProcesses
<1>1. ASSUME RegisterMessageClass PROVE QuietForStop
  <2>1. SameLeavers
    BY <1>1, <1>d, <1>l DEF RegisterMessageClass, Goto
  <2>2. SameTerminate
    BY <1>1, <1>b DEF RegisterMessageClass
  <2> QED
    BY <1>1, <2>1, <2>2, <1>m DEF RegisterMessageClass, terminate, QuietForStop
<1>2. ASSUME InitHashfrag PROVE QuietForStop
  <2>1. SameLeavers
    BY <1>2, <1>d, <1>l DEF InitHashfrag, Goto
  <2>2. SameTerminate
    BY <1>2, <1>b DEF InitHashfrag
  <2> QED
    BY <1>2, <2>1, <2>2, <1>m DEF InitHashfrag, terminate, QuietForStop
<1>3. ASSUME SetWorkerNum PROVE QuietForStop
  <2>1. SameLeavers
    BY <1>3, <1>d, <1>l DEF SetWorkerNum, Goto
  <2>2. SameTerminate
    BY <1>3, <1>b DEF SetWorkerNum
  <2> QED
    BY <1>3, <2>1, <2>2, <1>m DEF SetWorkerNum, terminate, QuietForStop
<1>4. ASSUME SetServerNum PROVE QuietForStop
  <2>1. SameLeavers
    BY <1>4, <1>d, <1>l DEF SetServerNum, Goto
  <2>2. SameTerminate
    BY <1>4, <1>b DEF SetServerNum
  <2> QED
    BY <1>4, <2>1, <2>2, <1>m DEF SetServerNum, terminate, QuietForStop
<1>5. ASSUME NEW n \in Nodes, SendRoute(n) PROVE QuietForStop
  <2>1. SameLeavers
    BY <1>5, <1>a DEF SendRoute
  <2>2. SameTerminate
    BY <1>5, <1>f, <1>i DEF SendRoute
  <2> QED
    BY <1>5, <2>1, <2>2, <1>m DEF SendRoute, terminate, QuietForStop
<1>6. ASSUME NEW t \in PoolThreads, NEW m \in msgs, AssignId(t, m) PROVE QuietForStop
  <2>1. SameLeavers
    BY <1>6, <1>a DEF AssignId
  <2>2. SameTerminate
    <3>1. m.class # "terminate"
      BY <1>6 DEF AssignId, Arrives
    <3> QED
      BY <1>6, <3>1, <1>f DEF AssignId
  <2>3. SamePool
    BY <1>6, <1>n DEF AssignId, Arrives
  <2> QED
    BY <1>6, <2>1, <2>2, <2>3 DEF AssignId, terminate, QuietForStop
<1>7. ASSUME NEW t \in PoolThreads, CountNode(t) PROVE QuietForStop
  <2>1. SameLeavers
    BY <1>7, <1>a DEF CountNode
  <2>2. SameTerminate
    BY <1>7, <1>b DEF CountNode
  <2>3. SamePool
    BY <1>7, <1>n DEF CountNode, Arrives
  <2> QED
    BY <1>7, <2>1, <2>2, <2>3 DEF CountNode, terminate, QuietForStop
<1>8. ASSUME NEW t \in PoolThreads, CountServer(t) PROVE QuietForStop
  <2>1. SameLeavers
    BY <1>8, <1>a DEF CountServer
  <2>2. SameTerminate
    BY <1>8, <1>b DEF CountServer
  <2>3. SamePool
    BY <1>8, <1>n DEF CountServer, Arrives
  <2> QED
    BY <1>8, <2>1, <2>2, <2>3 DEF CountServer, terminate, QuietForStop
<1>9. ASSUME NEW t \in PoolThreads, CompareCount(t) PROVE QuietForStop
  <2>1. SameLeavers
    BY <1>9, <1>a DEF CompareCount
  <2>2. SameTerminate
    BY <1>9, <1>b DEF CompareCount
  <2>3. SamePool
    BY <1>9, <1>n DEF CompareCount, Arrives
  <2> QED
    BY <1>9, <2>1, <2>2, <2>3 DEF CompareCount, terminate, QuietForStop
<1>10. ASSUME NEW m \in msgs, HandleAskHashfrag(m) PROVE QuietForStop
  <2>1. SameLeavers
    BY <1>10, <1>a, <1>d, <1>l DEF HandleAskHashfrag, Goto, Arrives, Up, Ended
  <2>2. SameTerminate
    <3>1. m.class # "terminate"
      BY <1>10 DEF HandleAskHashfrag, Arrives
    <3>2. PICK x : x = Response(m.class, m.to, m.from, {frags[Master]})
      OBVIOUS
    <3>3. x.class # "terminate"
      BY <3>1, <3>2, <1>i
    <3> QED
      BY <1>10, <3>1, <3>2, <3>3, <1>b, <1>f DEF HandleAskHashfrag, Answer
  <2> QED
    BY <1>10, <2>1, <2>2, <1>m DEF HandleAskHashfrag, terminate, QuietForStop
<1>11. ASSUME NEW t \in PoolThreads, NEW m \in msgs, HandleFinish(t, m) PROVE QuietForStop
  <2>1. SameLeavers
    BY <1>11, <1>a DEF HandleFinish
  <2>2. SameTerminate
    BY <1>11, <1>f DEF HandleFinish, Arrives
  <2>3. SamePool
    BY <1>11, <1>n DEF HandleFinish, Arrives
  <2> QED
    BY <1>11, <2>1, <2>2, <2>3 DEF HandleFinish, terminate, QuietForStop
<1>12. ASSUME NEW n \in Nodes, RegisterLocalNode(n) PROVE QuietForStop
  <2>1. SameLeavers
    BY <1>12, <1>d, <1>l DEF RegisterLocalNode, Goto
  <2>2. SameTerminate
    BY <1>12, <1>f, <1>h DEF RegisterLocalNode
  <2> QED
    BY <1>12, <2>1, <2>2, <1>m DEF RegisterLocalNode, terminate, QuietForStop
<1>13. ASSUME NEW n \in Nodes, NEW m \in msgs, AskHashfrag(n, m) PROVE QuietForStop
  <2>1. SameLeavers
    BY <1>13, <1>d, <1>l DEF AskHashfrag, Goto
  <2>2. SameTerminate
    <3>1. m.class # "terminate" /\ Request("hashfrag", n, Master).class # "terminate"
      BY <1>13, <1>h DEF AskHashfrag, IsAnswer
    <3> QED
      BY <1>13, <3>1, <1>f DEF AskHashfrag
  <2> QED
    BY <1>13, <2>1, <2>2, <1>m DEF AskHashfrag, terminate, QuietForStop
<1>14. ASSUME NEW n \in Nodes, NEW m \in msgs, GetHashfrag(n, m) PROVE QuietForStop
  <2>1. SameLeavers
    BY <1>14, <1>d, <1>l DEF GetHashfrag, Goto
  <2>2. SameTerminate
    <3>1. m.class # "terminate"
      BY <1>14 DEF GetHashfrag, IsAnswer
    <3> QED
      BY <1>14, <3>1, <1>f DEF GetHashfrag
  <2> QED
    BY <1>14, <2>1, <2>2, <1>m DEF GetHashfrag, terminate, QuietForStop
<1>15. ASSUME NEW p \in Processes, AddsClass(p) PROVE QuietForStop
  <2>1. SameLeavers
    <3>1. CASE p = Master
      <4>1. \E place : pc' = [pc EXCEPT ![p] = place] /\ place # "gone"
        BY <1>15, <3>1, AddsClassFacts
      <4> QED
        BY <3>1, <4>1, <1>d
    <3>2. CASE p \in Servers
      <4>1. /\ pc[p] \notin {"told", "answered", "gone"}
            /\ \E place : /\ pc' = [pc EXCEPT ![p] = place]
                          /\ place \notin {"told", "answered", "gone"}
        BY <1>15, <3>2, AddsClassFacts
      <4> QED
        BY <4>1, <1>d
    <3> QED
      BY <1>15, <3>1, <3>2, AddsClassFacts
  <2>2. UNCHANGED <<msgs, registration, terminate>>
    BY <1>15, AddsClassFacts
  <2> QED
    BY <2>1, <2>2, <1>b, <1>m DEF terminate, QuietForStop
<1>16. ASSUME NEW s \in Servers, NEW m \in msgs, HandleAccess(s, m) PROVE QuietForStop
  <2>1. SameLeavers
    BY <1>16, <1>a DEF HandleAccess
  <2>2. SameTerminate
    <3>1. m.class # "terminate"
      BY <1>16 DEF HandleAccess, Arrives
    <3>2. PICK x : x = Response(m.class, m.to, m.from, {})
      OBVIOUS
    <3>3. x.class # "terminate"
      BY <3>1, <3>2, <1>i
    <3> QED
      BY <1>16, <3>1, <3>2, <3>3, <1>f DEF HandleAccess, Answer
  <2> QED
    BY <1>16, <2>1, <2>2, <1>m DEF HandleAccess, terminate, QuietForStop
<1>17. ASSUME NEW w \in Workers, NEW to \in (SUBSET OwnersFor(w)) \ {{}}, StartRound(w, to) PROVE QuietForStop
  <2>1. SameLeavers
    BY <1>17, <1>a, <1>d, <1>k DEF StartRound, Goto
  <2>2. SameTerminate
    <3>1. PICK class \in {"pull", "push"} :
             class = IF rounds[w] % 2 = 0 THEN "pull" ELSE "push"
      OBVIOUS
    <3>2. \/ UNCHANGED msgs
          \/ msgs' = msgs \cup
                {Request(class, w, s) : s \in {x \in route[w] : ids[x] \in to}}
      BY <1>17, <3>1 DEF StartRound
    <3> QED
      BY <3>1, <3>2, <1>h DEF SameTerminate
  <2> QED
    BY <1>17, <2>1, <2>2, <1>m DEF StartRound, terminate, QuietForStop
<1>18. ASSUME NEW w \in Workers, SendFinish(w) PROVE QuietForStop
  <2>1. SameLeavers
    BY <1>18, <1>d, <1>k DEF SendFinish, Goto
  <2>2. SameTerminate
    BY <1>18, <1>f, <1>h DEF SendFinish
  <2> QED
    BY <1>18, <2>1, <2>2, <1>m DEF SendFinish, terminate, QuietForStop
<1>19. ASSUME NEW w \in Workers, NEW m \in msgs, GetAccess(w, m) PROVE QuietForStop
  <2>1. SameLeavers
    BY <1>19, <1>a DEF GetAccess
  <2>2. SameTerminate
    <3>1. m.class # "terminate"
      BY <1>19 DEF GetAccess, IsAnswer
    <3> QED
      BY <1>19, <3>1, <1>f DEF GetAccess
  <2> QED
    BY <1>19, <2>1, <2>2, <1>m DEF GetAccess, terminate, QuietForStop
<1>20. ASSUME NEW w \in Workers, NEW m \in msgs, LeaveWorker(w, m) PROVE QuietForStop
  <2>1. SameLeavers
    BY <1>20, <1>d, <1>k DEF LeaveWorker, Goto
  <2>2. SameTerminate
    <3>1. m.class # "terminate"
      BY <1>20 DEF LeaveWorker, IsAnswer
    <3> QED
      BY <1>20, <3>1, <1>f DEF LeaveWorker
  <2> QED
    BY <1>20, <2>1, <2>2, <1>m DEF LeaveWorker, terminate, QuietForStop
<1>21. ASSUME NEW m \in msgs, UnknownClass(m) PROVE QuietForStop
  <2>1. m.to \in Processes /\ pc[m.to] # "gone" /\ m.type = "request" /\ Callee(m) = m.to
    BY <1>21, AllProcesses DEF UnknownClass, TypeInv, MessageOK, Classes, Callee, Up, Ended
  <2>2. pc' = [pc EXCEPT ![m.to] = "unknown class"]
    BY <1>21 DEF UnknownClass, Goto
  <2>3. m.to \in Servers => pc[m.to] \notin {"told", "answered"}
    <3> SUFFICES ASSUME m.to \in Servers, pc[m.to] \in {"told", "answered"} PROVE FALSE
      OBVIOUS
    <3>1. m.to \in told
      BY DEF StopInv, TerminateInv
    <3>2. m.class \notin {"pull", "push"}
      BY <1>21, <3>1, NobodyTrains
    <3>3. m.class # "terminate"
      BY <1>21, <2>1 DEF StopInv, TerminateInv
    <3> QED
      BY <1>21, <2>1, <3>2, <3>3, AllProcesses DEF TypeInv, MessageOK, Classes
  <2>4. SameLeavers
    BY <2>1, <2>2, <2>3, <1>c, AllProcesses DEF SameLeavers
  <2> QED
    BY <1>21, <2>4, <1>b, <1>m DEF UnknownClass, terminate, QuietForStop
<1>22. ASSUME NEW p \in Processes, Timeout(p) PROVE QuietForStop
  <2>1. SameLeavers
    BY <1>22, <1>d DEF Timeout, Goto
  <2>2. SameTerminate
    BY <1>22, <1>b DEF Timeout
  <2> QED
    BY <1>22, <2>1, <2>2, <1>m DEF Timeout, terminate, QuietForStop
<1>23. ASSUME NEW t \in PoolThreads, AnswerFinish(t) PROVE QuietForStop
  <2>1. SameLeavers
    BY <1>23, <1>a DEF AnswerFinish
  <2>2. SameTerminate
    BY <1>23, <1>f, <1>i DEF AnswerFinish
  <2>3. SamePool
    BY <1>23, <1>n DEF AnswerFinish
  <2> QED
    BY <1>23, <2>1, <2>2, <2>3 DEF AnswerFinish, terminate, QuietForStop
<1>24. ASSUME NEW s \in Servers, LeaveServer(s) PROVE QuietForStop
  <2>1. SameLeavers
    BY <1>24, <1>c, AllProcesses DEF LeaveServer, Goto, SameLeavers
  <2>2. SameTerminate
    BY <1>24, <1>b DEF LeaveServer
  <2> QED
    BY <1>24, <2>1, <2>2, <1>m DEF LeaveServer, terminate, QuietForStop
<1> QED
  BY <1>1, <1>2, <1>3, <1>4, <1>5, <1>6, <1>7, <1>8, <1>9, <1>10, <1>11, <1>12, <1>13, <1>14, <1>15, <1>16, <1>17, <1>18, <1>19, <1>20, <1>21, <1>22,
     <1>23, <1>24, NextIsStep DEF Step

LEMMA TerminateEnds ==
    ASSUME TypeInv, NEW m \in msgs, m.class = "terminate"
    PROVE  Callee(m) \in Servers
  BY DEF TypeInv, MessageOK

LEMMA StopQuiet ==
    ASSUME TypeInv, StopInv, QuietForStop
    PROVE  StopInv'
<1>1. /\ UNCHANGED <<told, stopped>>
      /\ \A s \in Servers : pc'[s] = "told" => pc[s] = "told"
      /\ \A s \in Servers : pc'[s] \in {"answered", "gone"} <=> pc[s] \in {"answered", "gone"}
      /\ pc'[Master] = "gone" => pc[Master] = "gone"
  BY DEF QuietForStop, SameLeavers
<1>2. \A m : m.class = "terminate" => (m \in msgs' <=> m \in msgs)
  BY DEF QuietForStop, SameTerminate
<1>3. TerminateInv'
  <2>1. \A s \in Servers : pc'[s] \in {"told", "answered", "gone"} => s \in told'
    BY <1>1 DEF StopInv, TerminateInv
  <2>2. \A m \in msgs' : m.class = "terminate" =>
           /\ Callee(m) \in told'
           /\ pc'[Callee(m)] # "told"
           /\ m.type = "response" <=> pc'[Callee(m)] \in {"answered", "gone"}
    BY <1>1, <1>2, TerminateEnds DEF StopInv, TerminateInv
  <2>3. \A m, k \in msgs' :
          m.class = "terminate" /\ k.class = "terminate" /\ Callee(m) = Callee(k) => m = k
    BY <1>2 DEF StopInv, TerminateInv
  <2> QED
    BY <2>1, <2>2, <2>3 DEF TerminateInv
<1>4. Closed' = Closed
  <2>1. \A s \in Servers : s \in Closed' <=> s \in Closed
    BY <1>1, <1>2 DEF Closed
  <2> QED
    BY <2>1 DEF Closed
<1>5. ClosedInv'
  BY <1>1, <1>4 DEF StopInv, ClosedInv
<1>6. JoinedInv'
  BY <1>1 DEF StopInv, JoinedInv, QuietForStop, SamePool
<1> QED
  BY <1>3, <1>5, <1>6 DEF StopInv

\* A server goes from one place to another.
LEMMA ServerGoes ==
    ASSUME TypeInv, NEW s \in Servers, NEW place, Goto(s, place)
    PROVE  /\ pc'[s] = place /\ pc'[Master] = pc[Master]
           /\ \A k \in Servers : k # s => pc'[k] = pc[k]
  BY AllProcesses, NodeGoes

LEMMA StopTell ==
    ASSUME TypeInv, StopInv, NEW s \in Servers, TellServer(s)
    PROVE  StopInv'
<1>1. /\ UNCHANGED <<pc, stopped, thread>> /\ told' = told \cup {s} /\ s \notin told
      /\ pc[Master] # "gone"
  BY DEF TellServer, registration
<1>2. PICK x : x = Request("terminate", Master, s)
  OBVIOUS
<1>3. x.type = "request" /\ x.class = "terminate" /\ Callee(x) = s
  BY <1>2, RequestFields
<1>4. msgs' = msgs \cup {x}
  BY <1>2 DEF TellServer
<1>5. pc[s] \notin {"told", "answered", "gone"}
  BY <1>1 DEF StopInv, TerminateInv
<1>6. \A k \in msgs : k.class = "terminate" => Callee(k) # s
  BY <1>1 DEF StopInv, TerminateInv
<1>7. TerminateInv'
  <2>1. \A v \in Servers : pc'[v] \in {"told", "answered", "gone"} => v \in told'
    BY <1>1 DEF StopInv, TerminateInv
  <2>2. \A m \in msgs' : m.class = "terminate" =>
           /\ Callee(m) \in told'
           /\ pc'[Callee(m)] # "told"
           /\ m.type = "response" <=> pc'[Callee(m)] \in {"answered", "gone"}
    BY <1>1, <1>3, <1>4, <1>5 DEF StopInv, TerminateInv
  <2>3. \A m, k \in msgs' :
          m.class = "terminate" /\ k.class = "terminate" /\ Callee(m) = Callee(k) => m = k
    BY <1>3, <1>4, <1>6 DEF StopInv, TerminateInv
  <2> QED
    BY <2>1, <2>2, <2>3 DEF TerminateInv
<1>8. Closed' = Closed
  <2>1. \A v \in Servers : v \in Closed' <=> v \in Closed
    BY <1>1, <1>3, <1>4, <1>5 DEF Closed
  <2> QED
    BY <2>1 DEF Closed
<1>9. ClosedInv'
  BY <1>1, <1>8 DEF StopInv, ClosedInv
<1>10. JoinedInv'
  BY <1>1 DEF StopInv, JoinedInv
<1> QED
  BY <1>7, <1>9, <1>10 DEF StopInv

LEMMA StopHandle ==
    ASSUME TypeInv, StopInv, NEW s \in Servers, NEW m \in msgs, HandleTerminate(s, m)
    PROVE  StopInv'
<1>1. /\ UNCHANGED <<told, stopped, thread>> /\ msgs' = msgs \ {m}
      /\ m.type = "request" /\ m.class = "terminate" /\ Callee(m) = s
      /\ pc'[s] = "told" /\ pc'[Master] = pc[Master]
      /\ \A k \in Servers : k # s => pc'[k] = pc[k]
  BY ServerGoes DEF HandleTerminate, Arrives, Callee, terminate, registration
<1>2. s \in told /\ pc[s] \notin {"answered", "gone"}
  BY <1>1 DEF StopInv, TerminateInv
<1>3. \A k \in msgs' : k.class = "terminate" => Callee(k) # s /\ Callee(k) \in Servers
  BY <1>1, TerminateEnds DEF StopInv, TerminateInv
<1>4. TerminateInv'
  <2>1. \A v \in Servers : pc'[v] \in {"told", "answered", "gone"} => v \in told'
    BY <1>1, <1>2 DEF StopInv, TerminateInv
  <2>2. \A k \in msgs' : k.class = "terminate" =>
           /\ Callee(k) \in told'
           /\ pc'[Callee(k)] # "told"
           /\ k.type = "response" <=> pc'[Callee(k)] \in {"answered", "gone"}
    BY <1>1, <1>3 DEF StopInv, TerminateInv
  <2> QED
    BY <1>1, <2>1, <2>2 DEF StopInv, TerminateInv
<1>5. Closed' = Closed
  <2>1. \A v \in Servers : v # s => (v \in Closed' <=> v \in Closed)
    BY <1>1 DEF Closed
  <2>2. s \notin Closed /\ s \notin Closed'
    BY <1>1, <1>2 DEF Closed
  <2>3. Closed \subseteq Servers /\ Closed' \subseteq Servers
    BY DEF Closed
  <2> QED
    BY <2>1, <2>2, <2>3
<1>6. ClosedInv'
  BY <1>1, <1>5 DEF StopInv, ClosedInv
<1>7. JoinedInv'
  BY <1>1 DEF StopInv, JoinedInv
<1> QED
  BY <1>4, <1>6, <1>7 DEF StopInv

LEMMA StopSendTerminated ==
    ASSUME TypeInv, StopInv, NEW s \in Servers, SendTerminated(s)
    PROVE  StopInv'
<1>1. /\ UNCHANGED <<told, stopped, thread>>
      /\ pc[s] = "told" /\ pc'[s] = "answered" /\ pc'[Master] = pc[Master]
      /\ \A k \in Servers : k # s => pc'[k] = pc[k]
  BY ServerGoes DEF SendTerminated, terminate, registration
<1>2. PICK x : x = Response("terminate", s, Master, {})
  OBVIOUS
<1>3. x.type = "response" /\ x.class = "terminate" /\ Callee(x) = s
  BY <1>2, ResponseFields
<1>4. msgs' = msgs \cup {x}
  BY <1>2 DEF SendTerminated
<1>5. \A k \in msgs : k.class = "terminate" => Callee(k) # s /\ Callee(k) \in Servers
  BY <1>1, TerminateEnds DEF StopInv, TerminateInv
<1>6. TerminateInv'
  <2>1. \A v \in Servers : pc'[v] \in {"told", "answered", "gone"} => v \in told'
    BY <1>1 DEF StopInv, TerminateInv
  <2>2. \A k \in msgs' : k.class = "terminate" =>
           /\ Callee(k) \in told'
           /\ pc'[Callee(k)] # "told"
           /\ k.type = "response" <=> pc'[Callee(k)] \in {"answered", "gone"}
    <3> SUFFICES ASSUME NEW k \in msgs', k.class = "terminate"
                 PROVE  /\ Callee(k) \in told'
                        /\ pc'[Callee(k)] # "told"
                        /\ k.type = "response" <=> pc'[Callee(k)] \in {"answered", "gone"}
      OBVIOUS
    <3>1. CASE k = x
      BY <1>1, <1>3, <3>1 DEF StopInv, TerminateInv
    <3>2. CASE k # x
      BY <1>1, <1>4, <1>5, <3>2 DEF StopInv, TerminateInv
    <3> QED
      BY <3>1, <3>2
  <2>3. \A l, k \in msgs' :
          l.class = "terminate" /\ k.class = "terminate" /\ Callee(l) = Callee(k) => l = k
    BY <1>3, <1>4, <1>5 DEF StopInv, TerminateInv
  <2> QED
    BY <2>1, <2>2, <2>3 DEF TerminateInv
<1>7. Closed' = Closed
  <2>1. s \notin Closed /\ s \notin Closed'
    BY <1>1, <1>3, <1>4 DEF Closed
  <2>2. \A v \in Servers : v # s => (v \in Closed' <=> v \in Closed)
    BY <1>1, <1>3, <1>4 DEF Closed
  <2>3. Closed \subseteq Servers /\ Closed' \subseteq Servers
    BY DEF Closed
  <2> QED
    BY <2>1, <2>2, <2>3
<1>8. ClosedInv'
  BY <1>1, <1>7 DEF StopInv, ClosedInv
<1>9. JoinedInv'
  BY <1>1 DEF StopInv, JoinedInv
<1> QED
  BY <1>6, <1>8, <1>9 DEF StopInv

LEMMA StopGet ==
    ASSUME TypeInv, StopInv, NEW m \in msgs, GetTerminated(m)
    PROVE  StopInv'
<1>1. /\ UNCHANGED <<pc, told, thread>> /\ stopped' = stopped + 1 /\ msgs' = msgs \ {m}
      /\ m.type = "response" /\ m.class = "terminate"
  BY DEF GetTerminated, IsAnswer, registration
<1>2. PICK s \in Servers : s = Callee(m)
  BY <1>1, TerminateEnds
<1>3. pc[s] \in {"answered", "gone"}
  BY <1>1, <1>2 DEF StopInv, TerminateInv
<1>4. TerminateInv'
  BY <1>1 DEF StopInv, TerminateInv
<1>5. Closed' = Closed \cup {s} /\ s \notin Closed
  <2>1. s \notin Closed
    BY <1>1, <1>2 DEF Closed
  <2>2. \A k \in msgs' : k.class = "terminate" => Callee(k) # s
    BY <1>1, <1>2 DEF StopInv, TerminateInv
  <2>3. s \in Closed'
    BY <1>1, <1>3, <2>2 DEF Closed
  <2>4. \A v \in Servers : v # s => (v \in Closed' <=> v \in Closed)
    BY <1>1, <1>2 DEF Closed
  <2>5. Closed \subseteq Servers /\ Closed' \subseteq Servers
    BY DEF Closed
  <2> QED
    BY <2>1, <2>3, <2>4, <2>5
<1>6. stopped' = Cardinality(Closed')
  <2>1. Closed \in SUBSET Nodes
    BY AllProcesses DEF Closed
  <2>2. Cardinality(Closed \cup {s}) = Cardinality(Closed) + 1
    BY <1>5, <2>1, OneMore, AllProcesses
  <2> QED
    BY <1>1, <1>5, <2>2 DEF StopInv, ClosedInv
<1>7. ClosedInv'
  BY <1>1, <1>5, <1>6 DEF StopInv, ClosedInv
<1>8. JoinedInv'
  BY <1>1 DEF StopInv, JoinedInv
<1> QED
  BY <1>4, <1>7, <1>8 DEF StopInv

\* The servers that are told in the end are all of them, and those whose
\* answer is there are at most as many.
LEMMA EveryoneTold ==
    ASSUME TypeInv, RegInv, PhaseInv, StopInv, LeaveMaster
    PROVE  /\ told = Servers
           /\ Closed \subseteq Servers /\ stopped = Cardinality(Closed)
           /\ stopped \in Nat /\ stopped <= Cardinality(Servers)
           /\ stopped = Cardinality(Servers) => Closed = Servers
<1>1. pc[Master] = "await workers" /\ told = Assigned(Servers)
  BY DEF LeaveMaster
<1>2. allHere
  BY <1>1 DEF PhaseInv, MasterPhases, Routing
<1>3. told = Servers
  BY <1>1, <1>2, AllAreHere
<1>4. Closed \subseteq Servers /\ stopped = Cardinality(Closed)
  BY DEF StopInv, ClosedInv, Closed
<1>5. /\ Cardinality(Closed) \in Nat /\ Cardinality(Closed) <= Cardinality(Servers)
      /\ Cardinality(Closed) = Cardinality(Servers) => Closed = Servers
  BY <1>4, NodesAndMaster, FS_Subset, FS_CardinalityType
<1> QED
  BY <1>3, <1>4, <1>5

LEMMA StopLeaveMaster ==
    ASSUME TypeInv, RegInv, PhaseInv, StopInv, LeaveMaster
    PROVE  StopInv'
<1>1. /\ UNCHANGED <<msgs, told, stopped>>
      /\ \A n \in Nodes : pc'[n] = pc[n]
      /\ \/ pc'[Master] = "failed check"
         \/ /\ pc'[Master] = "gone" /\ stopped = Cardinality(told)
            /\ \A t \in PoolThreads : thread'[t].at = "idle"
  BY MasterGoes DEF LeaveMaster, terminate, registration
<1>2. TerminateInv'
  <2>1. \A s \in Servers : pc'[s] = pc[s]
    BY <1>1, AllProcesses
  <2> QED
    BY <1>1, <2>1, TerminateEnds DEF StopInv, TerminateInv
<1>3. Closed' = Closed
  BY <1>1, AllProcesses DEF Closed
<1>4. pc'[Master] = "gone" => Closed = Servers
  BY <1>1, EveryoneTold
<1>5. ClosedInv'
  BY <1>1, <1>3, <1>4 DEF StopInv, ClosedInv
<1>6. JoinedInv'
  BY <1>1 DEF JoinedInv
<1> QED
  BY <1>2, <1>5, <1>6 DEF StopInv

LEMMA StopStep ==
    ASSUME TypeInv, RegInv, PhaseInv, TrainInv, StopInv, [Next]_vars
    PROVE  StopInv'
<1>1. CASE Next
  BY <1>1, StopSteps, StopQuiet, StopTell, StopHandle, StopSendTerminated, StopGet,
     StopLeaveMaster
<1>2. CASE UNCHANGED vars
  BY <1>2, StopQuiet DEF vars, registration, terminate, QuietForStop, SameLeavers,
     SameTerminate, SamePool
<1> QED
  BY <1>1, <1>2

LEMMA AlwaysStopping == Spec => []StopInv
<1>1. Init => StopInv
  BY StopInit
<1>2. TypeInv /\ RegInv /\ PhaseInv /\ TrainInv /\ StopInv /\ [Next]_vars => StopInv'
  BY StopStep
<1> QED
  BY <1>1, <1>2, AlwaysTyped, AlwaysRegistered, AlwaysInPhase, AlwaysTraining, PTL DEF Spec

(***************************************************************************)
(* When the master's main has returned and ~Transfer has joined the pool,  *)
(* every server has sent its answer, and every worker is gone or has its   *)
(* answer on the way (tell_all_servers_to_terminate waits for all answers, *)
(* system/master/terminate.h; transfer.h:231-246): whenever the pool       *)
(* threads of the master and the servers send these answers.               *)
(***************************************************************************)
THEOREM MasterIsLast == Spec => []MasterLeavesNobody
<1>1. TrainInv /\ StopInv => MasterLeavesNobody
  <2> SUFFICES ASSUME TrainInv, StopInv, pc[Master] = "gone"
               PROVE  /\ \A s \in Servers : pc[s] \in {"answered", "gone"}
                      /\ \A w \in Workers :
                            \/ pc[w] = "gone"
                            \/ \E m \in msgs : /\ m.type = "response"
                                               /\ m.class = "finish" /\ m.to = w
    BY DEF MasterLeavesNobody
  <2>1. Closed = Servers /\ Handled = Workers
    BY DEF StopInv, ClosedInv, TrainInv, HandledInv
  <2>2. \A w \in Workers : ~Answering(w)
    BY DEF StopInv, JoinedInv, Answering
  <2>3. \A s \in Servers : pc[s] \in {"answered", "gone"}
    BY <2>1 DEF Closed
  <2>4. \A w \in Workers : \/ pc[w] = "gone"
                            \/ \E m \in msgs : /\ m.type = "response"
                                               /\ m.class = "finish" /\ m.to = w
    BY <2>1, <2>2 DEF Handled
  <2> QED
    BY <2>3, <2>4
<1> QED
  BY <1>1, AlwaysTraining, AlwaysStopping, PTL

-----------------------------------------------------------------------------
(* The checks of the start-up code.                                        *)

LEMMA ChecksStep ==
    ASSUME OneThread, TypeInv, RegInv, PhaseInv, StopInv, StartUpChecksHold, Next
    PROVE  StartUpChecksHold'
<1>a. UNCHANGED pc => StartUpChecksHold'
  BY DEF StartUpChecksHold
<1>b. ASSUME NEW p, NEW place, pc' = [pc EXCEPT ![p] = place], place # "failed check"
      PROVE  StartUpChecksHold'
  BY <1>b DEF StartUpChecksHold, TypeInv, VarsOK, PlacesOK
<1>c. Cardinality(Servers) \in Nat /\ Cardinality(Workers) \in Nat
  BY NodesAndMaster
<1>d. Cardinality(Servers) > 0 /\ Cardinality(Workers) > 0
  BY NodesAndMaster
<1>1. ASSUME RegisterMessageClass PROVE StartUpChecksHold'
  BY <1>1, <1>b DEF RegisterMessageClass, Goto
<1>2. ASSUME InitHashfrag PROVE StartUpChecksHold'
  <2>1. serverNum = Cardinality(Servers)
    BY <1>2, OneThread, AllAreHere DEF InitHashfrag
  <2>2. serverNum > 0
    BY <2>1, <1>d
  <2> QED
    BY <1>2, <2>2, <1>b DEF InitHashfrag, Goto
<1>3. ASSUME SetWorkerNum PROVE StartUpChecksHold'
  <2>1. allHere
    BY <1>3 DEF SetWorkerNum, PhaseInv, MasterPhases, Routing
  <2>2. /\ serverNum = Cardinality(Servers)
        /\ nodeNum = Cardinality(Servers) + Cardinality(Workers)
    BY <2>1, OneThread, AllAreHere
  <2>3. nodeNum > serverNum
    BY <2>2, <1>c, <1>d
  <2> QED
    BY <1>3, <2>3, <1>b DEF SetWorkerNum, Goto
<1>4. ASSUME SetServerNum PROVE StartUpChecksHold'
  <2>1. allHere
    BY <1>4 DEF SetServerNum, PhaseInv, MasterPhases, Routing
  <2>2. serverNum = Cardinality(Servers)
    BY <2>1, OneThread, AllAreHere
  <2>3. serverNum > 0
    BY <2>2, <1>d
  <2> QED
    BY <1>4, <2>3, <1>b DEF SetServerNum, Goto
<1>5. ASSUME LeaveMaster PROVE StartUpChecksHold'
  <2>1. /\ told = Servers /\ stopped \in Nat /\ stopped <= Cardinality(Servers)
    BY <1>5, EveryoneTold
  <2>2. serverTotal = Cardinality(Servers) /\ stopped >= serverTotal
    BY <1>5, OneThread DEF LeaveMaster, PhaseInv, MasterPhases
  <2>3. stopped >= Cardinality(Servers)
    BY <2>2
  <2>4. stopped = Cardinality(Servers)
    BY <2>1, <2>3, <1>c
  <2> QED
    BY <1>5, <2>1, <2>4, <1>b DEF LeaveMaster, Goto
<1>6. ASSUME NEW n \in Nodes, SendRoute(n) PROVE StartUpChecksHold'
  BY <1>6, <1>a DEF SendRoute
<1>7. ASSUME NEW s \in Servers, TellServer(s) PROVE StartUpChecksHold'
  BY <1>7, <1>a DEF TellServer
<1>8. ASSUME NEW t \in PoolThreads, NEW m \in msgs, AssignId(t, m) PROVE StartUpChecksHold'
  BY <1>8, <1>a DEF AssignId
<1>9. ASSUME NEW t \in PoolThreads, CountNode(t) PROVE StartUpChecksHold'
  BY <1>9, <1>a DEF CountNode
<1>10. ASSUME NEW t \in PoolThreads, CountServer(t) PROVE StartUpChecksHold'
  BY <1>10, <1>a DEF CountServer
<1>11. ASSUME NEW t \in PoolThreads, CompareCount(t) PROVE StartUpChecksHold'
  BY <1>11, <1>a DEF CompareCount
<1>12. ASSUME NEW m \in msgs, HandleAskHashfrag(m) PROVE StartUpChecksHold'
  <2>1. frags[Master] > 0
    BY <1>12 DEF HandleAskHashfrag, Arrives, PhaseInv, Loads
  <2> QED
    BY <1>12, <2>1, <1>a DEF HandleAskHashfrag
<1>13. ASSUME NEW t \in PoolThreads, NEW m \in msgs, HandleFinish(t, m) PROVE StartUpChecksHold'
  BY <1>13, <1>a DEF HandleFinish
<1>14. ASSUME NEW m \in msgs, GetTerminated(m) PROVE StartUpChecksHold'
  BY <1>14, <1>a DEF GetTerminated
<1>15. ASSUME NEW n \in Nodes, RegisterLocalNode(n) PROVE StartUpChecksHold'
  BY <1>15, <1>b DEF RegisterLocalNode, Goto
<1>16. ASSUME NEW n \in Nodes, NEW m \in msgs, AskHashfrag(n, m) PROVE StartUpChecksHold'
  BY <1>16, <1>b DEF AskHashfrag, Goto
<1>17. ASSUME NEW n \in Nodes, NEW m \in msgs, GetHashfrag(n, m) PROVE StartUpChecksHold'
  BY <1>17, <1>b DEF GetHashfrag, Goto
<1>18. ASSUME NEW p \in Processes, AddsClass(p) PROVE StartUpChecksHold'
  <2>1. PICK place : pc' = [pc EXCEPT ![p] = place] /\ place # "failed check"
    BY <1>18, AddsClassFacts
  <2> QED
    BY <2>1, <1>b
<1>19. ASSUME NEW s \in Servers, NEW m \in msgs, HandleAccess(s, m) PROVE StartUpChecksHold'
  BY <1>19, <1>a DEF HandleAccess
<1>20. ASSUME NEW s \in Servers, NEW m \in msgs, HandleTerminate(s, m) PROVE StartUpChecksHold'
  BY <1>20, <1>b DEF HandleTerminate, Goto
<1>21. ASSUME NEW s \in Servers, LeaveServer(s) PROVE StartUpChecksHold'
  BY <1>21, <1>b DEF LeaveServer, Goto
<1>22. ASSUME NEW w \in Workers, NEW to \in (SUBSET OwnersFor(w)) \ {{}}, StartRound(w, to) PROVE StartUpChecksHold'
  <2>1. to \subseteq KnownIds(w)
    BY <1>22, RoundTargets
  <2> QED
    BY <1>22, <2>1, <1>a DEF StartRound
<1>23. ASSUME NEW w \in Workers, SendFinish(w) PROVE StartUpChecksHold'
  BY <1>23, <1>b DEF SendFinish, Goto
<1>24. ASSUME NEW w \in Workers, NEW m \in msgs, GetAccess(w, m) PROVE StartUpChecksHold'
  BY <1>24, <1>a DEF GetAccess
<1>25. ASSUME NEW w \in Workers, NEW m \in msgs, LeaveWorker(w, m) PROVE StartUpChecksHold'
  BY <1>25, <1>b DEF LeaveWorker, Goto
<1>26. ASSUME NEW m \in msgs, UnknownClass(m) PROVE StartUpChecksHold'
  BY <1>26, <1>b DEF UnknownClass, Goto
<1>27. ASSUME NEW p \in Processes, Timeout(p) PROVE StartUpChecksHold'
  BY <1>27, <1>b DEF Timeout, Goto
<1>28. ASSUME NEW t \in PoolThreads, AnswerFinish(t) PROVE StartUpChecksHold'
  BY <1>28, <1>a DEF AnswerFinish
<1>29. ASSUME NEW s \in Servers, SendTerminated(s) PROVE StartUpChecksHold'
  BY <1>29, <1>b DEF SendTerminated, Goto
<1> QED
  BY <1>1, <1>2, <1>3, <1>4, <1>5, <1>6, <1>7, <1>8, <1>9, <1>10, <1>11, <1>12, <1>13, <1>14, <1>15, <1>16, <1>17, <1>18, <1>19, <1>20, <1>21, <1>22, <1>23, <1>24, <1>25, <1>26, <1>27, <1>28, <1>29, NextIsStep DEF Step

(***************************************************************************)
(* With a pool of one thread no CHECK of the start-up and termination code *)
(* fails: of set_num_nodes (hashfrag.h:23), of MasterTerminate             *)
(* (terminate.h:22, 26), of serialize (hashfrag.h:89), of the route        *)
(* (transfer.h:97) and of ~Transfer (transfer.h:244).  With two threads    *)
(* the first one can fail: a run shows it.                                 *)
(***************************************************************************)
THEOREM ChecksHold ==
    ASSUME OneThread
    PROVE  Spec => []StartUpChecksHold
<1>1. Init => StartUpChecksHold
  BY DEF Init, StartUpChecksHold
<1>2. /\ TypeInv /\ RegInv /\ PhaseInv /\ StopInv
      /\ StartUpChecksHold /\ [Next]_vars
      => StartUpChecksHold'
  <2>1. ASSUME UNCHANGED vars, StartUpChecksHold PROVE StartUpChecksHold'
    BY <2>1 DEF vars, StartUpChecksHold
  <2> QED
    BY <2>1, OneThread, ChecksStep
<1> QED
  BY <1>1, <1>2, AlwaysTyped, AlwaysRegistered, AlwaysInPhase, AlwaysStopping, PTL DEF Spec

-----------------------------------------------------------------------------
(* The message classes.                                                    *)

LEMMA KnownInit == Init => KnownInv
<1> SUFFICES ASSUME Init PROVE KnownInv
  OBVIOUS
<1>1. ClassesInv
  BY DEF Init, ClassesInv, HasClasses, MasterPlaces, ServerPlaces, PullPlaces, PushPlaces,
     ServingPlaces
<1>2. RoundsInv
  BY DEF Init, RoundsInv
<1> QED
  BY <1>1, <1>2 DEF KnownInv

LEMMA AddsKnown ==
    ASSUME NEW p \in Processes, AddsClass(p), PlacesOK, HasClasses(p, pc[p], classes[p])
    PROVE  /\ \E place : /\ pc' = [pc EXCEPT ![p] = place]
                         /\ HasClasses(p, place, classes'[p])
           /\ \A q \in Processes : q # p => classes'[q] = classes[q]
<1>1. Master \notin Servers
  BY AllProcesses
<1>2. /\ AddingPlace["pull"] = "adding pull" /\ AddingPlace["push"] = "adding push"
      /\ AddingPlace["terminate"] = "adding terminate"
      /\ AddingPlace["finish"] = "adding finish"
  BY DEF AddingPlace
<1> HIDE DEF AddingPlace
<1>3. classes \in [Processes -> SUBSET Classes]
  BY DEF PlacesOK
<1>4. \A q \in Processes : q # p => classes'[q] = classes[q]
  BY <1>3 DEF AddsClass, AwaitWorkers, InitPullMethod, InitPushMethod, AwaitMaster, AddClass
<1>a. ASSUME NEW class, NEW from, NEW to, AddClass(p, from, class, to)
      PROVE  \/ /\ pc[p] \in {from, AddingPlace[class]}
                /\ pc' = [pc EXCEPT ![p] = to] /\ classes'[p] = classes[p] \cup {class}
             \/ /\ pc[p] = from
                /\ pc' = [pc EXCEPT ![p] = AddingPlace[class]]
                /\ classes'[p] = classes[p]
  BY <1>3, <1>a DEF AddClass, Goto
<1>b. ASSUME NEW class, NEW from, NEW to, AddClass(p, from, class, to),
             pc[p] \in {from, AddingPlace[class]} =>
                HasClasses(p, to, classes[p] \cup {class}),
             pc[p] = from => HasClasses(p, AddingPlace[class], classes[p])
      PROVE  \E place : pc' = [pc EXCEPT ![p] = place] /\ HasClasses(p, place, classes'[p])
  <2>1. CASE /\ pc[p] \in {from, AddingPlace[class]}
             /\ pc' = [pc EXCEPT ![p] = to] /\ classes'[p] = classes[p] \cup {class}
    BY <1>b, <2>1
  <2>2. CASE /\ pc[p] = from
             /\ pc' = [pc EXCEPT ![p] = AddingPlace[class]] /\ classes'[p] = classes[p]
    BY <1>b, <2>2
  <2> QED
    BY <1>a, <1>b, <2>1, <2>2
<1> USE DEF HasClasses, MasterPlaces, ServerPlaces, PullPlaces, PushPlaces, ServingPlaces,
        Ended, Failed
<1>5. CASE p = Master /\ AwaitWorkers
  <2>1. pc[p] \in {"terminating", "adding finish"} =>
           /\ HasClasses(p, "await workers", classes[p] \cup {"finish"})
           /\ HasClasses(p, "adding finish", classes[p])
    BY <1>1, <1>5
  <2> QED
    BY <1>2, <1>4, <1>5, <1>b, <2>1 DEF AwaitWorkers
<1>6. CASE p \in Servers /\ InitPullMethod(p)
  <2>1. pc[p] \in {"inited", "adding pull"} =>
           /\ HasClasses(p, "pull ready", classes[p] \cup {"pull"})
           /\ HasClasses(p, "adding pull", classes[p])
    BY <1>1, <1>6
  <2> QED
    BY <1>2, <1>4, <1>6, <1>b, <2>1 DEF InitPullMethod
<1>7. CASE p \in Servers /\ InitPushMethod(p)
  <2>1. pc[p] \in {"pull ready", "adding push"} =>
           /\ HasClasses(p, "push ready", classes[p] \cup {"push"})
           /\ HasClasses(p, "adding push", classes[p])
    BY <1>1, <1>7
  <2> QED
    BY <1>2, <1>4, <1>7, <1>b, <2>1 DEF InitPushMethod
<1>8. CASE p \in Servers /\ AwaitMaster(p)
  <2>1. pc[p] \in {"push ready", "adding terminate"} =>
           /\ HasClasses(p, "serving", classes[p] \cup {"terminate"})
           /\ HasClasses(p, "adding terminate", classes[p])
    BY <1>1, <1>8
  <2> QED
    BY <1>2, <1>4, <1>8, <1>b, <2>1 DEF AwaitMaster
<1> QED
  BY <1>5, <1>6, <1>7, <1>8 DEF AddsClass

LEMMA KnownStep ==
    ASSUME TypeInv, KnownInv, Next
    PROVE  KnownInv'
<1>0. /\ pc \in [Processes -> Places] /\ classes \in [Processes -> SUBSET Classes]
      /\ \A p \in Processes : HasClasses(p, pc[p], classes[p])
      /\ PlacesOK
  BY DEF TypeInv, VarsOK, PlacesOK, KnownInv, ClassesInv
<1>k. UNCHANGED <<waiting, frags>> => RoundsInv'
  BY DEF KnownInv, RoundsInv
<1>a. UNCHANGED <<pc, classes>> => ClassesInv'
  BY <1>0 DEF ClassesInv
<1>b. ASSUME NEW p \in Processes, NEW place, pc' = [pc EXCEPT ![p] = place],
             \A q \in Processes : q # p => classes'[q] = classes[q],
             HasClasses(p, place, classes'[p])
      PROVE  ClassesInv'
  BY <1>0, <1>b DEF ClassesInv
<1>m. Master \in Processes /\ Master \notin Servers
  BY AllProcesses
<1>n. \A n \in Nodes : n \in Processes /\ n # Master
  BY AllProcesses
<1>s. \A s \in Servers : s \in Processes /\ s # Master
  BY AllProcesses
<1>w. \A w \in Workers : w \in Processes /\ w # Master /\ w \notin Servers
  BY AllProcesses
<1>e. ASSUME NEW p \in Processes, NEW place \in Ended, pc' = [pc EXCEPT ![p] = place],
             UNCHANGED classes
      PROVE  ClassesInv'
  <2>1. HasClasses(p, place, classes'[p])
    BY <1>0, <1>e, <1>m DEF HasClasses, Ended, Failed, MasterPlaces, PullPlaces, PushPlaces, ServingPlaces
  <2> QED
    BY <1>b, <1>e, <2>1
<1>x. {"failed check", "unknown class", "timeout", "gone"} \subseteq Ended
  BY DEF Ended, Failed
\* The master goes on, with its first classes.
<1>p. ASSUME NEW place \in {"routing", "totals", "terminating"},
             pc' = [pc EXCEPT ![Master] = place], UNCHANGED classes,
             pc[Master] \in {"waiting", "routing", "totals"}
      PROVE  ClassesInv'
  <2>1. {"init_address", "hashfrag"} \subseteq classes[Master]
    BY <1>0, <1>m, <1>p DEF HasClasses, Ended, Failed
  <2>2. HasClasses(Master, place, classes'[Master])
    BY <1>m, <1>p, <2>1 DEF HasClasses, MasterPlaces
  <2> QED
    BY <1>b, <1>m, <1>p, <2>2
\* A node goes on before it registers a class.
<1>q. ASSUME NEW n \in Nodes, NEW place \in {"registering", "asking", "inited"},
             pc' = [pc EXCEPT ![n] = place], UNCHANGED classes
      PROVE  ClassesInv'
  <2>1. HasClasses(n, place, classes'[n])
    BY <1>0, <1>n, <1>q DEF HasClasses, ServerPlaces, PullPlaces, PushPlaces, ServingPlaces
  <2> QED
    BY <1>b, <1>n, <1>q, <2>1
<1>r. ASSUME NEW s \in Servers, NEW place \in ServingPlaces,
             pc' = [pc EXCEPT ![s] = place], UNCHANGED classes,
             {"pull", "push", "terminate"} \subseteq classes[s]
      PROVE  ClassesInv'
  <2>1. HasClasses(s, place, classes'[s])
    BY <1>s, <1>r DEF HasClasses, ServerPlaces, PullPlaces, PushPlaces, ServingPlaces
  <2> QED
    BY <1>b, <1>s, <1>r, <2>1
<1>v. ASSUME NEW w \in Workers, NEW place, pc' = [pc EXCEPT ![w] = place], UNCHANGED classes
      PROVE  ClassesInv'
  <2>1. HasClasses(w, place, classes'[w])
    BY <1>w DEF HasClasses
  <2> QED
    BY <1>b, <1>w, <1>v, <2>1
<1> USE DEF KnownInv
<1>1. ASSUME RegisterMessageClass PROVE KnownInv'
  <2>1. classes'[Master] = {"init_address", "hashfrag"}
    BY <1>1, <1>0, <1>m DEF RegisterMessageClass
  <2>2. HasClasses(Master, "waiting", classes'[Master])
    BY <1>m, <2>1 DEF HasClasses, MasterPlaces
  <2>3. \A q \in Processes : q # Master => classes'[q] = classes[q]
    BY <1>1, <1>0 DEF RegisterMessageClass
  <2> QED
    BY <1>1, <1>b, <1>k, <1>m, <2>2, <2>3 DEF RegisterMessageClass, Goto, training
<1>2. ASSUME InitHashfrag PROVE KnownInv'
  <2>1. \A w \in Workers : frags'[w] = frags[w]
    BY <1>2, <1>w DEF InitHashfrag, TypeInv, VarsOK, RoutesOK
  <2>2. RoundsInv'
    BY <1>2, <2>1 DEF InitHashfrag, training, RoundsInv
  <2>3. \/ pc' = [pc EXCEPT ![Master] = "routing"]
        \/ pc' = [pc EXCEPT ![Master] = "failed check"]
    BY <1>2 DEF InitHashfrag, Goto
  <2>4. ClassesInv'
    BY <1>2, <2>3, <1>e, <1>x, <1>m, <1>p DEF InitHashfrag
  <2> QED
    BY <2>2, <2>4
<1>3. ASSUME SetWorkerNum PROVE KnownInv'
  BY <1>3, <1>e, <1>x, <1>m, <1>p, <1>k DEF SetWorkerNum, Goto, training
<1>4. ASSUME SetServerNum PROVE KnownInv'
  BY <1>4, <1>e, <1>x, <1>m, <1>p, <1>k DEF SetServerNum, Goto, training
<1>5. ASSUME LeaveMaster PROVE KnownInv'
  BY <1>5, <1>e, <1>x, <1>m, <1>k DEF LeaveMaster, Goto, training
<1>6. ASSUME NEW n \in Nodes, SendRoute(n) PROVE KnownInv'
  BY <1>6, <1>a, <1>k DEF SendRoute, training
<1>7. ASSUME NEW s \in Servers, TellServer(s) PROVE KnownInv'
  BY <1>7, <1>a, <1>k DEF TellServer, training
<1>8. ASSUME NEW t \in PoolThreads, NEW m \in msgs, AssignId(t, m) PROVE KnownInv'
  BY <1>8, <1>a, <1>k DEF AssignId, training
<1>9. ASSUME NEW t \in PoolThreads, CountNode(t) PROVE KnownInv'
  BY <1>9, <1>a, <1>k DEF CountNode, training
<1>10. ASSUME NEW t \in PoolThreads, CountServer(t) PROVE KnownInv'
  BY <1>10, <1>a, <1>k DEF CountServer, training
<1>11. ASSUME NEW t \in PoolThreads, CompareCount(t) PROVE KnownInv'
  BY <1>11, <1>a, <1>k DEF CompareCount, training
<1>12. ASSUME NEW m \in msgs, HandleAskHashfrag(m) PROVE KnownInv'
  BY <1>12, <1>a, <1>e, <1>x, <1>m, <1>k DEF HandleAskHashfrag, Goto, training
<1>13. ASSUME NEW t \in PoolThreads, NEW m \in msgs, HandleFinish(t, m) PROVE KnownInv'
  BY <1>13, <1>a, <1>k DEF HandleFinish, training
<1>14. ASSUME NEW m \in msgs, GetTerminated(m) PROVE KnownInv'
  BY <1>14, <1>a, <1>k DEF GetTerminated, training
<1>15. ASSUME NEW n \in Nodes, RegisterLocalNode(n) PROVE KnownInv'
  BY <1>15, <1>q, <1>k DEF RegisterLocalNode, Goto, training
<1>16. ASSUME NEW n \in Nodes, NEW m \in msgs, AskHashfrag(n, m) PROVE KnownInv'
  BY <1>16, <1>q, <1>k DEF AskHashfrag, Goto, training
<1>17. ASSUME NEW n \in Nodes, NEW m \in msgs, GetHashfrag(n, m) PROVE KnownInv'
  <2>1. m.type = "response" /\ m.class = "hashfrag"
    BY <1>17 DEF GetHashfrag, IsAnswer
  <2>2. PICK v \in Nat : v > 0 /\ m.load = {v}
    BY <1>17, <2>1 DEF TypeInv, MessageOK
  <2>3. (CHOOSE servers \in m.load : TRUE) = v
    BY <2>2
  <2>4. frags' = [frags EXCEPT ![n] = v]
    BY <1>17, <2>3 DEF GetHashfrag
  <2>5. \A w \in Workers : frags[w] > 0 => frags'[w] > 0
    BY <1>w, <2>2, <2>4 DEF TypeInv, VarsOK, RoutesOK
  <2>6. RoundsInv'
    BY <1>17, <2>5 DEF GetHashfrag, training, RoundsInv
  <2> QED
    BY <1>17, <1>q, <2>6 DEF GetHashfrag, Goto
<1>18. ASSUME NEW p \in Processes, AddsClass(p) PROVE KnownInv'
  <2>1. /\ \E place : /\ pc' = [pc EXCEPT ![p] = place]
                      /\ HasClasses(p, place, classes'[p])
        /\ \A q \in Processes : q # p => classes'[q] = classes[q]
    BY <1>0, <1>18, AddsKnown
  <2>2. UNCHANGED <<frags, waiting>>
    BY <1>18, AddsClassFacts DEF training
  <2> QED
    BY <1>b, <1>k, <2>1, <2>2
<1>19. ASSUME NEW s \in Servers, NEW m \in msgs, HandleAccess(s, m) PROVE KnownInv'
  BY <1>19, <1>a, <1>k DEF HandleAccess, training
<1>20. ASSUME NEW s \in Servers, NEW m \in msgs, HandleTerminate(s, m) PROVE KnownInv'
  <2>1. "terminate" \in classes[s]
    BY <1>20 DEF HandleTerminate, Arrives, Known
  <2>2. {"pull", "push", "terminate"} \subseteq classes[s]
    BY <1>0, <1>s, <2>1 DEF HasClasses
  <2>3. "told" \in ServingPlaces
    BY DEF ServingPlaces
  <2> QED
    BY <1>20, <2>2, <2>3, <1>r, <1>k DEF HandleTerminate, Goto, training
<1>21. ASSUME NEW s \in Servers, LeaveServer(s) PROVE KnownInv'
  BY <1>21, <1>e, <1>x, <1>s, <1>k DEF LeaveServer, Goto, training
<1>22. ASSUME NEW w \in Workers, NEW to \in (SUBSET OwnersFor(w)) \ {{}}, StartRound(w, to) PROVE KnownInv'
  <2>1. frags[w] > 0
    BY DEF OwnersFor
  <2>2. \A v \in Workers : v # w => waiting'[v] = waiting[v]
    BY <1>22 DEF StartRound, training, TypeInv, VarsOK, RoundsOK
  <2>3. RoundsInv'
    BY <1>22, <2>1, <2>2 DEF StartRound, RoundsInv
  <2> QED
    BY <1>22, <2>3, <1>a, <1>v DEF StartRound, Goto
<1>23. ASSUME NEW w \in Workers, SendFinish(w) PROVE KnownInv'
  BY <1>23, <1>v, <1>k DEF SendFinish, Goto, training
<1>24. ASSUME NEW w \in Workers, NEW m \in msgs, GetAccess(w, m) PROVE KnownInv'
  <2>1. \A v \in Workers : waiting'[v] \subseteq waiting[v]
    BY <1>24 DEF GetAccess, TypeInv, VarsOK, RoundsOK
  <2>2. RoundsInv'
    BY <1>24, <2>1 DEF GetAccess, RoundsInv
  <2> QED
    BY <1>24, <2>2, <1>a DEF GetAccess
<1>25. ASSUME NEW w \in Workers, NEW m \in msgs, LeaveWorker(w, m) PROVE KnownInv'
  BY <1>25, <1>v, <1>k DEF LeaveWorker, Goto, training
<1>26. ASSUME NEW m \in msgs, UnknownClass(m) PROVE KnownInv'
  <2>1. m.to \in Processes
    BY <1>26, <1>m, <1>n, <1>s DEF TypeInv, MessageOK, UnknownClass, Callee, Classes
  <2> QED
    BY <1>26, <2>1, <1>e, <1>x, <1>k DEF UnknownClass, Goto, training
<1>27. ASSUME NEW p \in Processes, Timeout(p) PROVE KnownInv'
  BY <1>27, <1>e, <1>x, <1>k DEF Timeout, Goto, training
<1>28. ASSUME NEW t \in PoolThreads, AnswerFinish(t) PROVE KnownInv'
  BY <1>28, <1>a, <1>k DEF AnswerFinish, training
<1>29. ASSUME NEW s \in Servers, SendTerminated(s) PROVE KnownInv'
  <2>1. {"pull", "push", "terminate"} \subseteq classes[s]
    BY <1>29, <1>0, <1>s DEF SendTerminated, HasClasses, PullPlaces, PushPlaces, ServingPlaces
  <2>2. "answered" \in ServingPlaces
    BY DEF ServingPlaces
  <2> QED
    BY <1>29, <2>1, <2>2, <1>r, <1>k DEF SendTerminated, Goto, training
<1> QED
  BY <1>1, <1>2, <1>3, <1>4, <1>5, <1>6, <1>7, <1>8, <1>9, <1>10, <1>11, <1>12, <1>13, <1>14, <1>15, <1>16, <1>17, <1>18, <1>19, <1>20, <1>21, <1>22, <1>23, <1>24, <1>25, <1>26, <1>27, <1>28, <1>29, NextIsStep DEF Step

LEMMA AlwaysKnown == Spec => []KnownInv
<1>1. TypeInv /\ KnownInv /\ [Next]_vars => KnownInv'
  <2>1. ASSUME UNCHANGED vars, KnownInv PROVE KnownInv'
    BY <2>1 DEF vars, training, KnownInv, ClassesInv, RoundsInv
  <2> QED
    BY <2>1, KnownStep
<1> QED
  BY <1>1, KnownInit, AlwaysTyped, PTL DEF Spec

\* A message other than a registration is sent when the table exists.
LEMMA CallsFollowTable ==
    ASSUME TypeInv, PhaseInv, TrainInv, StopInv, KnownInv,
           NEW m \in msgs, m.class # "init_address"
    PROVE  frags[Master] > 0
<1>1. MessageOK(m) /\ m.class \in Classes
  BY DEF TypeInv, MessageOK
<1>2. ASSUME NEW w \in Workers, pc[w] \in {"finishing", "gone"} PROVE frags[Master] > 0
  <2>1. w \in Nodes /\ Routed(w)
    BY <1>2, AllProcesses DEF Routed, Failed
  <2> QED
    BY <2>1 DEF PhaseInv, NodePhases
<1>3. CASE m.class = "hashfrag"
  BY <1>3 DEF PhaseInv, Loads
<1>4. CASE m.class = "finish"
  BY <1>1, <1>2, <1>4 DEF MessageOK, TrainInv, FinishInv
<1>5. CASE IsAccess(m)
  <2>1. Caller(m) \in Workers /\ Callee(m) \in waiting[Caller(m)]
    BY <1>1, <1>5 DEF MessageOK, TrainInv, AccessInv, IsAccess
  <2>2. frags[Caller(m)] > 0
    BY <2>1 DEF KnownInv, RoundsInv
  <2>3. Caller(m) \in Nodes
    BY <2>1, AllProcesses
  <2> QED
    BY <2>2, <2>3 DEF PhaseInv, NodePhases
<1>6. CASE m.class = "terminate"
  <2>1. told # {}
    BY <1>6 DEF StopInv, TerminateInv
  <2>2. \A w \in Workers : pc[w] \in {"finishing", "gone"}
    BY <2>1, NobodyTrains
  <2>3. PICK w \in Workers : TRUE
    BY ClusterAssumption
  <2> QED
    BY <1>2, <2>2, <2>3
<1> QED
  BY <1>1, <1>3, <1>4, <1>5, <1>6 DEF Classes, IsAccess

LEMMA EarlyOnes ==
    /\ EarlyPlaces["init_address"] = {"start"}
    /\ LET starting == {"registering", "asking", "inited", "adding pull"} IN
       /\ EarlyPlaces["pull"] = starting
       /\ EarlyPlaces["push"] = starting \cup {"pull ready", "adding push"}
       /\ EarlyPlaces["terminate"] = starting \cup {"pull ready", "adding push",
                                                    "push ready", "adding terminate"}
    /\ EarlyPlaces["finish"] = {"routing", "totals", "terminating", "adding finish"}
  BY DEF EarlyPlaces

(***************************************************************************)
(* MessageClass::get (transfer.h:43) misses only the classes of requests   *)
(* that come too early, however the processes are timed and however many   *)
(* threads the master's pool has: a registration at a master that has just *)
(* been started, a finish message before wait_for_all_workers_finish       *)
(* (master/terminate.h:58), and a pull, a push or the order to terminate   *)
(* at a server that is still between its registration and the adding of    *)
(* the class (SwiftServer.h).  Whoever asks for the hashfrag, or calls a   *)
(* server before it has registered with the master, is never the one.      *)
(***************************************************************************)
THEOREM OnlyEarlyCallsFail == Spec => []OnlyEarlyRequestsAreUnknown
<1>1. TypeInv /\ RegInv /\ PhaseInv /\ TrainInv /\ StopInv /\ KnownInv
      => OnlyEarlyRequestsAreUnknown
  <2> SUFFICES ASSUME TypeInv, RegInv, PhaseInv, TrainInv, StopInv, KnownInv,
                      NEW m \in msgs, m.type = "request", Up(m.to), ~Known(m)
               PROVE  pc[m.to] \in EarlyPlaces[m.class]
    BY DEF OnlyEarlyRequestsAreUnknown
  <2>1. MessageOK(m) /\ m.class \in Classes /\ Callee(m) = m.to
    BY DEF TypeInv, MessageOK, Callee
  <2>2. pc[m.to] \notin Ended /\ m.class \notin classes[m.to]
    BY DEF Up, Known
  <2>3. /\ HasClasses(Master, pc[Master], classes[Master])
        /\ \A s \in Servers : HasClasses(s, pc[s], classes[s])
    BY AllProcesses DEF KnownInv, ClassesInv
  <2>4. CASE m.class = "init_address"
    <3>1. m.to = Master
      BY <2>1, <2>4 DEF MessageOK
    <3>2. pc[Master] = "start"
      BY <2>2, <2>3, <2>4, <3>1 DEF HasClasses
    <3> QED
      BY <2>4, <3>1, <3>2, EarlyOnes
  <2>5. m.class # "init_address" => frags[Master] > 0
    BY CallsFollowTable
  <2>6. m.class # "init_address" => pc[Master] \notin {"start", "waiting"}
    <3>1. pc[Master] \in {"start", "waiting"} => frags[Master] = 0
      BY DEF PhaseInv, MasterPhases
    <3>2. ~(0 > 0)
      OBVIOUS
    <3> QED
      BY <2>5, <3>1, <3>2
  <2>7. CASE m.class = "hashfrag"
    <3>1. m.to = Master
      BY <2>1, <2>7 DEF MessageOK
    <3> QED
      BY <2>2, <2>3, <2>6, <2>7, <3>1 DEF HasClasses
  <2>8. CASE m.class = "finish"
    <3>1. m.to = Master
      BY <2>1, <2>8 DEF MessageOK
    <3>2. pc[Master] \in {"routing", "totals", "terminating", "adding finish"}
      BY <2>2, <2>3, <2>6, <2>8, <3>1 DEF HasClasses, MasterPlaces
    <3> QED
      BY <2>8, <3>1, <3>2, EarlyOnes
  <2>9. CASE m.class \in {"pull", "push", "terminate"}
    <3>1. m.to \in Servers
      <4>1. CASE IsAccess(m)
        <5>1. Caller(m) \in Workers /\ m.to \in waiting[Caller(m)]
          BY <2>1, <4>1 DEF MessageOK, TrainInv, AccessInv, IsAccess
        <5> QED
          BY <5>1 DEF TrainInv, AccessInv
      <4>2. CASE m.class = "terminate"
        BY <2>1, <4>2 DEF MessageOK
      <4> QED
        BY <2>9, <4>1, <4>2 DEF IsAccess
    <3>2. allHere
      BY <2>5, <2>9 DEF PhaseInv, MasterPhases
    <3>3. m.to \in Nodes /\ CountedNodes = Nodes
      BY <3>1, <3>2, AllProcesses DEF RegInv, CountsInv
    <3>4. ids[m.to] # 0
      BY <3>3 DEF CountedNodes
    <3>5. pc[m.to] # "start"
      BY <3>3, <3>4 DEF RegInv, Fresh
    <3>6. HasClasses(m.to, pc[m.to], classes[m.to])
      BY <2>3, <3>1
    <3>7. CASE m.class = "pull"
      <4>1. pc[m.to] \in {"registering", "asking", "inited", "adding pull"}
        BY <2>2, <3>1, <3>5, <3>6, <3>7 DEF HasClasses, ServerPlaces, PullPlaces
      <4> QED
        BY <3>7, <4>1, EarlyOnes
    <3>8. CASE m.class = "push"
      <4>1. pc[m.to] \in {"registering", "asking", "inited", "adding pull", "pull ready",
                          "adding push"}
        BY <2>2, <3>1, <3>5, <3>6, <3>8 DEF HasClasses, ServerPlaces, PullPlaces, PushPlaces
      <4> QED
        BY <3>8, <4>1, EarlyOnes
    <3>9. CASE m.class = "terminate"
      <4>1. pc[m.to] \in {"registering", "asking", "inited", "adding pull", "pull ready",
                          "adding push", "push ready", "adding terminate"}
        BY <2>2, <3>1, <3>5, <3>6, <3>9 DEF HasClasses, ServerPlaces, ServingPlaces
      <4> QED
        BY <3>9, <4>1, EarlyOnes
    <3> QED
      BY <2>9, <3>7, <3>8, <3>9
  <2> QED
    BY <2>1, <2>4, <2>7, <2>8, <2>9 DEF Classes
<1> QED
  BY <1>1, AlwaysTyped, AlwaysRegistered, AlwaysInPhase, AlwaysTraining, AlwaysStopping,
     AlwaysKnown, PTL

-----------------------------------------------------------------------------
(* What is owed: who waits is answered.                                    *)

\* What most steps leave alone.
SameAskers ==
    /\ \A n \in Nodes : /\ pc'[n] = "registering" => pc[n] = "registering"
                        /\ pc'[n] = "asking" => pc[n] = "asking"
    /\ pc'[Master] \in Routing \ {"routing"} => pc[Master] \in Routing \ {"routing"}
OfStart(m) == m.class \in {"init_address", "hashfrag"}
KeptCalls == \A m \in msgs : OfStart(m) => m \in msgs'
QuietForAsking ==
    UNCHANGED <<ids, routed>> /\ SameAskers /\ KeptCalls

LEMMA AskSteps ==
    ASSUME TypeInv, Next
    PROVE  \/ QuietForAsking
           \/ SetWorkerNum
           \/ \E n \in Nodes : RegisterLocalNode(n) \/ SendRoute(n)
           \/ \E t \in PoolThreads, m \in msgs : AssignId(t, m)
           \/ \E m \in msgs : HandleAskHashfrag(m)
           \/ \E n \in Nodes, m \in msgs : AskHashfrag(n, m) \/ GetHashfrag(n, m)
<1>a. UNCHANGED pc => SameAskers
  BY DEF SameAskers
<1>b. ASSUME NEW p \in Processes, NEW place, pc' = [pc EXCEPT ![p] = place],
             place \notin {"registering", "asking"},
             \/ p \in Nodes
             \/ place \in {"waiting", "routing"} \cup Failed
             \/ pc[Master] \in Routing \ {"routing"}
      PROVE  SameAskers
  <2>1. /\ pc'[p] = place
        /\ \A q \in Processes : q # p => pc'[q] = pc[q]
    BY <1>b DEF TypeInv, VarsOK, PlacesOK
  <2>2. ({"waiting", "routing"} \cup Failed) \cap (Routing \ {"routing"}) = {}
    BY DEF Failed, Routing
  <2> QED
    BY <1>b, <2>1, <2>2, AllProcesses DEF SameAskers
<1>c. msgs \subseteq msgs' => KeptCalls
  BY DEF KeptCalls
<1>d. ASSUME NEW x, ~OfStart(x), msgs \ {x} \subseteq msgs'
      PROVE  KeptCalls
  BY <1>d DEF KeptCalls
<1>h. \A class, from, to : Request(class, from, to).class = class
  BY RequestFields
<1>k. /\ Master \in Processes
      /\ \A s \in Servers : s \in Nodes /\ s \in Processes
      /\ \A w \in Workers : w \in Nodes /\ w \in Processes
  BY AllProcesses
<1>1. ASSUME RegisterMessageClass PROVE QuietForAsking
  <2>1. SameAskers
    BY <1>1, <1>b, <1>k DEF RegisterMessageClass, Goto, Failed, Routing
  <2>2. KeptCalls
    BY <1>1, <1>c DEF RegisterMessageClass
  <2> QED
    BY <1>1, <2>1, <2>2 DEF RegisterMessageClass, registration, QuietForAsking
<1>2. ASSUME InitHashfrag PROVE QuietForAsking
  <2>1. SameAskers
    <3>1. \E place \in {"routing", "failed check"} : pc' = [pc EXCEPT ![Master] = place]
      BY <1>2 DEF InitHashfrag, Goto
    <3> QED
      BY <3>1, <1>b, <1>k DEF Failed
  <2>2. KeptCalls
    BY <1>2, <1>c DEF InitHashfrag
  <2> QED
    BY <1>2, <2>1, <2>2 DEF InitHashfrag, registration, QuietForAsking
<1>3. ASSUME SetServerNum PROVE QuietForAsking
  <2>1. SameAskers
    BY <1>3, <1>b, <1>k DEF SetServerNum, Goto, Failed, Routing
  <2>2. KeptCalls
    BY <1>3, <1>c DEF SetServerNum
  <2> QED
    BY <1>3, <2>1, <2>2 DEF SetServerNum, registration, QuietForAsking
<1>4. ASSUME LeaveMaster PROVE QuietForAsking
  <2>1. SameAskers
    BY <1>4, <1>b, <1>k DEF LeaveMaster, Goto, Failed, Routing
  <2>2. KeptCalls
    BY <1>4, <1>c DEF LeaveMaster
  <2> QED
    BY <1>4, <2>1, <2>2 DEF LeaveMaster, registration, QuietForAsking
<1>5. ASSUME NEW s \in Servers, TellServer(s) PROVE QuietForAsking
  <2>1. SameAskers
    BY <1>5, <1>a DEF TellServer
  <2>2. KeptCalls
    BY <1>5, <1>c DEF TellServer
  <2> QED
    BY <1>5, <2>1, <2>2 DEF TellServer, registration, QuietForAsking
<1>6. ASSUME NEW t \in PoolThreads, CountNode(t) PROVE QuietForAsking
  <2>1. SameAskers
    BY <1>6, <1>a DEF CountNode
  <2>2. KeptCalls
    BY <1>6, <1>c DEF CountNode
  <2> QED
    BY <1>6, <2>1, <2>2 DEF CountNode, registration, QuietForAsking
<1>7. ASSUME NEW t \in PoolThreads, CountServer(t) PROVE QuietForAsking
  <2>1. SameAskers
    BY <1>7, <1>a DEF CountServer
  <2>2. KeptCalls
    BY <1>7, <1>c DEF CountServer
  <2> QED
    BY <1>7, <2>1, <2>2 DEF CountServer, registration, QuietForAsking
<1>8. ASSUME NEW t \in PoolThreads, CompareCount(t) PROVE QuietForAsking
  <2>1. SameAskers
    BY <1>8, <1>a DEF CompareCount
  <2>2. KeptCalls
    BY <1>8, <1>c DEF CompareCount
  <2> QED
    BY <1>8, <2>1, <2>2 DEF CompareCount, registration, QuietForAsking
<1>9. ASSUME NEW t \in PoolThreads, NEW m \in msgs, HandleFinish(t, m) PROVE QuietForAsking
  <2>1. SameAskers
    BY <1>9, <1>a DEF HandleFinish
  <2>2. KeptCalls
    BY <1>9, <1>d, <1>h DEF HandleFinish, Arrives, OfStart
  <2> QED
    BY <1>9, <2>1, <2>2 DEF HandleFinish, registration, QuietForAsking
<1>10. ASSUME NEW m \in msgs, GetTerminated(m) PROVE QuietForAsking
  <2>1. SameAskers
    BY <1>10, <1>a DEF GetTerminated
  <2>2. KeptCalls
    BY <1>10, <1>d, <1>h DEF GetTerminated, IsAnswer, OfStart
  <2> QED
    BY <1>10, <2>1, <2>2 DEF GetTerminated, registration, QuietForAsking
<1>11. ASSUME NEW s \in Servers, NEW m \in msgs, HandleAccess(s, m) PROVE QuietForAsking
  <2>1. SameAskers
    BY <1>11, <1>a DEF HandleAccess
  <2>2. KeptCalls
    BY <1>11, <1>d, <1>h DEF HandleAccess, Answer, Arrives, OfStart
  <2> QED
    BY <1>11, <2>1, <2>2 DEF HandleAccess, registration, QuietForAsking
<1>12. ASSUME NEW s \in Servers, NEW m \in msgs, HandleTerminate(s, m) PROVE QuietForAsking
  <2>1. SameAskers
    <3>1. pc' = [pc EXCEPT ![s] = "told"] /\ s \in Processes /\ s \in Nodes
      BY <1>12, <1>k DEF HandleTerminate, Goto
    <3> QED
      BY <3>1, <1>b
  <2>2. KeptCalls
    BY <1>12, <1>d DEF HandleTerminate, Arrives, OfStart
  <2> QED
    BY <1>12, <2>1, <2>2 DEF HandleTerminate, registration, QuietForAsking
<1>13. ASSUME NEW s \in Servers, LeaveServer(s) PROVE QuietForAsking
  <2>1. SameAskers
    BY <1>13, <1>b, <1>k DEF LeaveServer, Goto, Failed, Routing
  <2>2. KeptCalls
    BY <1>13, <1>c DEF LeaveServer
  <2> QED
    BY <1>13, <2>1, <2>2 DEF LeaveServer, registration, QuietForAsking
<1>14. ASSUME NEW w \in Workers, NEW to \in (SUBSET OwnersFor(w)) \ {{}}, StartRound(w, to) PROVE QuietForAsking
  <2>1. SameAskers
    BY <1>14, <1>a, <1>b, <1>k DEF StartRound, Goto, Failed
  <2>2. KeptCalls
    BY <1>14, <1>c DEF StartRound
  <2> QED
    BY <1>14, <2>1, <2>2 DEF StartRound, registration, QuietForAsking
<1>15. ASSUME NEW w \in Workers, SendFinish(w) PROVE QuietForAsking
  <2>1. SameAskers
    BY <1>15, <1>b, <1>k DEF SendFinish, Goto, Failed, Routing
  <2>2. KeptCalls
    BY <1>15, <1>c DEF SendFinish
  <2> QED
    BY <1>15, <2>1, <2>2 DEF SendFinish, registration, QuietForAsking
<1>16. ASSUME NEW w \in Workers, NEW m \in msgs, GetAccess(w, m) PROVE QuietForAsking
  <2>1. SameAskers
    BY <1>16, <1>a DEF GetAccess
  <2>2. KeptCalls
    BY <1>16, <1>d, <1>h DEF GetAccess, IsAnswer, OfStart
  <2> QED
    BY <1>16, <2>1, <2>2 DEF GetAccess, registration, QuietForAsking
<1>17. ASSUME NEW w \in Workers, NEW m \in msgs, LeaveWorker(w, m) PROVE QuietForAsking
  <2>1. SameAskers
    BY <1>17, <1>b, <1>k DEF LeaveWorker, Goto, Failed, Routing
  <2>2. KeptCalls
    BY <1>17, <1>d, <1>h DEF LeaveWorker, IsAnswer, OfStart
  <2> QED
    BY <1>17, <2>1, <2>2 DEF LeaveWorker, registration, QuietForAsking
<1>18. ASSUME NEW p \in Processes, Timeout(p) PROVE QuietForAsking
  <2>1. SameAskers
    BY <1>18, <1>b, <1>k DEF Timeout, Goto, Failed, Routing
  <2>2. KeptCalls
    BY <1>18, <1>c DEF Timeout
  <2> QED
    BY <1>18, <2>1, <2>2 DEF Timeout, registration, QuietForAsking
<1>19. ASSUME NEW p \in Processes, AddsClass(p) PROVE QuietForAsking
  <2>1. SameAskers
    <3>1. CASE p = Master
      BY <1>19, <3>1, <1>b, AddsClassFacts DEF Routing
    <3>2. CASE p \in Servers
      BY <1>19, <3>2, <1>b, <1>k, AddsClassFacts
    <3> QED
      BY <1>19, <3>1, <3>2, AddsClassFacts
  <2>2. UNCHANGED <<msgs, registration, routed>>
    BY <1>19, AddsClassFacts
  <2> QED
    BY <2>1, <2>2, <1>c DEF registration, QuietForAsking
<1>20. ASSUME NEW m \in msgs, UnknownClass(m) PROVE QuietForAsking
  <2>1. m.to \in Processes
    BY <1>20, AllProcesses DEF UnknownClass, TypeInv, MessageOK, Classes, Callee
  <2>2. SameAskers
    <3>1. PICK p \in Processes, place \in Failed : pc' = [pc EXCEPT ![p] = place]
      BY <1>20, <2>1 DEF UnknownClass, Goto, Failed
    <3>2. place \notin {"registering", "asking"}
      BY DEF Failed
    <3> QED
      BY <3>1, <3>2, <1>b
  <2> QED
    BY <1>20, <2>2, <1>c DEF UnknownClass, registration, QuietForAsking
<1>21. ASSUME NEW t \in PoolThreads, AnswerFinish(t) PROVE QuietForAsking
  <2>1. SameAskers
    BY <1>21, <1>a DEF AnswerFinish
  <2>2. KeptCalls
    BY <1>21, <1>c DEF AnswerFinish
  <2> QED
    BY <1>21, <2>1, <2>2 DEF AnswerFinish, QuietForAsking
<1>22. ASSUME NEW s \in Servers, SendTerminated(s) PROVE QuietForAsking
  <2>1. SameAskers
    BY <1>22, <1>b, <1>k DEF SendTerminated, Goto
  <2>2. KeptCalls
    BY <1>22, <1>c DEF SendTerminated
  <2> QED
    BY <1>22, <2>1, <2>2 DEF SendTerminated, registration, QuietForAsking
<1> QED
  BY <1>1, <1>2, <1>3, <1>4, <1>5, <1>6, <1>7, <1>8, <1>9, <1>10, <1>11, <1>12, <1>13, <1>14, <1>15, <1>16, <1>17, <1>18, <1>19, <1>20,
     <1>21, <1>22, NextIsStep DEF Step

LEMMA AskInit == Init => AskInv
<1> SUFFICES ASSUME Init PROVE AskInv
  OBVIOUS
<1>1. routed = {} /\ \A p \in Processes : pc[p] = "start"
  BY DEF Init
<1>2. RoutedInv
  BY <1>1, AllProcesses DEF RoutedInv, Routing
<1>3. AskingInv
  BY <1>1, AllProcesses DEF AskingInv
<1> QED
  BY <1>2, <1>3 DEF AskInv

LEMMA AskQuiet ==
    ASSUME AskInv, QuietForAsking
    PROVE  AskInv'
<1>1. RoutedInv'
  BY DEF QuietForAsking, SameAskers, AskInv, RoutedInv, Assigned
<1>2. ASSUME NEW n \in Nodes, pc'[n] = "registering"
      PROVE  RegisteringIsOwed(n)'
  <2>1. RegisteringIsOwed(n)
    BY <1>2 DEF QuietForAsking, SameAskers, AskInv, AskingInv
  <2>2. Request("init_address", n, Master).class = "init_address"
    BY RequestFields
  <2> QED
    BY <2>1, <2>2 DEF RegisteringIsOwed, QuietForAsking, KeptCalls, OfStart
<1>3. ASSUME NEW n \in Nodes, pc'[n] = "asking"
      PROVE  \E m \in msgs' : m.class = "hashfrag" /\ Caller(m) = n
  BY <1>3 DEF QuietForAsking, SameAskers, KeptCalls, OfStart, AskInv, AskingInv
<1> QED
  BY <1>1, <1>2, <1>3 DEF AskInv, AskingInv

\* Nothing is owed to others by a step of one node, or for one node: the
\* calls of the others stay.
LEMMA AskOthers ==
    ASSUME AskInv, NEW n \in Nodes, NEW k \in Nodes, k # n,
           pc'[k] = pc[k], ids'[k] = ids[k], k \in routed' => k \in routed,
           \A m \in msgs : OfStart(m) /\ Caller(m) = k => m \in msgs'
    PROVE  /\ pc'[k] = "registering" => RegisteringIsOwed(k)'
           /\ pc'[k] = "asking" =>
                 \E m \in msgs' : m.class = "hashfrag" /\ Caller(m) = k
<1>1. ASSUME pc'[k] = "registering"
      PROVE  RegisteringIsOwed(k)'
  <2>1. RegisteringIsOwed(k)
    BY <1>1 DEF AskInv, AskingInv
  <2>2. /\ OfStart(Request("init_address", k, Master))
        /\ Caller(Request("init_address", k, Master)) = k
    BY RequestFields DEF OfStart
  <2>3. \A m \in msgs : m.class = "init_address" /\ m.type = "response" /\ m.to = k
           => m \in msgs'
    BY DEF OfStart, Caller
  <2> QED
    BY <2>1, <2>2, <2>3 DEF RegisteringIsOwed
<1>2. ASSUME pc'[k] = "asking"
      PROVE  \E m \in msgs' : m.class = "hashfrag" /\ Caller(m) = k
  BY <1>2 DEF AskInv, AskingInv, OfStart
<1> QED
  BY <1>1, <1>2

LEMMA AskRegister ==
    ASSUME TypeInv, AskInv, NEW n \in Nodes, RegisterLocalNode(n)
    PROVE  AskInv'
<1>1. /\ UNCHANGED <<ids, routed>> /\ pc'[Master] = pc[Master]
      /\ pc'[n] = "registering" /\ \A k \in Nodes : k # n => pc'[k] = pc[k]
      /\ msgs' = msgs \cup {Request("init_address", n, Master)}
  BY NodeGoes DEF RegisterLocalNode, registration
<1>2. RoutedInv'
  BY <1>1 DEF AskInv, RoutedInv, Assigned
<1>3. RegisteringIsOwed(n)'
  BY <1>1 DEF RegisteringIsOwed
<1>4. \A k \in Nodes : k # n =>
           /\ pc'[k] = "registering" => RegisteringIsOwed(k)'
           /\ pc'[k] = "asking" =>
                 \E m \in msgs' : m.class = "hashfrag" /\ Caller(m) = k
  BY <1>1, AskOthers
<1> QED
  BY <1>1, <1>2, <1>3, <1>4 DEF AskInv, AskingInv

LEMMA AskAssign ==
    ASSUME TypeInv, RegInv, AskInv, NEW t \in PoolThreads, NEW m \in msgs, AssignId(t, m)
    PROVE  AskInv'
<1> DEFINE n == m.from
<1>1. /\ UNCHANGED <<pc, routed>> /\ msgs' = msgs \ {m}
      /\ m.type = "request" /\ m.class = "init_address" /\ Caller(m) = n
  BY DEF AssignId, Arrives, Caller
<1>2. n \in Nodes /\ ids[n] = 0
  BY TakenRequest
<1>3. ids'[n] # 0 /\ \A k \in Nodes : k # n => ids'[k] = ids[k]
  BY <1>2, TakenRequest, NextIds DEF TypeInv, VarsOK, CountersOK
<1>4. n \notin routed
  BY <1>2 DEF AskInv, RoutedInv, Assigned
<1>5. RoutedInv'
  BY <1>1, <1>2, <1>3 DEF AskInv, RoutedInv, Assigned
<1>6. RegisteringIsOwed(n)'
  BY <1>1, <1>3, <1>4 DEF RegisteringIsOwed
<1>7. pc'[n] = "asking" => \E k \in msgs' : k.class = "hashfrag" /\ Caller(k) = n
  BY <1>1, <1>2 DEF AskInv, AskingInv
<1>8. \A k \in Nodes : k # n =>
           /\ pc'[k] = "registering" => RegisteringIsOwed(k)'
           /\ pc'[k] = "asking" =>
                 \E x \in msgs' : x.class = "hashfrag" /\ Caller(x) = k
  BY <1>1, <1>2, <1>3, AskOthers
<1> QED
  BY <1>2, <1>5, <1>6, <1>7, <1>8 DEF AskInv, AskingInv

LEMMA AskSend ==
    ASSUME TypeInv, AskInv, NEW n \in Nodes, SendRoute(n)
    PROVE  AskInv'
<1>1. /\ UNCHANGED <<pc, ids>> /\ routed' = routed \cup {n} /\ pc[Master] = "routing"
      /\ n \in Assigned(Nodes)
  BY DEF SendRoute, registration
<1>2. PICK x : x = Response("init_address", Master, n, Assigned(Nodes))
  OBVIOUS
<1>3. /\ x.class = "init_address" /\ x.type = "response" /\ x.to = n
      /\ msgs' = msgs \cup {x}
  BY <1>2, ResponseFields DEF SendRoute
<1>4. RoutedInv'
  BY <1>1 DEF AskInv, RoutedInv, Assigned
<1>5. RegisteringIsOwed(n)'
  BY <1>3 DEF RegisteringIsOwed
<1>6. pc'[n] = "asking" => \E k \in msgs' : k.class = "hashfrag" /\ Caller(k) = n
  BY <1>1, <1>3 DEF AskInv, AskingInv
<1>7. \A k \in Nodes : k # n =>
           /\ pc'[k] = "registering" => RegisteringIsOwed(k)'
           /\ pc'[k] = "asking" =>
                 \E y \in msgs' : y.class = "hashfrag" /\ Caller(y) = k
  BY <1>1, <1>3, AskOthers
<1> QED
  BY <1>4, <1>5, <1>6, <1>7 DEF AskInv, AskingInv

\* send_route_to_workers returns when the route has been sent to all.
LEMMA AskTotals ==
    ASSUME TypeInv, RegInv, PhaseInv, AskInv, SetWorkerNum
    PROVE  AskInv'
<1>1. /\ UNCHANGED <<msgs, ids, routed>> /\ \A n \in Nodes : pc'[n] = pc[n]
      /\ pc[Master] = "routing" /\ routed = Assigned(Nodes)
  BY MasterGoes DEF SetWorkerNum, registration
<1>2. allHere
  BY <1>1 DEF PhaseInv, MasterPhases, Routing
<1>3. routed = Nodes
  BY <1>1, <1>2, AllAreHere
<1>4. RoutedInv'
  BY <1>1, <1>3 DEF RoutedInv, Assigned
<1>5. AskingInv'
  BY <1>1 DEF AskInv, AskingInv, RegisteringIsOwed
<1> QED
  BY <1>4, <1>5 DEF AskInv

LEMMA AskAnswer ==
    ASSUME TypeInv, AskInv, NEW m \in msgs, HandleAskHashfrag(m)
    PROVE  AskInv'
<1>1. /\ UNCHANGED <<ids, routed>> /\ m.type = "request" /\ m.class = "hashfrag"
      /\ Caller(m) \in Nodes /\ Caller(m) = m.from
  BY DEF HandleAskHashfrag, Arrives, registration, TypeInv, MessageOK, Caller
<1>2. CASE pc' = pc
  <2>1. PICK x : x = Response(m.class, m.to, m.from, {frags[Master]})
    OBVIOUS
  <2>2. x.class = "hashfrag" /\ Caller(x) = Caller(m)
    BY <1>1, <2>1, ResponseFields
  <2>3. (msgs \ {m}) \cup {x} \subseteq msgs' \/ UNCHANGED msgs
    BY <2>1 DEF HandleAskHashfrag, Answer
  <2>4. RoutedInv'
    BY <1>1, <1>2 DEF AskInv, RoutedInv, Assigned
  <2>5. ASSUME NEW n \in Nodes, pc'[n] = "registering"
        PROVE  RegisteringIsOwed(n)'
    <3>1. RegisteringIsOwed(n)
      BY <1>2, <2>5 DEF AskInv, AskingInv
    <3>2. Request("init_address", n, Master).class = "init_address"
      BY RequestFields
    <3> QED
      BY <1>1, <2>3, <3>1, <3>2 DEF RegisteringIsOwed
  <2>6. ASSUME NEW n \in Nodes, pc'[n] = "asking"
        PROVE  \E k \in msgs' : k.class = "hashfrag" /\ Caller(k) = n
    <3>1. PICK k \in msgs : k.class = "hashfrag" /\ Caller(k) = n
      BY <1>2, <2>6 DEF AskInv, AskingInv
    <3>2. k \in msgs' \/ (k = m /\ x \in msgs')
      BY <2>3
    <3> QED
      BY <2>2, <3>1, <3>2
  <2> QED
    BY <2>4, <2>5, <2>6 DEF AskInv, AskingInv
<1>3. CASE pc' # pc
  <2>1. UNCHANGED msgs /\ Goto(Master, "failed check")
    BY <1>3 DEF HandleAskHashfrag
  <2>2. pc'[Master] = "failed check" /\ \A n \in Nodes : pc'[n] = pc[n]
    BY <2>1, MasterGoes
  <2>3. RoutedInv'
    BY <1>1, <2>2 DEF AskInv, RoutedInv, Routing, Assigned
  <2>4. \A n \in Nodes : RegisteringIsOwed(n)' = RegisteringIsOwed(n)
    BY <1>1, <2>1 DEF RegisteringIsOwed
  <2>5. AskingInv'
    BY <2>1, <2>2, <2>4 DEF AskInv, AskingInv
  <2> QED
    BY <2>3, <2>5 DEF AskInv
<1> QED
  BY <1>2, <1>3

LEMMA AskRoute ==
    ASSUME TypeInv, AskInv, NEW n \in Nodes, NEW m \in msgs, AskHashfrag(n, m)
    PROVE  AskInv'
<1>1. /\ UNCHANGED <<ids, routed>> /\ pc'[Master] = pc[Master]
      /\ pc'[n] = "asking" /\ \A k \in Nodes : k # n => pc'[k] = pc[k]
      /\ m.type = "response" /\ m.to = n
  BY NodeGoes DEF AskHashfrag, IsAnswer, registration
<1>2. PICK x : x = Request("hashfrag", n, Master)
  OBVIOUS
<1>3. x.class = "hashfrag" /\ Caller(x) = n /\ Caller(m) = n
      /\ msgs' = (msgs \ {m}) \cup {x}
  BY <1>1, <1>2, RequestFields DEF AskHashfrag, Caller
<1>4. RoutedInv'
  BY <1>1 DEF AskInv, RoutedInv, Assigned
<1>5. \A k \in Nodes : k # n =>
           /\ pc'[k] = "registering" => RegisteringIsOwed(k)'
           /\ pc'[k] = "asking" =>
                 \E y \in msgs' : y.class = "hashfrag" /\ Caller(y) = k
  BY <1>1, <1>3, AskOthers
<1> QED
  BY <1>1, <1>3, <1>4, <1>5 DEF AskInv, AskingInv

LEMMA AskTable ==
    ASSUME TypeInv, AskInv, NEW n \in Nodes, NEW m \in msgs, GetHashfrag(n, m)
    PROVE  AskInv'
<1>1. /\ UNCHANGED <<ids, routed>> /\ pc'[Master] = pc[Master]
      /\ pc'[n] = "inited" /\ \A k \in Nodes : k # n => pc'[k] = pc[k]
      /\ Caller(m) = n /\ msgs' = msgs \ {m}
  BY NodeGoes DEF GetHashfrag, IsAnswer, registration, Caller
<1>2. RoutedInv'
  BY <1>1 DEF AskInv, RoutedInv, Assigned
<1>3. \A k \in Nodes : k # n =>
           /\ pc'[k] = "registering" => RegisteringIsOwed(k)'
           /\ pc'[k] = "asking" =>
                 \E y \in msgs' : y.class = "hashfrag" /\ Caller(y) = k
  BY <1>1, AskOthers
<1> QED
  BY <1>1, <1>2, <1>3 DEF AskInv, AskingInv

LEMMA AskStep ==
    ASSUME TypeInv, RegInv, PhaseInv, AskInv, Next
    PROVE  AskInv'
  BY AskSteps, AskQuiet, AskRegister, AskAssign, AskSend, AskTotals, AskAnswer, AskRoute,
     AskTable

\* Who leaves the count last opens the barrier.
LEMMA CountedStep ==
    ASSUME TypeInv, RegInv, CountedInv, Next
    PROVE  CountedInv'
<1>1. CASE QuietForIds
  <2>1. /\ CountedNodes' = CountedNodes
        /\ \A t \in PoolThreads : Counting(t)' <=> Counting(t)
    BY <1>1, CountedKept
  <2> QED
    BY <1>1, <2>1 DEF QuietForIds, CountedInv
<1>2. ASSUME NEW n \in Nodes, RegisterLocalNode(n)
      PROVE  CountedInv'
  <2>1. UNCHANGED registration
    BY <1>2 DEF RegisterLocalNode
  <2>2. CountedNodes' = CountedNodes
    BY <2>1 DEF registration, CountedNodes
  <2> QED
    BY <2>1, <2>2 DEF registration, CountedInv, Counting
<1>3. ASSUME NEW t \in PoolThreads,
             (\E m \in msgs : AssignId(t, m)) \/ CountNode(t) \/ CountServer(t)
      PROVE  CountedInv'
  <2>1. thread'[t].at \in {"count node", "count server", "compare"}
    BY <1>3, TransitionFacts DEF AssignId, CountNode, CountServer
  <2> QED
    BY <2>1 DEF CountedInv, Counting
<1>4. ASSUME NEW t \in PoolThreads, CompareCount(t)
      PROVE  CountedInv'
  <2>1. /\ allHere' = (allHere \/ nodeNum = Cardinality(Nodes))
        /\ nodeNum' = nodeNum
    BY <1>4 DEF CompareCount, ExpectedNodes
  <2>2. nodeNum' = Cardinality(CountedNodes')
    BY <1>4, RegCompare DEF RegInv, CountsInv
  <2> QED
    BY <2>1, <2>2 DEF CountedInv
<1> QED
  BY <1>1, <1>2, <1>3, <1>4, RegistrationSteps

\* A request that its callee answers: the call stays.
LEMMA CallGoesOn ==
    ASSUME NEW m \in msgs, m.type = "request", NEW load, Answer(m, load)
    PROVE  \A k \in msgs : \E x \in msgs' :
              x.class = k.class /\ Caller(x) = Caller(k) /\ Callee(x) = Callee(k)
<1>1. PICK y : y = Response(m.class, m.to, m.from, load)
  OBVIOUS
<1>2. y.class = m.class /\ Caller(y) = Caller(m) /\ Callee(y) = Callee(m)
  BY <1>1, ResponseFields DEF Caller, Callee
<1>3. msgs' = (msgs \ {m}) \cup {y}
  BY <1>1 DEF Answer
<1> QED
  BY <1>2, <1>3

LEMMA AnsweringOn ==
    ASSUME SameAnswers, NEW w, Answering(w)
    PROVE  Answering(w)'
<1>1. PICK t \in PoolThreads : thread[t].at = "answer" /\ thread[t].node = w
  BY DEF Answering
<1>2. thread'[t].at = "answer" /\ thread'[t].node = w
  BY <1>1 DEF SameAnswers
<1> QED
  BY <1>2 DEF Answering

LEMMA ThreadsKept ==
    ASSUME UNCHANGED registration
    PROVE  SameAnswers
  BY DEF registration, SameAnswers

LEMMA AnswerKept ==
    ASSUME TypeInv, AnswerInv, SameAnswers, UNCHANGED waiting,
           \A w \in Workers : pc'[w] = "finishing" => pc[w] = "finishing",
           \A k \in msgs : OfTraining(k) =>
              \E x \in msgs' :
                 x.class = k.class /\ Caller(x) = Caller(k) /\ Callee(x) = Callee(k)
    PROVE  AnswerInv'
<1>1. ASSUME NEW w \in Workers, NEW s \in waiting'[w]
      PROVE  \E x \in msgs' : IsAccess(x) /\ Caller(x) = w /\ Callee(x) = s
  <2>1. PICK k \in msgs : IsAccess(k) /\ Caller(k) = w /\ Callee(k) = s
    BY <1>1 DEF AnswerInv
  <2> QED
    BY <2>1 DEF IsAccess, OfTraining
<1>2. ASSUME NEW w \in Workers, pc'[w] = "finishing"
      PROVE  Answering(w)' \/ \E x \in msgs' : x.class = "finish" /\ Caller(x) = w
  <2>1. CASE Answering(w)
    BY <2>1, AnsweringOn
  <2>2. CASE \E k \in msgs : k.class = "finish" /\ Caller(k) = w
    BY <2>2 DEF OfTraining
  <2> QED
    BY <1>2, <2>1, <2>2 DEF AnswerInv
<1> QED
  BY <1>1, <1>2 DEF AnswerInv

LEMMA AnswerStartRound ==
    ASSUME TypeInv, AnswerInv, NEW w \in Workers,
           NEW to \in (SUBSET OwnersFor(w)) \ {{}}, StartRound(w, to)
    PROVE  AnswerInv'
<1> DEFINE targets == {s \in route[w] : ids[s] \in to}
<1>1. CASE to \subseteq KnownIds(w)
  <2>1. PICK class \in {"pull", "push"} :
           class = IF rounds[w] % 2 = 0 THEN "pull" ELSE "push"
    OBVIOUS
  <2>2. /\ UNCHANGED <<pc, thread>>
        /\ waiting' = [waiting EXCEPT ![w] = targets]
        /\ msgs' = msgs \cup {Request(class, w, s) : s \in targets}
    BY <1>1, <2>1 DEF StartRound, registration
  <2>3. /\ waiting'[w] = targets
        /\ \A v \in Workers : v # w => waiting'[v] = waiting[v]
    BY <2>2 DEF TypeInv, VarsOK, RoundsOK
  <2> HIDE DEF targets
  <2>4. \A s \in targets : \E x \in msgs' : IsAccess(x) /\ Caller(x) = w /\ Callee(x) = s
    BY <2>1, <2>2, RequestFields DEF IsAccess
  <2> QED
    BY <2>2, <2>3, <2>4 DEF AnswerInv, Answering
<1>2. CASE ~(to \subseteq KnownIds(w))
  <2>1. UNCHANGED <<msgs, waiting>> /\ SameAnswers /\ Goto(w, "failed check")
    BY <1>2, ThreadsKept DEF StartRound, training
  <2>2. \A v \in Workers : pc'[v] = "finishing" => pc[v] = "finishing"
    BY <2>1, WorkerGoes
  <2> QED
    BY <2>1, <2>2, AnswerKept
<1> QED
  BY <1>1, <1>2

LEMMA AnswerGetAccess ==
    ASSUME TypeInv, AnswerInv, NEW w \in Workers, NEW m \in msgs, GetAccess(w, m)
    PROVE  AnswerInv'
<1>1. /\ UNCHANGED <<pc, thread>> /\ msgs' = msgs \ {m}
      /\ m.class \in {"pull", "push"} /\ Caller(m) = w /\ Callee(m) = m.from
  BY DEF GetAccess, IsAnswer, Caller, Callee, registration
<1>2. /\ waiting'[w] = waiting[w] \ {m.from}
      /\ \A v \in Workers : v # w => waiting'[v] = waiting[v]
  BY DEF GetAccess, TypeInv, VarsOK, RoundsOK
<1>3. ASSUME NEW v \in Workers, NEW s \in waiting'[v]
      PROVE  \E x \in msgs' : IsAccess(x) /\ Caller(x) = v /\ Callee(x) = s
  <2>1. s \in waiting[v] /\ (v # w \/ s # m.from)
    BY <1>2, <1>3
  <2>2. PICK x \in msgs : IsAccess(x) /\ Caller(x) = v /\ Callee(x) = s
    BY <2>1 DEF AnswerInv
  <2> QED
    BY <1>1, <2>1, <2>2
<1>4. ASSUME NEW v \in Workers, pc'[v] = "finishing"
      PROVE  Answering(v)' \/ \E x \in msgs' : x.class = "finish" /\ Caller(x) = v
  BY <1>1, <1>4 DEF AnswerInv, Answering
<1> QED
  BY <1>3, <1>4 DEF AnswerInv

LEMMA AnswerFinisher ==
    ASSUME TypeInv, AnswerInv, NEW w \in Workers,
           SendFinish(w) \/ \E m \in msgs : LeaveWorker(w, m)
    PROVE  AnswerInv'
<1>1. UNCHANGED <<waiting, thread>>
  BY DEF SendFinish, LeaveWorker, training, registration
<1>2. \A v \in Workers : v # w => pc'[v] = pc[v]
  BY WorkerGoes DEF SendFinish, LeaveWorker
<1>3. ASSUME NEW v \in Workers, NEW k \in msgs,
             IsAccess(k) \/ (k.class = "finish" /\ Caller(k) = v /\ v # w)
      PROVE  k \in msgs'
  BY <1>3 DEF SendFinish, LeaveWorker, IsAnswer, IsAccess, Caller
<1>4. pc'[w] = "finishing" => \E x \in msgs' : x.class = "finish" /\ Caller(x) = w
  <2>1. CASE SendFinish(w)
    BY <2>1, RequestFields DEF SendFinish
  <2>2. CASE \E m \in msgs : LeaveWorker(w, m)
    <3>1. pc'[w] = "gone"
      BY <2>2, WorkerGoes DEF LeaveWorker
    <3> QED
      BY <3>1
  <2> QED
    BY <2>1, <2>2
<1>5. ASSUME NEW v \in Workers, NEW s \in waiting'[v]
      PROVE  \E x \in msgs' : IsAccess(x) /\ Caller(x) = v /\ Callee(x) = s
  BY <1>1, <1>3, <1>5 DEF AnswerInv
<1>6. ASSUME NEW v \in Workers, v # w, pc'[v] = "finishing"
      PROVE  Answering(v)' \/ \E x \in msgs' : x.class = "finish" /\ Caller(x) = v
  BY <1>1, <1>2, <1>3, <1>6 DEF AnswerInv, Answering
<1> QED
  BY <1>4, <1>5, <1>6 DEF AnswerInv

\* The thread that has counted the worker holds its call.
LEMMA AnswerHandle ==
    ASSUME TypeInv, AnswerInv, NEW t \in PoolThreads, NEW m \in msgs, HandleFinish(t, m)
    PROVE  AnswerInv'
<1>1. /\ UNCHANGED <<pc, waiting>> /\ msgs' = msgs \ {m}
      /\ m.class = "finish" /\ Caller(m) = m.from /\ thread[t].at = "idle"
  BY DEF HandleFinish, Arrives, Caller, training
<1>2. /\ thread'[t].at = "answer" /\ thread'[t].node = m.from
      /\ \A u \in PoolThreads : \/ u = t
                                \/ thread'[u].at = thread[u].at /\ thread'[u].node = thread[u].node
  BY TransitionFacts DEF HandleFinish
<1>3. ASSUME NEW v \in Workers, NEW s \in waiting'[v]
      PROVE  \E x \in msgs' : IsAccess(x) /\ Caller(x) = v /\ Callee(x) = s
  BY <1>1, <1>3 DEF AnswerInv, IsAccess
<1>4. ASSUME NEW v \in Workers, pc'[v] = "finishing"
      PROVE  Answering(v)' \/ \E x \in msgs' : x.class = "finish" /\ Caller(x) = v
  <2>1. CASE Answering(v)
    BY <1>1, <1>2, <2>1 DEF Answering
  <2>2. CASE \E x \in msgs : x.class = "finish" /\ Caller(x) = v
    BY <1>1, <1>2, <2>2 DEF Answering
  <2> QED
    BY <1>1, <1>4, <2>1, <2>2 DEF AnswerInv
<1> QED
  BY <1>3, <1>4 DEF AnswerInv

LEMMA AnswerSend ==
    ASSUME TypeInv, AnswerInv, NEW t \in PoolThreads, AnswerFinish(t)
    PROVE  AnswerInv'
<1>1. UNCHANGED <<pc, waiting>>
  BY DEF AnswerFinish, training
<1>2. PICK y : y = Response("finish", Master, thread[t].node, {})
  OBVIOUS
<1>3. y.class = "finish" /\ Caller(y) = thread[t].node /\ msgs' = msgs \cup {y}
  BY <1>2, ResponseFields DEF AnswerFinish
<1>4. \A u \in PoolThreads : \/ u = t
                             \/ thread'[u].at = thread[u].at /\ thread'[u].node = thread[u].node
  BY TransitionFacts DEF AnswerFinish
<1>5. ASSUME NEW v \in Workers, NEW s \in waiting'[v]
      PROVE  \E x \in msgs' : IsAccess(x) /\ Caller(x) = v /\ Callee(x) = s
  BY <1>1, <1>3, <1>5 DEF AnswerInv
<1>6. ASSUME NEW v \in Workers, pc'[v] = "finishing"
      PROVE  Answering(v)' \/ \E x \in msgs' : x.class = "finish" /\ Caller(x) = v
  <2>1. CASE Answering(v)
    BY <1>3, <1>4, <2>1 DEF Answering
  <2>2. CASE \E x \in msgs : x.class = "finish" /\ Caller(x) = v
    BY <1>3, <2>2
  <2> QED
    BY <1>1, <1>6, <2>1, <2>2 DEF AnswerInv
<1> QED
  BY <1>5, <1>6 DEF AnswerInv

LEMMA AnswerStep ==
    ASSUME TypeInv, TrainInv, AnswerInv, Next
    PROVE  AnswerInv'
<1>1. CASE QuietForTraining
  BY <1>1, AnswerKept DEF QuietForTraining, SameEnds, SameTraining
<1>2. CASE LeaveMaster
  <2>1. /\ UNCHANGED <<msgs, waiting>> /\ SameAnswers
        /\ \A w \in Workers : pc'[w] = pc[w]
    BY <1>2, MasterGoes, AllProcesses, ThreadsKept DEF LeaveMaster, training
  <2> QED
    BY <2>1, AnswerKept
<1>3. ASSUME NEW s \in Servers, TellServer(s)
      PROVE  AnswerInv'
  <2>1. UNCHANGED <<pc, waiting>> /\ SameAnswers /\ msgs \subseteq msgs'
    BY <1>3, ThreadsKept DEF TellServer, training
  <2> QED
    BY <2>1, AnswerKept
<1>4. ASSUME NEW s \in Servers, NEW m \in msgs, HandleAccess(s, m)
      PROVE  AnswerInv'
  <2>1. /\ UNCHANGED <<pc, waiting>> /\ SameAnswers
        /\ m.type = "request" /\ Answer(m, {})
    BY <1>4, ThreadsKept DEF HandleAccess, Arrives, training
  <2> QED
    BY <2>1, CallGoesOn, AnswerKept
<1> QED
  BY <1>1, <1>2, <1>3, <1>4, TrainSteps, AnswerStartRound, AnswerGetAccess, AnswerFinisher,
     AnswerHandle, AnswerSend DEF TrainInv

LEMMA ToldStep ==
    ASSUME TypeInv, TrainInv, StopInv, ToldInv, Next
    PROVE  ToldInv'
<1>1. CASE QuietForStop
  <2>1. \A s \in Servers : pc[s] \in {"told", "answered", "gone"} =>
                              pc'[s] \in {"told", "answered", "gone"}
    BY <1>1 DEF QuietForStop, SameLeavers
  <2>2. told \subseteq Servers
    BY DEF TypeInv, VarsOK, TotalsOK
  <2> QED
    BY <1>1, <2>1, <2>2 DEF QuietForStop, SameTerminate, ToldInv
<1>2. CASE LeaveMaster
  <2>1. /\ UNCHANGED <<msgs, told>> /\ told \subseteq Nodes
        /\ \A n \in Nodes : pc'[n] = pc[n]
    BY <1>2, MasterGoes, AllProcesses
       DEF LeaveMaster, terminate, TypeInv, VarsOK, TotalsOK
  <2> QED
    BY <2>1 DEF ToldInv
<1>3. ASSUME NEW s \in Servers, TellServer(s)
      PROVE  ToldInv'
  <2>1. PICK x : x = Request("terminate", Master, s)
    OBVIOUS
  <2>2. x.class = "terminate" /\ Callee(x) = s
    BY <2>1, RequestFields
  <2>3. UNCHANGED pc /\ told' = told \cup {s} /\ msgs' = msgs \cup {x}
    BY <1>3, <2>1 DEF TellServer
  <2> QED
    BY <2>2, <2>3 DEF ToldInv
<1>4. ASSUME NEW s \in Servers, SendTerminated(s)
      PROVE  ToldInv'
  <2>1. /\ pc'[s] = "answered" /\ \A k \in Servers : k # s => pc'[k] = pc[k]
        /\ UNCHANGED told /\ told \subseteq Servers /\ msgs \subseteq msgs'
    BY <1>4, ServerGoes DEF SendTerminated, terminate, TypeInv, VarsOK, TotalsOK
  <2> QED
    BY <2>1 DEF ToldInv
<1>5. ASSUME NEW m \in msgs, GetTerminated(m)
      PROVE  ToldInv'
  <2>1. /\ UNCHANGED <<pc, told>> /\ msgs' = msgs \ {m}
        /\ m.type = "response" /\ m.class = "terminate"
    BY <1>5 DEF GetTerminated, IsAnswer
  <2>2. pc[Callee(m)] \in {"answered", "gone"}
    BY <2>1 DEF StopInv, TerminateInv
  <2> QED
    BY <2>1, <2>2 DEF ToldInv
<1>6. ASSUME NEW s \in Servers, NEW m \in msgs, HandleTerminate(s, m)
      PROVE  ToldInv'
  <2>1. /\ pc'[s] = "told" /\ \A k \in Servers : k # s => pc'[k] = pc[k]
        /\ UNCHANGED told /\ told \subseteq Servers
        /\ msgs' = msgs \ {m} /\ Callee(m) = s
    BY <1>6, ServerGoes
       DEF HandleTerminate, Arrives, Callee, terminate, TypeInv, VarsOK, TotalsOK
  <2> QED
    BY <2>1 DEF ToldInv
<1> QED
  BY <1>1, <1>2, <1>3, <1>4, <1>5, <1>6, StopSteps

LEMMA OwedInit == Init => OwedInv
<1> SUFFICES ASSUME Init PROVE OwedInv
  OBVIOUS
<1>1. CountedNodes = {} /\ Nodes # {}
  BY ClusterAssumption DEF Init, CountedNodes, Nodes
<1>2. CountedInv
  BY <1>1 DEF CountedInv
<1>3. AnswerInv /\ ToldInv
  BY AllProcesses DEF Init, AnswerInv, ToldInv
<1> QED
  BY <1>2, <1>3, AskInit DEF OwedInv

\* Every step keeps what is owed, or hands it on.
LEMMA OwedStep ==
    ASSUME TypeInv, RegInv, PhaseInv, TrainInv, StopInv, OwedInv, [Next]_vars
    PROVE  OwedInv'
<1>1. CASE Next
  BY <1>1, AskStep, CountedStep, AnswerStep, ToldStep DEF OwedInv
<1>2. CASE UNCHANGED vars
  <2>1. AskInv'
    BY <1>2 DEF vars, registration, OwedInv, AskInv, RoutedInv, Assigned, AskingInv,
                RegisteringIsOwed
  <2>2. CountedInv'
    BY <1>2 DEF vars, registration, OwedInv, CountedInv, CountedNodes, Counting
  <2>3. AnswerInv' /\ ToldInv'
    BY <1>2 DEF vars, registration, terminate, training, OwedInv, AnswerInv, Answering,
                ToldInv
  <2> QED
    BY <2>1, <2>2, <2>3 DEF OwedInv
<1> QED
  BY <1>1, <1>2

LEMMA AlwaysOwed == Spec => []OwedInv
<1>1. Init => OwedInv
  BY OwedInit
<1>2. /\ TypeInv /\ RegInv /\ PhaseInv /\ TrainInv /\ StopInv
      /\ OwedInv /\ [Next]_vars
      => OwedInv'
  BY OwedStep
<1> QED
  BY <1>1, <1>2, AlwaysTyped, AlwaysRegistered, AlwaysInPhase, AlwaysTraining,
     AlwaysStopping, PTL DEF Spec

JobInv == TypeInv /\ RegInv /\ PhaseInv /\ TrainInv /\ StopInv /\ OwedInv

\* The master waits for the registrations: one is under way.
LEMMA SomebodyRegisters ==
    ASSUME JobInv, AllBlock, pc[Master] = "waiting", ~allHere,
           \A t \in PoolThreads : thread[t].at = "idle", IdleThread
    PROVE  \E m \in msgs : CanTake(m)
<1>1. CountedNodes # Nodes
  BY DEF JobInv, OwedInv, CountedInv, Counting
<1>2. PICK n \in Nodes : ids[n] = 0
  BY <1>1 DEF CountedNodes
<1>3. pc[n] \in {"start", "registering"} \cup Failed
  BY DEF JobInv, PhaseInv, NodePhases, MasterPhases, Routed
<1>4. pc[n] = "registering"
  BY <1>3 DEF AllBlock, NodeBlocks, Failed
<1>5. RegisteringIsOwed(n)
  BY <1>4 DEF JobInv, OwedInv, AskInv, AskingInv
<1>6. Up(Master) /\ Up(n)
  BY <1>4 DEF Up, Ended, Failed
<1>7. CASE Request("init_address", n, Master) \in msgs
  BY <1>6, <1>7, RequestFields DEF CanTake
<1>8. CASE \E m \in msgs : /\ m.class = "init_address"
                           /\ m.type = "response" /\ m.to = n
  BY <1>4, <1>6, <1>8, AllProcesses DEF CanTake
<1> QED
  BY <1>2, <1>5, <1>7, <1>8 DEF RegisteringIsOwed

\* The master waits for the workers or for the servers.
Awaiting == pc[Master] = "await workers"

\* A node that asks the master for something gets it.
LEMMA StartersGoOn ==
    ASSUME JobInv, Awaiting, IdleThread,
           NEW n \in Nodes, pc[n] \in {"registering", "asking"}
    PROVE  \E m \in msgs : CanTake(m)
<1>1. Up(Master) /\ Up(n) /\ n # Master
  BY AllProcesses DEF Awaiting, Up, Ended, Failed
<1>2. n \in routed
  BY DEF Awaiting, JobInv, OwedInv, AskInv, RoutedInv, Routing
<1>3. CASE pc[n] = "registering"
  <2>1. RegisteringIsOwed(n)
    BY <1>3 DEF JobInv, OwedInv, AskInv, AskingInv
  <2>2. CASE Request("init_address", n, Master) \in msgs
    <3>1. PICK x : x = Request("init_address", n, Master)
      OBVIOUS
    <3>2. x.type = "request" /\ x.to = Master
      BY <3>1, RequestFields
    <3>3. x \in msgs
      BY <2>2, <3>1
    <3> QED
      BY <1>1, <3>2, <3>3 DEF CanTake
  <2>3. CASE \E m \in msgs : /\ m.class = "init_address"
                             /\ m.type = "response" /\ m.to = n
    BY <1>1, <1>3, <2>3 DEF CanTake
  <2> QED
    BY <1>2, <2>1, <2>2, <2>3 DEF RegisteringIsOwed
<1>4. CASE pc[n] = "asking"
  <2>1. PICK m \in msgs : m.class = "hashfrag" /\ Caller(m) = n
    BY <1>4 DEF JobInv, OwedInv, AskInv, AskingInv
  <2>2. m.type \in {"request", "response"} /\ Callee(m) = Master
    BY <2>1 DEF JobInv, TypeInv, MessageOK
  <2>3. \/ m.type = "request" /\ m.to = Master
        \/ m.type = "response" /\ m.to = n
    BY <2>1, <2>2 DEF Caller, Callee
  <2> QED
    BY <1>1, <1>4, <2>1, <2>3 DEF CanTake
<1> QED
  BY <1>3, <1>4

LEMMA FinishersGoOn ==
    ASSUME JobInv, Awaiting \/ Handled = Workers, IdleThread,
           \A t \in PoolThreads : thread[t].at = "idle",
           NEW w \in Workers, pc[w] = "finishing"
    PROVE  \E m \in msgs : CanTake(m)
<1>1. Up(w) /\ w # Master
  BY AllProcesses DEF Up, Ended, Failed
<1>2. PICK m \in msgs : m.class = "finish" /\ Caller(m) = w
  BY DEF JobInv, OwedInv, AnswerInv, Answering
<1>3. \/ m.type = "request" /\ m.to = Master
      \/ m.type = "response" /\ m.to = w
  BY <1>2 DEF JobInv, TypeInv, MessageOK, Caller, Callee
<1>4. CASE m.type = "response" /\ m.to = w
  BY <1>1, <1>2, <1>4 DEF CanTake
<1>5. CASE Awaiting /\ m.type = "request" /\ m.to = Master
  BY <1>5 DEF Awaiting, CanTake, Up, Ended, Failed
<1>6. CASE Handled = Workers /\ m.type = "request"
  <2>1. PICK k \in msgs : k.class = "finish" /\ k.type = "response" /\ k.to = w
    BY <1>6 DEF Handled, Answering
  <2> QED
    BY <1>1, <2>1 DEF CanTake
<1> QED
  BY <1>3, <1>4, <1>5, <1>6

\* A worker waits for its answers: the servers have not been told to go.
LEMMA TrainersGoOn ==
    ASSUME JobInv, AllBlock, NEW w \in Workers, pc[w] = "inited", waiting[w] # {}
    PROVE  \E m \in msgs : CanTake(m)
<1>1. Up(w) /\ w # Master
  BY AllProcesses DEF Up, Ended, Failed
<1>2. PICK s \in waiting[w] : TRUE
  OBVIOUS
<1>3. PICK m \in msgs : IsAccess(m) /\ Caller(m) = w /\ Callee(m) = s
  BY <1>2 DEF JobInv, OwedInv, AnswerInv
<1>4. s \in Servers /\ s # Master
  BY <1>2, AllProcesses DEF JobInv, TrainInv, AccessInv
<1>5. w \notin Handled
  <2>1. \A k \in msgs : k.class = "finish" /\ k.type = "response" => k.to # w
    BY DEF JobInv, TrainInv, FinishInv, Caller
  <2>2. ~Answering(w)
    BY AnsweredWaits DEF JobInv, TrainInv
  <2> QED
    BY <2>1, <2>2 DEF Handled
<1>6. told = {}
  BY <1>5 DEF JobInv, TrainInv, HandledInv
<1>7. Up(s)
  BY <1>4, <1>6, AllProcesses
     DEF JobInv, StopInv, TerminateInv, AllBlock, NodeBlocks, Up, Ended, Failed
<1>8. m.class \in {"pull", "push"} /\ (m.to = w \/ m.to = s)
  BY <1>3 DEF IsAccess, Caller, Callee
<1> QED
  BY <1>1, <1>4, <1>7, <1>8 DEF CanTake

\* The workers are gone: the master waits for a server that it has told.
LEMMA ServersGoOn ==
    ASSUME OneThread, JobInv, AllBlock, Awaiting, IdleThread,
           \A w \in Workers : pc[w] = "gone"
    PROVE  \E m \in msgs : CanTake(m)
<1>1. Handled = Workers /\ finished = Cardinality(Workers)
  BY DEF JobInv, TrainInv, HandledInv, Handled
<1>2. /\ workerTotal = Cardinality(Workers) /\ serverTotal = Cardinality(Servers)
      /\ allHere
  BY OneThread DEF Awaiting, JobInv, PhaseInv, MasterPhases, Routing
<1>3. /\ finished \in Nat /\ workerTotal \in Nat
      /\ stopped \in Nat /\ serverTotal \in Nat
  BY DEF JobInv, TypeInv, VarsOK, TotalsOK
<1>4. ~(finished < workerTotal)
  <2>1. finished = workerTotal
    BY <1>1, <1>2
  <2> QED
    BY <1>3, <2>1
<1>5. told = Assigned(Servers) /\ stopped < serverTotal
  BY <1>4 DEF Awaiting, AllBlock, MasterBlocks
<1>6. told = Servers
  BY <1>2, <1>5, AllAreHere DEF JobInv
<1>7. Closed # Servers
  <2>1. stopped # serverTotal
    BY <1>3, <1>5
  <2> QED
    BY <1>2, <2>1 DEF JobInv, StopInv, ClosedInv
<1>8. PICK s \in Servers : s \notin Closed
  BY <1>7 DEF Closed
<1>9. PICK m \in msgs : m.class = "terminate" /\ Callee(m) = s
  <2>1. pc[s] \notin {"told", "answered"}
    BY AllProcesses DEF AllBlock, NodeBlocks
  <2> QED
    BY <1>6, <1>8, <2>1 DEF JobInv, OwedInv, ToldInv, Closed
<1>10. \/ m.type = "request" /\ m.to = s
       \/ m.type = "response" /\ m.to = Master
  BY <1>9 DEF JobInv, TypeInv, MessageOK, Caller, Callee
<1>11. CASE m.type = "response" /\ m.to = Master
  BY <1>9, <1>11 DEF Awaiting, CanTake, Up, Ended, Failed
<1>12. CASE m.type = "request" /\ m.to = s
  <2>1. pc[s] # "gone"
    BY <1>9, <1>12 DEF JobInv, StopInv, TerminateInv
  <2>2. Up(s) /\ s # Master
    BY <2>1, AllProcesses DEF AllBlock, NodeBlocks, Up, Ended, Failed
  <2> QED
    BY <1>12, <2>2 DEF CanTake
<1> QED
  BY <1>10, <1>11, <1>12

(***************************************************************************)
(* With a pool of one thread the job never stands still before its end,    *)
(* unless a process has failed: when the main thread of every process is   *)
(* blocked on a StateBarrier (master/init.h, node_init.h, terminate.h) or  *)
(* has returned, then all have returned, or the master's pool thread is at *)
(* work, or a message can be handled.  With two threads the master may     *)
(* wait for workers that do not exist, for it has counted a server late.   *)
(***************************************************************************)
THEOREM JobNeverStandsStill ==
    ASSUME OneThread, PoolThreads # {}
    PROVE  Spec => []SomebodyGoesOn
<1>1. JobInv => SomebodyGoesOn
  <2> SUFFICES ASSUME JobInv, AllBlock,
                      \A t \in PoolThreads : thread[t].at = "idle",
                      ~ \E m \in msgs : CanTake(m)
               PROVE  \A p \in Processes : pc[p] = "gone"
    BY DEF SomebodyGoesOn
  <2>1. IdleThread
    BY DEF IdleThread
  <2>2. \/ pc[Master] = "waiting" /\ ~allHere
        \/ Awaiting
        \/ pc[Master] = "gone"
    BY DEF AllBlock, MasterBlocks, Awaiting
  <2>3. ~(pc[Master] = "waiting" /\ ~allHere)
    BY <2>1, SomebodyRegisters
  <2>4. CASE Awaiting
    <3>1. \A n \in Nodes : pc[n] \notin {"registering", "asking"}
      BY <2>1, <2>4, StartersGoOn
    <3>2. \A w \in Workers : pc[w] # "finishing"
      BY <2>1, <2>4, FinishersGoOn
    <3>3. \A w \in Workers : ~(pc[w] = "inited" /\ waiting[w] # {})
      BY TrainersGoOn
    <3>4. \A w \in Workers : pc[w] = "gone"
      BY <3>1, <3>2, <3>3, AllProcesses DEF AllBlock, NodeBlocks
    <3> QED
      BY <2>1, <2>4, <3>4, ServersGoOn, OneThread
  <2>5. CASE pc[Master] = "gone"
    <3>1. Closed = Servers /\ Handled = Workers
      BY <2>5 DEF JobInv, StopInv, ClosedInv, TrainInv, HandledInv
    <3>2. \A s \in Servers : pc[s] = "gone"
      BY <3>1, AllProcesses DEF Closed, AllBlock, NodeBlocks
    <3>3. \A w \in Workers : pc[w] # "finishing"
      BY <2>1, <2>5, <3>1, FinishersGoOn
    <3>4. \A w \in Workers : pc[w] = "gone" \/ pc[w] = "finishing"
      <4> SUFFICES ASSUME NEW w \in Workers, pc[w] # "gone"
                   PROVE  pc[w] = "finishing"
        OBVIOUS
      <4>1. PICK m \in msgs : m.class = "finish" /\ m.type = "response" /\ m.to = w
        BY <3>1 DEF Handled, Answering
      <4> QED
        BY <4>1 DEF JobInv, TrainInv, FinishInv, Caller
    <3> QED
      BY <2>5, <3>2, <3>3, <3>4, AllProcesses DEF Processes
  <2> QED
    BY <2>2, <2>3, <2>4, <2>5
<1> QED
  BY <1>1, AlwaysTyped, AlwaysRegistered, AlwaysInPhase, AlwaysTraining, AlwaysStopping,
     AlwaysOwed, PTL DEF JobInv
=============================================================================
