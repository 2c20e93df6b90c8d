----------------------------- MODULE Transfer -----------------------------
(***************************************************************************)
(* The transfer layer of a cluster: one Transfer object per node (core/    *)
(* transfer/transfer.h), with its listener threads (transfer/Listener.h),  *)
(* its task channel and thread pool (AsynExec.h, BasicChannel.h), and the  *)
(* ZeroMQ sockets between the nodes.                                       *)
(*                                                                         *)
(* A request travels                                                       *)
(*   send -> wire -> listener of the callee -> task channel -> pool thread *)
(* and its response                                                        *)
(*   pool thread -> wire -> listener of the caller -> channel -> callback. *)
(*                                                                         *)
(* The network neither loses nor duplicates a message but may reorder any  *)
(* two: ZeroMQ keeps the order of one connection only, and the listener    *)
(* threads of a node lose even that, for they release receiver_mutex       *)
(* before they dispatch what they have received.  A failed CHECK aborts    *)
(* the process: the node then takes no more steps.                         *)
(***************************************************************************)
EXTENDS Naturals, Sequences, FiniteSets

CONSTANTS
    Nodes,        \* the nodes; every node is in every node's route
    Classes,      \* message classes
    Deferred,     \* classes whose handler leaves the response empty: the
                  \* application sends it later (NODE_INIT_ADDRESS)
    Registered,   \* classes every node has registered before it listens
    Exiting,      \* nodes whose Transfer object may be destroyed
    Listeners,    \* listener threads of a node (listen_thread_num)
    Workers,      \* pool threads of a node (async_exec_num)
    MaxSends,     \* bound: calls of Transfer::send per node
    Idle, Exited  \* what a thread that carries no message is doing

Ids == 0 .. MaxSends - 1

Message == [type : {"request", "response"}, client : Nodes, to : Nodes,
            id : Ids, class : Classes]

ASSUME TransferAssumption ==
    /\ Deferred \subseteq Classes
    /\ Registered \subseteq Classes
    /\ Exiting \subseteq Nodes
    /\ IsFiniteSet(Listeners)
    /\ MaxSends \in Nat
    /\ Idle # Exited
    /\ Idle \notin Message
    /\ Exited \notin Message

VARIABLES
    counter,    \* _msg_id_counter
    handlers,   \* the ids in _msg_handlers
    classes,    \* the ids in _message_class
    unsent,     \* requests between registration and zmq_msg_send
    wire,       \* messages in ZeroMQ's hands
    poison,     \* empty messages a node has sent to its own listeners
    held,       \* what each listener thread has received and not dispatched
    queue,      \* the tasks in _async_channel, first in first out
    running,    \* the task each pool thread is executing
    owed,       \* requests whose handler left the response empty
    phase,      \* life of the Transfer object and of its process
    served,     \* history: how often the handler ran for each call
    returned    \* history: how often the callback ran for each call

net     == <<unsent, wire, owed>>
threads == <<held, queue, running>>
tables  == <<counter, handlers, classes>>
history == <<served, returned>>
vars == <<tables, net, poison, threads, phase, history>>

\* The CHECKs of this layer, each the name of the phase its failure leads to.
Failures == {"id reused", "unknown class", "channel closed", "orphan response",
             "reply missing"}

Phases == {"up", "exiting", "closed", "dead"} \cup Failures

Init ==
    /\ counter = [n \in Nodes |-> 0]
    /\ handlers = [n \in Nodes |-> {}]
    /\ classes = [n \in Nodes |-> Registered]
    /\ unsent = {}
    /\ wire = {}
    /\ poison = [n \in Nodes |-> 0]
    /\ held = [n \in Nodes |-> [l \in Listeners |-> Idle]]
    /\ queue = [n \in Nodes |-> << >>]
    /\ running = [n \in Nodes |-> [w \in Workers |-> Idle]]
    /\ owed = {}
    /\ phase = [n \in Nodes |-> "up"]
    /\ served = [n \in Nodes |-> [i \in Ids |-> 0]]
    /\ returned = [n \in Nodes |-> [i \in Ids |-> 0]]

Live(n) == phase[n] \notin Failures

Abort(n, check) == phase' = [phase EXCEPT ![n] = check]

\* The response to request m, addressed to the client the request names.
Response(m) == [m EXCEPT !.type = "response", !.to = m.client]

-----------------------------------------------------------------------------
(* The application's calls.                                                *)

\* MessageClass::add
AddClass(n, c) ==
    /\ phase[n] = "up"
    /\ c \notin classes[n]
    /\ classes' = [classes EXCEPT ![n] = @ \cup {c}]
    /\ UNCHANGED <<counter, handlers, net, poison, threads, phase, history>>

\* Transfer::send up to the registration of the callback.  Drawing the id
\* and registering it are one step: until it is registered no one else sees
\* the id, and no other send draws it.
Send(n, to, c) ==
    LET id == counter[n]
        m  == [type |-> "request", client |-> n, to |-> to, id |-> id,
               class |-> c]
    IN  /\ phase[n] = "up"
        /\ id < MaxSends
        /\ IF id \notin handlers[n]
           THEN /\ counter' = [counter EXCEPT ![n] = id + 1]
                /\ handlers' = [handlers EXCEPT ![n] = @ \cup {id}]
                /\ unsent' = unsent \cup {m}
                /\ UNCHANGED phase
           ELSE /\ Abort(n, "id reused")
                /\ UNCHANGED <<counter, handlers, unsent>>
        /\ UNCHANGED <<classes, wire, owed, poison, threads, history>>

\* Mutant: the request is sent again, as by a retry that does not know of
\* the first attempt.
TransmitAgain(m) ==
    /\ m \in unsent
    /\ Live(m.client)
    /\ wire' = wire \cup {m}
    /\ UNCHANGED <<tables, unsent, owed, poison, threads, phase, history>>

\* Transfer::send, the rest: zmq_msg_send under the destination's mutex.
Transmit(m) ==
    /\ m \in unsent
    /\ Live(m.client)
    /\ unsent' = unsent \ {m}
    /\ wire' = wire \cup {m}
    /\ UNCHANGED <<tables, owed, poison, threads, phase, history>>

\* The application answers a deferred request with send_response.
SendDeferred(m) ==
    /\ m \in owed
    /\ phase[m.to] = "up"
    /\ owed' = owed \ {m}
    /\ wire' = wire \cup {Response(m)}
    /\ UNCHANGED <<tables, unsent, poison, threads, phase, history>>

-----------------------------------------------------------------------------
(* A listener thread: Transfer::main_loop.                                 *)

Receive(n, l, m) ==
    /\ Live(n)
    /\ held[n][l] = Idle
    /\ m \in wire
    /\ m.to = n
    /\ wire' = wire \ {m}
    /\ held' = [held EXCEPT ![n][l] = m]
    /\ UNCHANGED <<tables, unsent, owed, poison, queue, running, phase, history>>

\* Mutant: a listener ends though nobody has sent it an empty message.
TakePoisonUnasked(n, l) ==
    /\ Live(n)
    /\ held[n][l] = Idle
    /\ poison' = [poison EXCEPT ![n] = @ - 1]
    /\ held' = [held EXCEPT ![n][l] = Exited]
    /\ UNCHANGED <<tables, net, queue, running, phase, history>>

\* An empty message: the loop is left and the thread ends.
TakePoison(n, l) ==
    /\ Live(n)
    /\ held[n][l] = Idle
    /\ poison[n] > 0
    /\ poison' = [poison EXCEPT ![n] = @ - 1]
    /\ held' = [held EXCEPT ![n][l] = Exited]
    /\ UNCHANGED <<tables, net, queue, running, phase, history>>

\* Mutant: the request is queued and stays in the listener's package.
EnqueueCopy(n, l) ==
    /\ queue' = [queue EXCEPT ![n] = Append(@, held[n][l])]
    /\ UNCHANGED held

\* The listener pushes the task for the message it holds.
Enqueue(n, l) ==
    /\ queue' = [queue EXCEPT ![n] = Append(@, held[n][l])]
    /\ held' = [held EXCEPT ![n][l] = Idle]

Holds(n, l, type) ==
    /\ held[n][l] \notin {Idle, Exited}
    /\ held[n][l].type = type

\* handle_request; its two CHECKs are MessageClass::get's and the channel's.
DispatchRequest(n, l) ==
    /\ Live(n)
    /\ Holds(n, l, "request")
    /\ IF held[n][l].class \in classes[n] /\ phase[n] \notin {"closed", "dead"}
       THEN Enqueue(n, l) /\ UNCHANGED phase
       ELSE /\ Abort(n, IF held[n][l].class \notin classes[n]
                        THEN "unknown class" ELSE "channel closed")
            /\ UNCHANGED <<held, queue>>
    /\ UNCHANGED <<tables, net, poison, running, history>>

\* Mutant: the callback is looked up and stays registered.
DispatchResponseKeeping(n, l) ==
    /\ Live(n)
    /\ Holds(n, l, "response")
    /\ IF held[n][l].client = n /\ held[n][l].id \in handlers[n]
       THEN Enqueue(n, l) /\ UNCHANGED phase
       ELSE Abort(n, "orphan response") /\ UNCHANGED <<held, queue>>
    /\ UNCHANGED <<tables, net, poison, running, history>>

\* handle_response: the callback is looked up and erased, then queued.  The
\* CHECK on the client id is that of a node which has its id; before, while
\* _client_id is -1, and on the master, whose _client_id is 0, it passes.
DispatchResponse(n, l) ==
    /\ Live(n)
    /\ Holds(n, l, "response")
    /\ IF held[n][l].client = n /\ held[n][l].id \in handlers[n]
       THEN /\ handlers' = [handlers EXCEPT ![n] = @ \ {held[n][l].id}]
            /\ Enqueue(n, l)
            /\ UNCHANGED phase
       ELSE /\ Abort(n, "orphan response")
            /\ UNCHANGED <<handlers, held, queue>>
    /\ UNCHANGED <<counter, classes, net, poison, running, history>>

-----------------------------------------------------------------------------
(* A pool thread: MultiWorker::start.                                      *)

\* BasicChannel::pop on a channel that is not closed.
Pop(n, w) ==
    /\ phase[n] \in {"up", "exiting"}
    /\ running[n][w] = Idle
    /\ queue[n] # << >>
    /\ running' = [running EXCEPT ![n][w] = Head(queue[n])]
    /\ queue' = [queue EXCEPT ![n] = Tail(@)]
    /\ UNCHANGED <<tables, net, poison, held, phase, history>>

Runs(n, w, type) ==
    /\ Live(n)
    /\ running[n][w] \notin {Idle, Exited}
    /\ running[n][w].type = type

Finish(n, w) == running' = [running EXCEPT ![n][w] = Idle]

\* Mutant: nobody remembers which empty responses are still to be sent.
RunHandlerForgetting(n, w) ==
    LET m == running[n][w] IN
    /\ Runs(n, w, "request")
    /\ Finish(n, w)
    /\ served' = [served EXCEPT ![m.client][m.id] = @ + 1]
    /\ wire' = IF m.class \in Deferred THEN wire ELSE wire \cup {Response(m)}
    /\ UNCHANGED <<tables, unsent, owed, poison, held, queue, phase, returned>>

\* The task of handle_request: the handler runs, and a response with
\* content is sent at once.
RunHandler(n, w) ==
    LET m == running[n][w] IN
    /\ Runs(n, w, "request")
    /\ Finish(n, w)
    /\ served' = [served EXCEPT ![m.client][m.id] = @ + 1]
    /\ IF m.class \in Deferred
       THEN owed' = owed \cup {m} /\ UNCHANGED wire
       ELSE wire' = wire \cup {Response(m)} /\ UNCHANGED owed
    /\ UNCHANGED <<tables, unsent, poison, held, queue, phase, returned>>

\* The task of handle_response: the callback runs.
RunCallback(n, w) ==
    LET m == running[n][w] IN
    /\ Runs(n, w, "response")
    /\ Finish(n, w)
    /\ returned' = [returned EXCEPT ![m.client][m.id] = @ + 1]
    /\ UNCHANGED <<tables, net, poison, held, queue, phase, served>>

\* pop returns false once the channel is closed, whatever it still holds.
WorkerExit(n, w) ==
    /\ phase[n] = "closed"
    /\ running[n][w] = Idle
    /\ running' = [running EXCEPT ![n][w] = Exited]
    /\ UNCHANGED <<tables, net, poison, held, queue, phase, history>>

-----------------------------------------------------------------------------
(* The thread that destroys the Transfer object.  No thread of the         *)
(* application is inside send by then.                                     *)

\* Mutant: ~Transfer does not ask for service_complete().
BeginExitUnchecked(n) ==
    /\ n \in Exiting
    /\ phase[n] = "up"
    /\ \A m \in unsent : m.client # n
    /\ phase' = [phase EXCEPT ![n] = "exiting"]
    /\ poison' = [poison EXCEPT ![n] = Cardinality(Listeners)]
    /\ UNCHANGED <<tables, net, threads, history>>

\* Mutant: one empty message too few.
BeginExitOneShort(n) ==
    /\ n \in Exiting
    /\ phase[n] = "up"
    /\ \A m \in unsent : m.client # n
    /\ IF handlers[n] = {}
       THEN /\ phase' = [phase EXCEPT ![n] = "exiting"]
            /\ poison' = [poison EXCEPT ![n] = Cardinality(Listeners) - 1]
       ELSE Abort(n, "reply missing") /\ UNCHANGED poison
    /\ UNCHANGED <<tables, net, threads, history>>

\* ~Transfer and service_end: CHECK(service_complete()), then one poison
\* message for each listener thread.
BeginExit(n) ==
    /\ n \in Exiting
    /\ phase[n] = "up"
    /\ \A m \in unsent : m.client # n
    /\ IF handlers[n] = {}
       THEN /\ phase' = [phase EXCEPT ![n] = "exiting"]
            /\ poison' = [poison EXCEPT ![n] = Cardinality(Listeners)]
       ELSE Abort(n, "reply missing") /\ UNCHANGED poison
    /\ UNCHANGED <<tables, net, threads, history>>

\* Mutant: the channel is closed before the listeners are joined.
CloseChannelEarly(n) ==
    /\ phase[n] = "exiting"
    /\ phase' = [phase EXCEPT ![n] = "closed"]
    /\ UNCHANGED <<tables, net, poison, threads, history>>

\* The listener threads are joined, the receiver is closed, and the
\* destructor of _async_channel closes the channel.
CloseChannel(n) ==
    /\ phase[n] = "exiting"
    /\ \A l \in Listeners : held[n][l] = Exited
    /\ phase' = [phase EXCEPT ![n] = "closed"]
    /\ UNCHANGED <<tables, net, poison, threads, history>>

\* ... and joins the pool threads.
JoinWorkers(n) ==
    /\ phase[n] = "closed"
    /\ \A w \in Workers : running[n][w] = Exited
    /\ phase' = [phase EXCEPT ![n] = "dead"]
    /\ UNCHANGED <<tables, net, poison, threads, history>>

-----------------------------------------------------------------------------
AppStep(n) ==
    \/ \E c \in Classes : AddClass(n, c)
    \/ \E to \in Nodes, c \in Classes : Send(n, to, c)

ListenerStep(n, l) ==
    \/ \E m \in wire : Receive(n, l, m)
    \/ TakePoison(n, l)
    \/ DispatchRequest(n, l)
    \/ DispatchResponse(n, l)

WorkerStep(n, w) ==
    \/ Pop(n, w)
    \/ RunHandler(n, w)
    \/ RunCallback(n, w)
    \/ WorkerExit(n, w)

ExitStep(n) == BeginExit(n) \/ CloseChannel(n) \/ JoinWorkers(n)

Next ==
    \/ \E m \in unsent : Transmit(m)
    \/ \E m \in owed : SendDeferred(m)
    \/ \E n \in Nodes :
          \/ AppStep(n)
          \/ \E l \in Listeners : ListenerStep(n, l)
          \/ \E w \in Workers : WorkerStep(n, w)
          \/ ExitStep(n)

Spec == Init /\ [][Next]_vars

(***************************************************************************)
(* Threads are scheduled by the operating system and every loop iteration  *)
(* of a listener or of a pool thread ends, so each is weakly fair.  A      *)
(* thread inside send or the destructor goes on; the application answers   *)
(* what it deferred (send_route_to_workers).  Nobody is obliged to send,   *)
(* to register a class or to exit.                                         *)
(***************************************************************************)
Fairness ==
    /\ WF_vars(\E m \in unsent : Transmit(m))
    /\ WF_vars(\E m \in owed : SendDeferred(m))
    /\ \A n \in Nodes :
          /\ \A l \in Listeners : WF_vars(ListenerStep(n, l))
          /\ \A w \in Workers : WF_vars(WorkerStep(n, w))
          /\ WF_vars(CloseChannel(n) \/ JoinWorkers(n))

FairSpec == Spec /\ Fairness
-----------------------------------------------------------------------------
(* Properties.                                                             *)

Slot == Message \cup {Idle, Exited}

TypeOK ==
    /\ counter \in [Nodes -> 0 .. MaxSends]
    /\ handlers \in [Nodes -> SUBSET Ids]
    /\ classes \in [Nodes -> SUBSET Classes]
    /\ unsent \subseteq Message
    /\ wire \subseteq Message
    /\ owed \subseteq Message
    /\ poison \in [Nodes -> Nat]
    /\ held \in [Nodes -> [Listeners -> Slot]]
    /\ queue \in [Nodes -> Seq(Message)]
    /\ running \in [Nodes -> [Workers -> Slot]]
    /\ phase \in [Nodes -> Phases]
    /\ served \in [Nodes -> [Ids -> Nat]]
    /\ returned \in [Nodes -> [Ids -> Nat]]

Busy(slot) == slot \notin {Idle, Exited}

SameCall(a, b) == a.client = b.client /\ a.id = b.id

\* The messages that no thread and no task channel has taken over.
Outside == unsent \cup wire \cup owed

(***************************************************************************)
(* A call is in one place at a time: its request, its callback task or its *)
(* response is in one of the message sets, in the hands of one listener,   *)
(* at one position of one channel, or with one pool thread.  This is what  *)
(* makes the handler and the callback run at most once although several    *)
(* listeners and pool threads of a node work at the same time.             *)
(***************************************************************************)
OutsideOnce ==
    /\ unsent \cap wire = {} /\ unsent \cap owed = {} /\ wire \cap owed = {}
    /\ \A a, b \in Outside : SameCall(a, b) => a = b

HeldOnce ==
    \A n \in Nodes, l \in Listeners : Busy(held[n][l]) =>
       /\ \A m \in Outside : ~SameCall(held[n][l], m)
       /\ \A o \in Nodes, k \in Listeners :
             Busy(held[o][k]) /\ SameCall(held[n][l], held[o][k])
                => o = n /\ k = l

QueuedOnce ==
    \A n \in Nodes : \A i \in 1 .. Len(queue[n]) :
       /\ \A m \in Outside : ~SameCall(queue[n][i], m)
       /\ \A o \in Nodes, l \in Listeners :
             Busy(held[o][l]) => ~SameCall(queue[n][i], held[o][l])
       /\ \A o \in Nodes : \A j \in 1 .. Len(queue[o]) :
             SameCall(queue[n][i], queue[o][j]) => o = n /\ j = i

RunningOnce ==
    \A n \in Nodes, w \in Workers : Busy(running[n][w]) =>
       /\ \A m \in Outside : ~SameCall(running[n][w], m)
       /\ \A o \in Nodes, l \in Listeners :
             Busy(held[o][l]) => ~SameCall(running[n][w], held[o][l])
       /\ \A o \in Nodes : \A j \in 1 .. Len(queue[o]) :
             ~SameCall(running[n][w], queue[o][j])
       /\ \A o \in Nodes, v \in Workers :
             Busy(running[o][v]) /\ SameCall(running[n][w], running[o][v])
                => o = n /\ v = w

OnePlacePerCall == OutsideOnce /\ HeldOnce /\ QueuedOnce /\ RunningOnce

\* The callback of m's call is registered and waits for the response.
Awaited(m) == m.id \in handlers[m.client]

\* Between threads: a message on its way belongs to a call that is awaited.
OutsideAccounted ==
    \A m \in Outside : Awaited(m) /\ (m.type = "response" => m.to = m.client)

HeldAccounted ==
    \A n \in Nodes, l \in Listeners : Busy(held[n][l]) =>
       /\ Awaited(held[n][l])
       /\ held[n][l].to = n
       /\ held[n][l].type = "response" => held[n][l].client = n

\* A task for a request belongs to an awaited call, a callback task does not:
\* its entry has been erased for good.
TaskAccounted(m) ==
    /\ m.id < counter[m.client]
    /\ m.type = "request" <=> Awaited(m)

TasksAccounted ==
    /\ \A n \in Nodes : \A i \in 1 .. Len(queue[n]) : TaskAccounted(queue[n][i])
    /\ \A n \in Nodes, w \in Workers :
          Busy(running[n][w]) => TaskAccounted(running[n][w])

\* Ids are handed out once; a node that exits waits for nothing, and its
\* listeners are gone before its channel is closed.
NodesAccounted ==
    \A n \in Nodes :
       /\ \A i \in handlers[n] : i < counter[n]
       /\ phase[n] \in {"exiting", "closed", "dead"} => handlers[n] = {}
       /\ phase[n] \in {"closed", "dead"} => \A l \in Listeners : held[n][l] = Exited

(***************************************************************************)
(* The tables of a node agree with what is on its way: this, with          *)
(* OnePlacePerCall, is the invariant that a single step preserves.         *)
(***************************************************************************)
CallsAccounted ==
    OutsideAccounted /\ HeldAccounted /\ TasksAccounted /\ NodesAccounted

IInv == TypeOK /\ OnePlacePerCall /\ CallsAccounted

(***************************************************************************)
(* A response finds its callback: every response on its way to a node, in  *)
(* ZeroMQ or in a listener's hands, has an entry in that node's            *)
(* _msg_handlers.  The callback is registered before the request leaves    *)
(* (transfer.h:89-95), is erased by the one response only, and the node    *)
(* cannot be destroyed meanwhile.                                          *)
(***************************************************************************)
NoOrphanResponse ==
    /\ \A m \in wire : m.type = "response" => m.id \in handlers[m.to]
    /\ \A n \in Nodes, l \in Listeners :
          Holds(n, l, "response") => held[n][l].id \in handlers[n]

(***************************************************************************)
(* Of the CHECKs of this layer only two can fail: a request of a class the *)
(* node has not registered (transfer.h:43), and a Transfer destroyed while *)
(* a reply is missing (transfer.h:244).  Those on the id (92), on the      *)
(* channel (157), and on the response's callback (187, 197) never do.      *)
(***************************************************************************)
OnlyTwoChecksFail ==
    \A n \in Nodes :
       phase[n] \notin {"id reused", "channel closed", "orphan response"}

(***************************************************************************)
(* A node that has passed CHECK(service_complete()) leaves nothing behind  *)
(* that others would answer: no request of its own and no response to it   *)
(* is anywhere, so what it destroys is never addressed again.              *)
(***************************************************************************)
LeavesNothingOutstanding ==
    \A n \in Nodes : phase[n] \in {"exiting", "closed", "dead"} =>
       /\ \A m \in Outside : m.client # n
       /\ \A o \in Nodes, l \in Listeners :
             Busy(held[o][l]) => held[o][l].client # n
       /\ \A o \in Nodes, w \in Workers :
             Runs(o, w, "request") => running[o][w].client # n

(***************************************************************************)
(* What the comment in send says (transfer.h:86-88): once the reply is     *)
(* received the callback will be called.  A task still queued when the     *)
(* channel is closed is never run.                                         *)
(***************************************************************************)
ReceivedReplyIsCalledBack ==
    \A n \in Nodes : phase[n] = "dead" =>
       \A i \in 1 .. Len(queue[n]) : queue[n][i].type # "response"

\* The abstract state of each call, from what has been executed for it.
CallStatus ==
    [c \in Nodes \X Ids |->
       IF c[2] >= counter[c[1]] THEN "idle"
       ELSE LET done == <<served[c[1]][c[2]], returned[c[1]][c[2]]>> IN
            CASE done = <<0, 0>> -> "called"
              [] done = <<1, 0>> -> "served"
              [] done = <<1, 1>> -> "returned"
              [] OTHER           -> "broken"]

RPC == INSTANCE Rpc WITH Calls <- Nodes \X Ids, status <- CallStatus

(***************************************************************************)
(* The transfer layer implements Rpc: whatever the interleaving of         *)
(* senders, listeners, pool threads and the network, each call's handler   *)
(* runs at most once, and its callback at most once and only afterwards.   *)
(***************************************************************************)
RefinesRpc == RPC!Safety

(***************************************************************************)
(* Every call returns, unless a node leaves or aborts: no message, task or *)
(* reply is forgotten and no thread waits for another.                     *)
(***************************************************************************)
EveryCallReturns ==
    \A n \in Nodes, i \in Ids :
       i < counter[n] ~> \/ returned[n][i] = 1
                         \/ \E o \in Nodes : phase[o] # "up"

(***************************************************************************)
(* A destructor that has passed its CHECKs terminates: each listener takes *)
(* one of the poison messages, though requests go on arriving, and each    *)
(* pool thread leaves the closed channel.                                  *)
(***************************************************************************)
ExitCompletes ==
    \A n \in Nodes : phase[n] = "exiting" ~> phase[n] \in {"dead"} \cup Failures
=============================================================================
