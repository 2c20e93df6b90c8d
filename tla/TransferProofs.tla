-------------------------- MODULE TransferProofs --------------------------
(***************************************************************************)
(* Theorems about Transfer for any number of nodes, threads, message       *)
(* classes and calls: the invariants, the refinement of Rpc, and that no   *)
(* call is lost and no thread waits for another for ever.                  *)
(***************************************************************************)
EXTENDS Transfer, FiniteSetTheorems, SequenceTheorems, TLAPS

-----------------------------------------------------------------------------
(* Type correctness.                                                       *)

LEMMA ResponseType ==
    ASSUME NEW m \in Message
    PROVE  /\ Response(m) \in Message
           /\ Response(m).type = "response"
           /\ Response(m).client = m.client
           /\ Response(m).to = m.client
           /\ Response(m).id = m.id
  BY DEF Response, Message

\* What a thread carries that is neither idle nor gone is a message.
LEMMA BusySlot ==
    ASSUME NEW s \in Slot, s \notin {Idle, Exited}
    PROVE  s \in Message
  BY DEF Slot

LEMMA TypeInit == Init => TypeOK
  BY TransferAssumption DEF Init, TypeOK, Slot, Phases, Ids

\* The parts of a step that several actions share.
LEMMA EnqueueType ==
    ASSUME TypeOK, NEW n \in Nodes, NEW l \in Listeners,
           held[n][l] \in Message, Enqueue(n, l)
    PROVE  /\ queue' \in [Nodes -> Seq(Message)]
           /\ held' \in [Nodes -> [Listeners -> Slot]]
<1>1. Append(queue[n], held[n][l]) \in Seq(Message)
  BY DEF TypeOK
<1>2. queue' \in [Nodes -> Seq(Message)]
  BY <1>1 DEF Enqueue, TypeOK
<1> QED
  BY <1>2 DEF Enqueue, TypeOK, Slot

LEMMA FinishType ==
    ASSUME TypeOK, NEW n \in Nodes, NEW w \in Workers, Finish(n, w)
    PROVE  running' \in [Nodes -> [Workers -> Slot]]
  BY DEF Finish, TypeOK, Slot

LEMMA CountType ==
    ASSUME NEW f \in [Nodes -> [Ids -> Nat]], NEW n \in Nodes, NEW i \in Ids
    PROVE  [f EXCEPT ![n][i] = @ + 1] \in [Nodes -> [Ids -> Nat]]
<1>1. f[n][i] + 1 \in Nat
  OBVIOUS
<1> QED
  BY <1>1

LEMMA TypeNext == TypeOK /\ [Next]_vars => TypeOK'
<1> SUFFICES ASSUME TypeOK, [Next]_vars
             PROVE  TypeOK'
  OBVIOUS
<1>1. CASE UNCHANGED vars
  BY <1>1 DEF vars, net, threads, tables, history, TypeOK
<1>2. ASSUME NEW n \in Nodes, NEW c \in Classes, AddClass(n, c)
      PROVE  TypeOK'
  BY <1>2 DEF AddClass, net, threads, history, TypeOK
<1>3. ASSUME NEW n \in Nodes, NEW to \in Nodes, NEW c \in Classes, Send(n, to, c)
      PROVE  TypeOK'
  <2> DEFINE m == [type |-> "request", client |-> n, to |-> to,
                   id |-> counter[n], class |-> c]
  <2>1. /\ MaxSends \in Nat
        /\ counter[n] \in 0 .. MaxSends
        /\ counter[n] < MaxSends
    BY <1>3, TransferAssumption DEF Send, TypeOK
  <2>2. counter[n] \in Ids /\ counter[n] + 1 \in 0 .. MaxSends
    BY <2>1 DEF Ids
  <2>3. m \in Message
    BY <2>2 DEF Message
  <2>4. counter' \in [Nodes -> 0 .. MaxSends]
    BY <1>3, <2>2 DEF Send, TypeOK
  <2>5. handlers[n] \cup {counter[n]} \in SUBSET Ids
    BY <2>2 DEF TypeOK
  <2>6. handlers' \in [Nodes -> SUBSET Ids]
    BY <1>3, <2>5 DEF Send, TypeOK
  <2>7. unsent' \subseteq Message
    BY <1>3, <2>3 DEF Send, TypeOK
  <2>8. phase' \in [Nodes -> Phases]
    BY <1>3 DEF Send, Abort, TypeOK, Phases, Failures
  <2> QED
    BY <1>3, <2>4, <2>6, <2>7, <2>8 DEF Send, threads, history, TypeOK
<1>4. ASSUME NEW m \in unsent, Transmit(m)
      PROVE  TypeOK'
  BY <1>4 DEF Transmit, tables, threads, history, TypeOK
<1>5. ASSUME NEW m \in owed, SendDeferred(m)
      PROVE  TypeOK'
  <2>1. Response(m) \in Message
    BY ResponseType DEF TypeOK
  <2> QED
    BY <1>5, <2>1 DEF SendDeferred, tables, threads, history, TypeOK
<1>6. ASSUME NEW n \in Nodes, NEW l \in Listeners, NEW m \in wire, Receive(n, l, m)
      PROVE  TypeOK'
  <2>1. held' \in [Nodes -> [Listeners -> Slot]]
    BY <1>6 DEF Receive, TypeOK, Slot
  <2> QED
    BY <1>6, <2>1 DEF Receive, tables, history, TypeOK
<1>7. ASSUME NEW n \in Nodes, NEW l \in Listeners, TakePoison(n, l)
      PROVE  TypeOK'
  <2>1. poison[n] \in Nat /\ poison[n] > 0
    BY <1>7 DEF TakePoison, TypeOK
  <2>2. poison' \in [Nodes -> Nat]
    BY <1>7, <2>1 DEF TakePoison, TypeOK
  <2>3. held' \in [Nodes -> [Listeners -> Slot]]
    BY <1>7 DEF TakePoison, TypeOK, Slot
  <2> QED
    BY <1>7, <2>2, <2>3 DEF TakePoison, tables, net, history, TypeOK
<1>8. ASSUME NEW n \in Nodes, NEW l \in Listeners, DispatchRequest(n, l)
      PROVE  TypeOK'
  <2>1. held[n][l] \in Message
    BY <1>8, BusySlot DEF DispatchRequest, Holds, TypeOK
  <2>2. phase' \in [Nodes -> Phases]
    BY <1>8 DEF DispatchRequest, Abort, TypeOK, Phases, Failures
  <2>3. CASE Enqueue(n, l)
    BY <1>8, <2>1, <2>2, <2>3, EnqueueType
       DEF DispatchRequest, tables, net, history, TypeOK
  <2>4. CASE UNCHANGED <<held, queue>>
    BY <1>8, <2>2, <2>4 DEF DispatchRequest, tables, net, history, TypeOK
  <2> QED
    BY <1>8, <2>3, <2>4 DEF DispatchRequest
<1>9. ASSUME NEW n \in Nodes, NEW l \in Listeners, DispatchResponse(n, l)
      PROVE  TypeOK'
  <2>1. held[n][l] \in Message
    BY <1>9, BusySlot DEF DispatchResponse, Holds, TypeOK
  <2>2. phase' \in [Nodes -> Phases]
    BY <1>9 DEF DispatchResponse, Abort, TypeOK, Phases, Failures
  <2>3. handlers' \in [Nodes -> SUBSET Ids]
    <3>1. handlers[n] \ {held[n][l].id} \in SUBSET Ids
      BY DEF TypeOK
    <3> QED
      BY <1>9, <3>1 DEF DispatchResponse, TypeOK
  <2>4. CASE Enqueue(n, l)
    BY <1>9, <2>1, <2>2, <2>3, <2>4, EnqueueType
       DEF DispatchResponse, net, history, TypeOK
  <2>5. CASE UNCHANGED <<held, queue>>
    BY <1>9, <2>2, <2>3, <2>5 DEF DispatchResponse, net, history, TypeOK
  <2> QED
    BY <1>9, <2>4, <2>5 DEF DispatchResponse
<1>10. ASSUME NEW n \in Nodes, NEW w \in Workers, Pop(n, w)
       PROVE  TypeOK'
  <2>1. queue[n] \in Seq(Message) /\ queue[n] # << >>
    BY <1>10 DEF Pop, TypeOK
  <2>2. Head(queue[n]) \in Message /\ Tail(queue[n]) \in Seq(Message)
    BY <2>1
  <2>3. queue' \in [Nodes -> Seq(Message)]
    BY <1>10, <2>2 DEF Pop, TypeOK
  <2>4. running' \in [Nodes -> [Workers -> Slot]]
    BY <1>10, <2>2 DEF Pop, TypeOK, Slot
  <2> QED
    BY <1>10, <2>3, <2>4 DEF Pop, tables, net, history, TypeOK
<1>11. ASSUME NEW n \in Nodes, NEW w \in Workers, RunHandler(n, w)
       PROVE  TypeOK'
  <2> DEFINE m == running[n][w]
  <2>1. m \in Message
    BY <1>11, BusySlot DEF RunHandler, Runs, TypeOK
  <2>2. m.client \in Nodes /\ m.id \in Ids /\ Response(m) \in Message
    BY <2>1, ResponseType DEF Message
  <2>3. served' \in [Nodes -> [Ids -> Nat]]
    BY <1>11, <2>2, CountType DEF RunHandler, TypeOK
  <2>4. running' \in [Nodes -> [Workers -> Slot]]
    BY <1>11, FinishType DEF RunHandler, TypeOK
  <2>5. wire' \subseteq Message /\ owed' \subseteq Message
    BY <1>11, <2>1, <2>2 DEF RunHandler, TypeOK
  <2> QED
    BY <1>11, <2>3, <2>4, <2>5 DEF RunHandler, tables, TypeOK
<1>12. ASSUME NEW n \in Nodes, NEW w \in Workers, RunCallback(n, w)
       PROVE  TypeOK'
  <2> DEFINE m == running[n][w]
  <2>1. m \in Message
    BY <1>12, BusySlot DEF RunCallback, Runs, TypeOK
  <2>2. m.client \in Nodes /\ m.id \in Ids
    BY <2>1 DEF Message
  <2>3. returned' \in [Nodes -> [Ids -> Nat]]
    BY <1>12, <2>2, CountType DEF RunCallback, TypeOK
  <2>4. running' \in [Nodes -> [Workers -> Slot]]
    BY <1>12, FinishType DEF RunCallback, TypeOK
  <2> QED
    BY <1>12, <2>3, <2>4 DEF RunCallback, tables, net, TypeOK
<1>13. ASSUME NEW n \in Nodes, NEW w \in Workers, WorkerExit(n, w)
       PROVE  TypeOK'
  <2>1. running' \in [Nodes -> [Workers -> Slot]]
    BY <1>13 DEF WorkerExit, TypeOK, Slot
  <2> QED
    BY <1>13, <2>1 DEF WorkerExit, tables, net, history, TypeOK
<1>14. ASSUME NEW n \in Nodes, BeginExit(n)
       PROVE  TypeOK'
  <2>1. Cardinality(Listeners) \in Nat
    BY TransferAssumption, FS_CardinalityType
  <2>2. phase' \in [Nodes -> Phases] /\ poison' \in [Nodes -> Nat]
    BY <1>14, <2>1 DEF BeginExit, Abort, TypeOK, Phases, Failures
  <2> QED
    BY <1>14, <2>2 DEF BeginExit, tables, net, threads, history, TypeOK
<1>15. ASSUME NEW n \in Nodes, CloseChannel(n)
       PROVE  TypeOK'
  BY <1>15 DEF CloseChannel, tables, net, threads, history, TypeOK, Phases
<1>16. ASSUME NEW n \in Nodes, JoinWorkers(n)
       PROVE  TypeOK'
  BY <1>16 DEF JoinWorkers, tables, net, threads, history, TypeOK, Phases
<1> QED
  BY <1>1, <1>2, <1>3, <1>4, <1>5, <1>6, <1>7, <1>8, <1>9, <1>10, <1>11,
     <1>12, <1>13, <1>14, <1>15, <1>16
     DEF Next, AppStep, ListenerStep, WorkerStep, ExitStep

(***************************************************************************)
(* The variables of a cluster keep their types: ids stay below the number  *)
(* of calls, tables and queues hold messages only (transfer.h:255-268).    *)
(***************************************************************************)
THEOREM TypeCorrect == Spec => []TypeOK
  BY TypeInit, TypeNext, PTL DEF Spec

-----------------------------------------------------------------------------
(* The inductive invariant.  Each action moves at most one message from    *)
(* one place to another; the lemmas say what the places contain after it.  *)

LEMMA QueueAppended ==
    ASSUME TypeOK, NEW n \in Nodes, NEW x \in Message,
           queue' = [queue EXCEPT ![n] = Append(@, x)]
    PROVE  /\ \A o \in Nodes : o # n => queue'[o] = queue[o]
           /\ Len(queue[n]) \in Nat
           /\ Len(queue'[n]) = Len(queue[n]) + 1
           /\ queue'[n][Len(queue[n]) + 1] = x
           /\ \A i \in 1 .. Len(queue[n]) : queue'[n][i] = queue[n][i]
<1>1. queue[n] \in Seq(Message) /\ queue'[n] = Append(queue[n], x)
  BY DEF TypeOK
<1>2. \A o \in Nodes : o # n => queue'[o] = queue[o]
  BY DEF TypeOK
<1> QED
  BY <1>1, <1>2

LEMMA QueueShifted ==
    ASSUME TypeOK, NEW n \in Nodes, queue[n] # << >>,
           queue' = [queue EXCEPT ![n] = Tail(@)]
    PROVE  /\ \A o \in Nodes : o # n => queue'[o] = queue[o]
           /\ Len(queue[n]) \in Nat \ {0}
           /\ Len(queue'[n]) = Len(queue[n]) - 1
           /\ Head(queue[n]) = queue[n][1]
           /\ \A i \in 1 .. Len(queue[n]) - 1 : queue'[n][i] = queue[n][i + 1]
<1>1. queue[n] \in Seq(Message) /\ queue'[n] = Tail(queue[n])
  BY DEF TypeOK
<1>2. \A o \in Nodes : o # n => queue'[o] = queue[o]
  BY DEF TypeOK
<1>3. Len(queue[n]) \in Nat \ {0}
  BY <1>1, EmptySeq
<1>4. /\ Len(Tail(queue[n])) = Len(queue[n]) - 1
      /\ \A i \in 1 .. Len(Tail(queue[n])) : Tail(queue[n])[i] = queue[n][i + 1]
  BY <1>1, HeadTailProperties
<1>5. Head(queue[n]) = queue[n][1]
  BY <1>1
<1> QED
  BY <1>1, <1>2, <1>3, <1>4, <1>5

LEMMA InvInit == Init => IInv
<1> SUFFICES ASSUME Init PROVE IInv
  OBVIOUS
<1>1. TypeOK
  BY TypeInit
<1>2. OnePlacePerCall
  BY DEF Init, OnePlacePerCall, OutsideOnce, HeldOnce, QueuedOnce, RunningOnce,
         Outside, Busy
<1>3. CallsAccounted
  BY DEF Init, CallsAccounted, OutsideAccounted, HeldAccounted, TasksAccounted,
         NodesAccounted, Outside, Busy
<1> QED
  BY <1>1, <1>2, <1>3 DEF IInv

\* A step that puts no message anywhere: what threads carry may only go.
LEMMA InvUnmoved ==
    ASSUME IInv, TypeOK',
           UNCHANGED <<counter, handlers, unsent, wire, owed, queue>>,
           \A n \in Nodes, l \in Listeners :
              Busy(held'[n][l]) => Busy(held[n][l]) /\ held'[n][l] = held[n][l],
           \A n \in Nodes, w \in Workers :
              Busy(running'[n][w]) => Busy(running[n][w]) /\ running'[n][w] = running[n][w],
           NodesAccounted'
    PROVE  IInv'
<1>1. Outside' = Outside
  BY DEF Outside
<1>2. OnePlacePerCall'
  BY <1>1 DEF IInv, OnePlacePerCall, OutsideOnce, HeldOnce, QueuedOnce, RunningOnce
<1>3. CallsAccounted'
  BY <1>1 DEF IInv, CallsAccounted, OutsideAccounted, HeldAccounted, TasksAccounted,
              TaskAccounted, Awaited
<1> QED
  BY <1>2, <1>3 DEF IInv

\* Transfer::send: the new id is above every id in use.
LEMMA InvSend ==
    ASSUME IInv, TypeOK', NEW n \in Nodes, NEW to \in Nodes, NEW c \in Classes,
           Send(n, to, c)
    PROVE  IInv'
<1> PICK m : m = [type |-> "request", client |-> n, to |-> to,
                  id |-> counter[n], class |-> c]
  OBVIOUS
<1>1. counter[n] \in 0 .. MaxSends /\ MaxSends \in Nat /\ counter[n] < MaxSends
  BY TransferAssumption DEF IInv, TypeOK, Send
<1>2. counter[n] \in Nat /\ counter[n] \in Ids
  BY <1>1 DEF Ids
<1>3. \A i \in handlers[n] : i < counter[n]
  BY DEF IInv, CallsAccounted, NodesAccounted
<1>4. counter[n] \notin handlers[n]
  BY <1>2, <1>3
<1>5. /\ unsent' = unsent \cup {m}
      /\ handlers' = [handlers EXCEPT ![n] = @ \cup {counter[n]}]
      /\ counter' = [counter EXCEPT ![n] = counter[n] + 1]
      /\ UNCHANGED <<phase, wire, owed, held, queue, running>>
      /\ phase[n] = "up"
  BY <1>4 DEF Send, threads
<1>6. /\ handlers'[n] = handlers[n] \cup {counter[n]}
      /\ counter'[n] = counter[n] + 1
      /\ \A o \in Nodes : o # n => handlers'[o] = handlers[o] /\ counter'[o] = counter[o]
  BY <1>5 DEF IInv, TypeOK
<1>7. m \in Message /\ m.client = n /\ m.id = counter[n] /\ m.type = "request"
  BY <1>2 DEF Message
<1>8. ASSUME NEW x \in Message, x.id < counter[x.client]
      PROVE  ~SameCall(x, m) /\ ~SameCall(m, x)
  BY <1>2, <1>7, <1>8 DEF SameCall
<1>9. ASSUME NEW x \in Message, Awaited(x)
      PROVE  x.id < counter[x.client]
  BY <1>9 DEF Awaited, IInv, CallsAccounted, NodesAccounted, Message
<1>10. ASSUME NEW x \in Message, x.id < counter[x.client]
       PROVE  /\ Awaited(x)' <=> Awaited(x)
              /\ x.id < counter'[x.client]
  <2>1. x.client \in Nodes /\ x.id \in Nat
    BY DEF Message, Ids
  <2>2. x.client = n => x.id # counter[n]
    BY <1>2, <1>10
  <2> QED
    BY <1>2, <1>6, <1>10, <2>1, <2>2 DEF Awaited
<1>11. Outside' = Outside \cup {m}
  BY <1>5 DEF Outside
<1>12. \A x \in Outside : x \in Message /\ Awaited(x)
  BY DEF Outside, IInv, TypeOK, CallsAccounted, OutsideAccounted
<1>13. \A o \in Nodes, l \in Listeners :
          Busy(held[o][l]) => held[o][l] \in Message /\ Awaited(held[o][l])
  BY DEF Busy, Slot, IInv, TypeOK, CallsAccounted, HeldAccounted
<1>14. \A o \in Nodes : \A i \in 1 .. Len(queue[o]) :
          queue[o][i] \in Message /\ TaskAccounted(queue[o][i])
  BY ElementOfSeq DEF IInv, TypeOK, CallsAccounted, TasksAccounted
<1>15. \A o \in Nodes, w \in Workers :
          Busy(running[o][w]) => running[o][w] \in Message /\ TaskAccounted(running[o][w])
  BY DEF Busy, Slot, IInv, TypeOK, CallsAccounted, TasksAccounted
<1>16. OutsideOnce'
  <2>1. m \notin Outside
    BY <1>8, <1>9, <1>12 DEF SameCall
  <2>2. \A x \in Outside : ~SameCall(x, m) /\ ~SameCall(m, x)
    BY <1>8, <1>9, <1>12
  <2> QED
    BY <1>5, <1>11, <2>1, <2>2 DEF Outside, OutsideOnce, IInv, OnePlacePerCall
<1>17. HeldOnce'
  BY <1>5, <1>8, <1>9, <1>11, <1>13 DEF HeldOnce, IInv, OnePlacePerCall
<1>18. QueuedOnce'
  BY <1>5, <1>8, <1>11, <1>14 DEF QueuedOnce, TaskAccounted, IInv, OnePlacePerCall
<1>19. RunningOnce'
  BY <1>5, <1>8, <1>11, <1>15 DEF RunningOnce, TaskAccounted, IInv, OnePlacePerCall
<1>20. OutsideAccounted'
  <2>1. Awaited(m)'
    BY <1>6, <1>7 DEF Awaited
  <2> QED
    BY <1>7, <1>9, <1>10, <1>11, <1>12, <2>1
       DEF OutsideAccounted, IInv, CallsAccounted
<1>21. HeldAccounted'
  BY <1>5, <1>9, <1>10, <1>13 DEF HeldAccounted, IInv, CallsAccounted
<1>22. TasksAccounted'
  BY <1>5, <1>10, <1>14, <1>15 DEF TasksAccounted, TaskAccounted
<1>23. NodesAccounted'
  <2>1. \A i \in handlers'[n] : i < counter'[n]
    <3>1. handlers[n] \subseteq Nat
      BY DEF IInv, TypeOK, Ids
    <3> QED
      BY <1>2, <1>3, <1>6, <3>1
  <2> QED
    BY <1>5, <1>6, <2>1 DEF NodesAccounted, IInv, CallsAccounted
<1> QED
  BY <1>16, <1>17, <1>18, <1>19, <1>20, <1>21, <1>22, <1>23
     DEF IInv, OnePlacePerCall, CallsAccounted

\* A message between threads is replaced by one of the same call.
LEMMA InvForward ==
    ASSUME IInv, TypeOK', NEW m \in Outside, NEW x \in Message,
           SameCall(x, m), x.type = "response" => x.to = x.client,
           Outside' = (Outside \ {m}) \cup {x},
           (unsent \cap wire = {} /\ unsent \cap owed = {} /\ wire \cap owed = {})',
           UNCHANGED <<counter, handlers, held, queue, running, phase>>
    PROVE  IInv'
<1>1. m \in Message /\ x.client = m.client /\ x.id = m.id
  BY DEF Outside, IInv, TypeOK, SameCall
<1>2. \A y : (SameCall(y, x) <=> SameCall(y, m)) /\ (SameCall(x, y) <=> SameCall(m, y))
  BY <1>1 DEF SameCall
<1>3. OutsideOnce'
  BY <1>2 DEF OutsideOnce, IInv, OnePlacePerCall
<1>4. HeldOnce'
  BY <1>2 DEF HeldOnce, IInv, OnePlacePerCall
<1>5. QueuedOnce'
  BY <1>2 DEF QueuedOnce, IInv, OnePlacePerCall
<1>6. RunningOnce'
  BY <1>2 DEF RunningOnce, IInv, OnePlacePerCall
<1>7. OutsideAccounted'
  BY <1>1 DEF OutsideAccounted, Awaited, IInv, CallsAccounted
<1>8. HeldAccounted' /\ TasksAccounted' /\ NodesAccounted'
  BY DEF HeldAccounted, TasksAccounted, TaskAccounted, NodesAccounted, Awaited,
         IInv, CallsAccounted
<1> QED
  BY <1>3, <1>4, <1>5, <1>6, <1>7, <1>8 DEF IInv, OnePlacePerCall, CallsAccounted

LEMMA InvTransmit ==
    ASSUME IInv, TypeOK', NEW m \in unsent, Transmit(m)
    PROVE  IInv'
<1>1. m \in Outside /\ m \in Message
  BY DEF Outside, IInv, TypeOK
<1>2. /\ unsent' = unsent \ {m} /\ wire' = wire \cup {m} /\ owed' = owed
      /\ UNCHANGED <<counter, handlers, held, queue, running, phase>>
  BY DEF Transmit, tables, threads
<1>3. Outside' = (Outside \ {m}) \cup {m}
  BY <1>1, <1>2 DEF Outside
<1>4. (unsent \cap wire = {} /\ unsent \cap owed = {} /\ wire \cap owed = {})'
  BY <1>2 DEF IInv, OnePlacePerCall, OutsideOnce
<1>5. m.type = "response" => m.to = m.client
  BY <1>1 DEF IInv, CallsAccounted, OutsideAccounted
<1> QED
  BY <1>1, <1>2, <1>3, <1>4, <1>5, InvForward DEF SameCall

LEMMA InvSendDeferred ==
    ASSUME IInv, TypeOK', NEW m \in owed, SendDeferred(m)
    PROVE  IInv'
<1> PICK x : x = Response(m)
  OBVIOUS
<1>1. m \in Outside /\ m \in Message
  BY DEF Outside, IInv, TypeOK
<1>2. x \in Message /\ SameCall(x, m) /\ x.to = x.client
  BY <1>1, ResponseType DEF SameCall
<1>3. /\ owed' = owed \ {m} /\ wire' = wire \cup {x} /\ unsent' = unsent
      /\ UNCHANGED <<counter, handlers, held, queue, running, phase>>
  BY DEF SendDeferred, tables, threads
<1>4. /\ unsent \cap wire = {} /\ unsent \cap owed = {} /\ wire \cap owed = {}
      /\ \A a, b \in Outside : SameCall(a, b) => a = b
  BY DEF IInv, OnePlacePerCall, OutsideOnce
<1>5. x \in Outside => x = m
  BY <1>1, <1>2, <1>4
<1>6. Outside' = (Outside \ {m}) \cup {x}
  BY <1>3, <1>4 DEF Outside
<1>7. (unsent \cap wire = {} /\ unsent \cap owed = {} /\ wire \cap owed = {})'
  BY <1>3, <1>4, <1>5 DEF Outside
<1> QED
  BY <1>1, <1>2, <1>3, <1>6, <1>7, InvForward

\* A listener takes a message from the wire.
LEMMA InvReceive ==
    ASSUME IInv, TypeOK', NEW n \in Nodes, NEW l \in Listeners, NEW m \in wire,
           Receive(n, l, m)
    PROVE  IInv'
<1>1. /\ wire' = wire \ {m} /\ held' = [held EXCEPT ![n][l] = m]
      /\ held[n][l] = Idle /\ m.to = n
      /\ UNCHANGED <<counter, handlers, unsent, owed, queue, running, phase>>
  BY DEF Receive, tables
<1>2. m \in Message /\ m \in Outside
  BY DEF Outside, IInv, TypeOK
<1>3. /\ held'[n][l] = m
      /\ \A o \in Nodes, k \in Listeners :
            ~(o = n /\ k = l) => held'[o][k] = held[o][k]
  BY <1>1 DEF IInv, TypeOK
<1>4. Outside' = Outside \ {m}
  BY <1>1 DEF Outside, IInv, OnePlacePerCall, OutsideOnce
<1>5. \A x \in Outside' : ~SameCall(x, m) /\ ~SameCall(m, x)
  BY <1>2, <1>4 DEF IInv, OnePlacePerCall, OutsideOnce, SameCall
<1>6. \A o \in Nodes, k \in Listeners :
         Busy(held[o][k]) => ~SameCall(held[o][k], m) /\ ~SameCall(m, held[o][k])
  BY <1>2 DEF IInv, OnePlacePerCall, HeldOnce, SameCall
<1>7. OutsideOnce'
  BY <1>1, <1>4 DEF OutsideOnce, IInv, OnePlacePerCall
<1>8. HeldOnce'
  BY <1>3, <1>4, <1>5, <1>6 DEF HeldOnce, IInv, OnePlacePerCall
<1>9. QueuedOnce'
  BY <1>1, <1>2, <1>3, <1>4 DEF QueuedOnce, IInv, OnePlacePerCall
<1>10. RunningOnce'
  BY <1>1, <1>2, <1>3, <1>4 DEF RunningOnce, IInv, OnePlacePerCall
<1>11. OutsideAccounted'
  BY <1>1, <1>4 DEF OutsideAccounted, Awaited, IInv, CallsAccounted
<1>12. HeldAccounted'
  <2>1. Awaited(m) /\ (m.type = "response" => m.client = n)
    BY <1>1, <1>2 DEF IInv, CallsAccounted, OutsideAccounted
  <2> QED
    BY <1>1, <1>3, <2>1 DEF HeldAccounted, Awaited, IInv, CallsAccounted
<1>13. TasksAccounted'
  BY <1>1 DEF TasksAccounted, TaskAccounted, Awaited, IInv, CallsAccounted
<1>14. NodesAccounted'
  <2>1. phase[n] \notin {"closed", "dead"}
    BY <1>1, TransferAssumption DEF IInv, CallsAccounted, NodesAccounted
  <2> QED
    BY <1>1, <1>3, <2>1 DEF NodesAccounted, IInv, CallsAccounted
<1> QED
  BY <1>7, <1>8, <1>9, <1>10, <1>11, <1>12, <1>13, <1>14
     DEF IInv, OnePlacePerCall, CallsAccounted

\* A listener queues the task for the message it holds; for a response it has
\* erased the entry of the callback.
LEMMA InvEnqueue ==
    ASSUME IInv, TypeOK', NEW n \in Nodes, NEW l \in Listeners, NEW m \in Message,
           held[n][l] = m, Busy(m), Enqueue(n, l),
           handlers' = IF m.type = "request" THEN handlers
                       ELSE [handlers EXCEPT ![n] = @ \ {m.id}],
           UNCHANGED <<counter, unsent, wire, owed, running, phase>>
    PROVE  IInv'
<1>1. /\ held'[n][l] = Idle
      /\ \A o \in Nodes, k \in Listeners :
            ~(o = n /\ k = l) => held'[o][k] = held[o][k]
  BY DEF Enqueue, IInv, TypeOK
<1>2. queue' = [queue EXCEPT ![n] = Append(@, m)]
  BY DEF Enqueue
<1>3. /\ \A o \in Nodes : o # n => queue'[o] = queue[o]
      /\ Len(queue[n]) \in Nat
      /\ Len(queue'[n]) = Len(queue[n]) + 1
      /\ queue'[n][Len(queue[n]) + 1] = m
      /\ \A i \in 1 .. Len(queue[n]) : queue'[n][i] = queue[n][i]
  BY <1>2, QueueAppended DEF IInv
<1>4. /\ m.id \in Ids /\ m.client \in Nodes /\ m.type \in {"request", "response"}
      /\ m.id \in handlers[m.client]
      /\ m.type = "response" => m.client = n
  BY DEF Message, IInv, CallsAccounted, HeldAccounted, Awaited
<1>5. \A o \in Nodes :
         handlers'[o] = IF o = m.client /\ m.type = "response"
                        THEN handlers[o] \ {m.id} ELSE handlers[o]
  BY <1>4 DEF IInv, TypeOK
<1>6. ASSUME NEW x \in Message, ~SameCall(x, m) \/ ~SameCall(m, x)
      PROVE  Awaited(x)' <=> Awaited(x)
  BY <1>5, <1>6 DEF Awaited, SameCall, Message
<1>7. Outside' = Outside /\ Outside \subseteq Message
  BY DEF Outside, IInv, TypeOK
<1>8. \A x \in Outside : ~SameCall(m, x) /\ ~SameCall(x, m)
  BY DEF SameCall, IInv, OnePlacePerCall, HeldOnce
<1>9. \A o \in Nodes, k \in Listeners : Busy(held'[o][k]) =>
         /\ ~(o = n /\ k = l) /\ held'[o][k] = held[o][k] /\ held[o][k] \in Message
         /\ ~SameCall(held[o][k], m) /\ ~SameCall(m, held[o][k])
  <2> SUFFICES ASSUME NEW o \in Nodes, NEW k \in Listeners, Busy(held'[o][k])
               PROVE  /\ ~(o = n /\ k = l) /\ held'[o][k] = held[o][k]
                      /\ held[o][k] \in Message /\ ~SameCall(held[o][k], m)
                      /\ ~SameCall(m, held[o][k])
    OBVIOUS
  <2>1. ~(o = n /\ k = l)
    BY <1>1 DEF Busy
  <2>2. held'[o][k] = held[o][k] /\ Busy(held[o][k])
    BY <1>1, <2>1
  <2>3. held[o][k] \in Message
    BY <2>2 DEF Busy, Slot, IInv, TypeOK
  <2>4. ~SameCall(held[o][k], m)
    BY <2>1, <2>2 DEF IInv, OnePlacePerCall, HeldOnce
  <2> QED
    BY <2>1, <2>2, <2>3, <2>4 DEF SameCall
<1>10. \A o \in Nodes : \A i \in 1 .. Len(queue[o]) :
          /\ queue[o][i] \in Message /\ TaskAccounted(queue[o][i])
          /\ ~SameCall(queue[o][i], m) /\ ~SameCall(m, queue[o][i])
  <2> SUFFICES ASSUME NEW o \in Nodes, NEW i \in 1 .. Len(queue[o])
               PROVE  /\ queue[o][i] \in Message /\ TaskAccounted(queue[o][i])
                      /\ ~SameCall(queue[o][i], m) /\ ~SameCall(m, queue[o][i])
    OBVIOUS
  <2>1. queue[o][i] \in Message
    BY ElementOfSeq DEF IInv, TypeOK
  <2>2. TaskAccounted(queue[o][i])
    BY DEF IInv, CallsAccounted, TasksAccounted
  <2>3. ~SameCall(queue[o][i], m)
    BY DEF IInv, OnePlacePerCall, QueuedOnce
  <2> QED
    BY <2>1, <2>2, <2>3 DEF SameCall
<1>11. \A o \in Nodes, w \in Workers : Busy(running[o][w]) =>
          /\ running[o][w] \in Message /\ TaskAccounted(running[o][w])
          /\ ~SameCall(running[o][w], m) /\ ~SameCall(m, running[o][w])
  <2> SUFFICES ASSUME NEW o \in Nodes, NEW w \in Workers, Busy(running[o][w])
               PROVE  /\ running[o][w] \in Message /\ TaskAccounted(running[o][w])
                      /\ ~SameCall(running[o][w], m) /\ ~SameCall(m, running[o][w])
    OBVIOUS
  <2>1. running[o][w] \in Message
    BY DEF Busy, Slot, IInv, TypeOK
  <2>2. TaskAccounted(running[o][w])
    BY DEF IInv, CallsAccounted, TasksAccounted
  <2>3. ~SameCall(running[o][w], m)
    BY DEF IInv, OnePlacePerCall, RunningOnce
  <2> QED
    BY <2>1, <2>2, <2>3 DEF SameCall
<1>12. ASSUME NEW o \in Nodes, NEW i \in 1 .. Len(queue'[o])
       PROVE  \/ i \in 1 .. Len(queue[o]) /\ queue'[o][i] = queue[o][i]
              \/ o = n /\ i = Len(queue[n]) + 1 /\ queue'[o][i] = m
  <2>1. CASE o = n
    BY <1>3, <2>1
  <2>2. CASE o # n
    BY <1>3, <2>2
  <2> QED
    BY <2>1, <2>2
<1>13. OutsideOnce'
  BY <1>7 DEF OutsideOnce, IInv, OnePlacePerCall
<1>14. HeldOnce'
  BY <1>7, <1>9 DEF HeldOnce, IInv, OnePlacePerCall
<1>15. QueuedOnce'
  <2> SUFFICES ASSUME NEW o \in Nodes, NEW i \in 1 .. Len(queue'[o])
               PROVE  /\ \A x \in Outside : ~SameCall(queue'[o][i], x)
                      /\ \A p \in Nodes, k \in Listeners :
                            Busy(held'[p][k]) => ~SameCall(queue'[o][i], held'[p][k])
                      /\ \A p \in Nodes : \A j \in 1 .. Len(queue'[p]) :
                            SameCall(queue'[o][i], queue'[p][j]) => p = o /\ j = i
    BY <1>7 DEF QueuedOnce
  <2>1. \A x \in Outside : ~SameCall(queue'[o][i], x)
    BY <1>8, <1>12 DEF IInv, OnePlacePerCall, QueuedOnce
  <2>2. \A p \in Nodes, k \in Listeners :
           Busy(held'[p][k]) => ~SameCall(queue'[o][i], held'[p][k])
    BY <1>9, <1>12 DEF IInv, OnePlacePerCall, QueuedOnce
  <2>3. ASSUME NEW p \in Nodes, NEW j \in 1 .. Len(queue'[p]),
               SameCall(queue'[o][i], queue'[p][j])
        PROVE  p = o /\ j = i
    BY <1>10, <1>12, <2>3 DEF IInv, OnePlacePerCall, QueuedOnce
  <2> QED
    BY <2>1, <2>2, <2>3
<1>16. RunningOnce'
  <2>1. ASSUME NEW o \in Nodes, NEW w \in Workers, Busy(running[o][w]),
               NEW p \in Nodes, NEW j \in 1 .. Len(queue'[p])
        PROVE  ~SameCall(running[o][w], queue'[p][j])
    BY <1>11, <1>12, <2>1 DEF IInv, OnePlacePerCall, RunningOnce
  <2> QED
    BY <1>7, <1>9, <2>1 DEF RunningOnce, IInv, OnePlacePerCall
<1>17. OutsideAccounted'
  BY <1>6, <1>7, <1>8 DEF OutsideAccounted, IInv, CallsAccounted
<1>18. HeldAccounted'
  BY <1>6, <1>9 DEF HeldAccounted, IInv, CallsAccounted
<1>19. TasksAccounted'
  <2>1. /\ m.id < counter'[m.client]
        /\ m.type = "request" <=> m.id \in handlers'[m.client]
    BY <1>4, <1>5 DEF IInv, CallsAccounted, NodesAccounted
  <2>2. ASSUME NEW x \in Message, TaskAccounted(x), ~SameCall(x, m)
        PROVE  /\ x.id < counter'[x.client]
               /\ x.type = "request" <=> x.id \in handlers'[x.client]
    BY <1>6, <2>2 DEF TaskAccounted, Awaited
  <2>3. ASSUME NEW o \in Nodes, NEW i \in 1 .. Len(queue'[o])
        PROVE  TaskAccounted(queue[o][i])'
    <3> PICK x : x = queue'[o][i]
      OBVIOUS
    <3>1. x = m \/ (x \in Message /\ TaskAccounted(x) /\ ~SameCall(x, m))
      BY <1>10, <1>12
    <3>2. /\ x.id < counter'[x.client]
          /\ x.type = "request" <=> x.id \in handlers'[x.client]
      BY <2>1, <2>2, <3>1
    <3> QED
      BY <3>2 DEF TaskAccounted, Awaited
  <2>4. ASSUME NEW o \in Nodes, NEW w \in Workers, Busy(running[o][w])
        PROVE  TaskAccounted(running[o][w])'
    BY <1>11, <2>2, <2>4 DEF TaskAccounted, Awaited
  <2> QED
    BY <2>3, <2>4 DEF TasksAccounted
<1>20. NodesAccounted'
  <2>1. phase[n] \notin {"closed", "dead"}
    BY DEF Busy, IInv, CallsAccounted, NodesAccounted
  <2> QED
    BY <1>1, <1>5, <2>1 DEF NodesAccounted, IInv, CallsAccounted
<1> QED
  BY <1>13, <1>14, <1>15, <1>16, <1>17, <1>18, <1>19, <1>20
     DEF IInv, OnePlacePerCall, CallsAccounted

\* A pool thread takes the oldest task of its channel.
LEMMA InvPop ==
    ASSUME IInv, TypeOK', NEW n \in Nodes, NEW w \in Workers, Pop(n, w)
    PROVE  IInv'
<1> PICK m : m = Head(queue[n])
  OBVIOUS
<1>1. /\ queue[n] # << >> /\ queue' = [queue EXCEPT ![n] = Tail(@)]
      /\ running' = [running EXCEPT ![n][w] = m]
      /\ UNCHANGED <<counter, handlers, unsent, wire, owed, held, phase>>
  BY DEF Pop, tables, net
<1>2. /\ \A o \in Nodes : o # n => queue'[o] = queue[o]
      /\ Len(queue[n]) \in Nat \ {0}
      /\ Len(queue'[n]) = Len(queue[n]) - 1
      /\ m = queue[n][1]
      /\ \A i \in 1 .. Len(queue[n]) - 1 : queue'[n][i] = queue[n][i + 1]
  BY <1>1, QueueShifted DEF IInv
<1>3. 1 \in 1 .. Len(queue[n])
  BY <1>2
<1>4. /\ running'[n][w] = m
      /\ \A o \in Nodes, v \in Workers :
            ~(o = n /\ v = w) => running'[o][v] = running[o][v]
  BY <1>1 DEF IInv, TypeOK
<1>5. Outside' = Outside
  BY <1>1 DEF Outside
<1>6. /\ \A x \in Outside : ~SameCall(m, x)
      /\ \A o \in Nodes, l \in Listeners : Busy(held[o][l]) => ~SameCall(m, held[o][l])
      /\ \A o \in Nodes : \A j \in 1 .. Len(queue[o]) :
            SameCall(m, queue[o][j]) => o = n /\ j = 1
  BY <1>2, <1>3 DEF IInv, OnePlacePerCall, QueuedOnce
<1>7. \A o \in Nodes, v \in Workers :
         Busy(running[o][v]) => ~SameCall(running[o][v], m) /\ ~SameCall(m, running[o][v])
  BY <1>2, <1>3 DEF SameCall, IInv, OnePlacePerCall, RunningOnce
<1>8. ASSUME NEW o \in Nodes, NEW i \in 1 .. Len(queue'[o])
      PROVE  \/ o # n /\ i \in 1 .. Len(queue[o]) /\ queue'[o][i] = queue[o][i]
             \/ o = n /\ i + 1 \in 1 .. Len(queue[n]) /\ i + 1 # 1
                /\ queue'[o][i] = queue[n][i + 1]
  <2>1. CASE o = n
    BY <1>2, <2>1
  <2>2. CASE o # n
    BY <1>2, <2>2
  <2> QED
    BY <2>1, <2>2
<1>9. OutsideOnce' /\ HeldOnce'
  BY <1>1, <1>5 DEF OutsideOnce, HeldOnce, IInv, OnePlacePerCall
<1>10. QueuedOnce'
  <2>1. ASSUME NEW o \in Nodes, NEW i \in 1 .. Len(queue'[o])
        PROVE  /\ \A x \in Outside : ~SameCall(queue'[o][i], x)
               /\ \A p \in Nodes, k \in Listeners :
                     Busy(held[p][k]) => ~SameCall(queue'[o][i], held[p][k])
    BY <1>8 DEF IInv, OnePlacePerCall, QueuedOnce
  <2>2. ASSUME NEW o \in Nodes, NEW i \in 1 .. Len(queue'[o]),
               NEW p \in Nodes, NEW j \in 1 .. Len(queue'[p]),
               SameCall(queue'[o][i], queue'[p][j])
        PROVE  p = o /\ j = i
    <3>1. i \in Int /\ j \in Int
      OBVIOUS
    <3>2. \A a, b \in Nodes : \A f \in 1 .. Len(queue[a]), g \in 1 .. Len(queue[b]) :
             SameCall(queue[a][f], queue[b][g]) => b = a /\ g = f
      BY DEF IInv, OnePlacePerCall, QueuedOnce
    <3> QED
      BY <1>8, <2>2, <3>1, <3>2
  <2> QED
    BY <1>1, <1>5, <2>1, <2>2 DEF QueuedOnce
<1>11. RunningOnce'
  <2>1. ASSUME NEW o \in Nodes, NEW v \in Workers, Busy(running'[o][v])
        PROVE  /\ \A x \in Outside : ~SameCall(running'[o][v], x)
               /\ \A p \in Nodes, k \in Listeners :
                     Busy(held[p][k]) => ~SameCall(running'[o][v], held[p][k])
    BY <1>4, <1>6, <2>1 DEF IInv, OnePlacePerCall, RunningOnce
  <2>2. ASSUME NEW o \in Nodes, NEW v \in Workers, Busy(running'[o][v]),
               NEW p \in Nodes, NEW j \in 1 .. Len(queue'[p])
        PROVE  ~SameCall(running'[o][v], queue'[p][j])
    <3>1. CASE o = n /\ v = w
      BY <1>4, <1>6, <1>8, <3>1
    <3>2. CASE ~(o = n /\ v = w)
      BY <1>4, <1>8, <2>2, <3>2 DEF IInv, OnePlacePerCall, RunningOnce
    <3> QED
      BY <3>1, <3>2
  <2>3. ASSUME NEW o \in Nodes, NEW v \in Workers, Busy(running'[o][v]),
               NEW p \in Nodes, NEW u \in Workers, Busy(running'[p][u]),
               SameCall(running'[o][v], running'[p][u])
        PROVE  p = o /\ u = v
    BY <1>4, <1>7, <2>3 DEF IInv, OnePlacePerCall, RunningOnce
  <2> QED
    BY <1>1, <1>5, <2>1, <2>2, <2>3 DEF RunningOnce
<1>12. OutsideAccounted' /\ HeldAccounted' /\ NodesAccounted'
  BY <1>1, <1>5 DEF OutsideAccounted, HeldAccounted, NodesAccounted, Awaited,
                    IInv, CallsAccounted
<1>13. TasksAccounted'
  <2>1. TaskAccounted(m)
    BY <1>2, <1>3 DEF IInv, CallsAccounted, TasksAccounted
  <2>2. ASSUME NEW o \in Nodes, NEW i \in 1 .. Len(queue'[o])
        PROVE  TaskAccounted(queue'[o][i])
    BY <1>8 DEF IInv, CallsAccounted, TasksAccounted
  <2>3. ASSUME NEW o \in Nodes, NEW v \in Workers, Busy(running'[o][v])
        PROVE  TaskAccounted(running'[o][v])
    BY <1>4, <2>1, <2>3 DEF IInv, CallsAccounted, TasksAccounted
  <2> QED
    BY <1>1, <2>2, <2>3 DEF TasksAccounted, TaskAccounted, Awaited
<1> QED
  BY <1>9, <1>10, <1>11, <1>12, <1>13 DEF IInv, OnePlacePerCall, CallsAccounted

\* The handler runs: the call is now an answer on the wire, or owed.
LEMMA InvRunHandler ==
    ASSUME IInv, TypeOK', NEW n \in Nodes, NEW w \in Workers, RunHandler(n, w)
    PROVE  IInv'
<1> PICK m : m = running[n][w]
  OBVIOUS
<1> PICK x : x = IF m.class \in Deferred THEN m ELSE Response(m)
  OBVIOUS
<1>1. m \in Message /\ m.type = "request" /\ Busy(m)
  BY BusySlot DEF RunHandler, Runs, Busy, IInv, TypeOK
<1>2. /\ x \in Message /\ SameCall(x, m)
      /\ x.type = "response" => x.to = x.client
  BY <1>1, ResponseType DEF SameCall
<1>3. /\ running' = [running EXCEPT ![n][w] = Idle]
      /\ UNCHANGED <<counter, handlers, unsent, held, queue, phase>>
      /\ \/ owed' = owed \cup {x} /\ wire' = wire
         \/ wire' = wire \cup {x} /\ owed' = owed
  BY DEF RunHandler, Finish, tables
<1>4. /\ running'[n][w] = Idle
      /\ \A o \in Nodes, v \in Workers :
            ~(o = n /\ v = w) => running'[o][v] = running[o][v]
  BY <1>3 DEF IInv, TypeOK
<1>5. Outside' = Outside \cup {x}
  BY <1>3 DEF Outside
<1>6. /\ \A y \in Outside : ~SameCall(m, y)
      /\ \A o \in Nodes, l \in Listeners : Busy(held[o][l]) => ~SameCall(m, held[o][l])
      /\ \A o \in Nodes : \A j \in 1 .. Len(queue[o]) : ~SameCall(m, queue[o][j])
      /\ \A o \in Nodes, v \in Workers :
            Busy(running[o][v]) /\ SameCall(m, running[o][v]) => o = n /\ v = w
  BY <1>1 DEF IInv, OnePlacePerCall, RunningOnce
<1>7. \A y : (SameCall(m, y) <=> SameCall(x, y)) /\ (SameCall(m, y) <=> SameCall(y, x))
  BY <1>2 DEF SameCall
<1>8. \A o \in Nodes, v \in Workers :
         Busy(running'[o][v]) => /\ ~(o = n /\ v = w) /\ running'[o][v] = running[o][v]
                                 /\ Busy(running[o][v])
  BY <1>4 DEF Busy
<1>9. OutsideOnce'
  <2>1. x \notin Outside
    BY <1>6, <1>7 DEF SameCall
  <2>2. (unsent \cap wire = {} /\ unsent \cap owed = {} /\ wire \cap owed = {})'
    BY <1>3, <2>1 DEF Outside, OutsideOnce, IInv, OnePlacePerCall
  <2>3. \A a, b \in Outside' : SameCall(a, b) => a = b
    BY <1>5, <1>6, <1>7 DEF OutsideOnce, IInv, OnePlacePerCall
  <2> QED
    BY <2>2, <2>3 DEF OutsideOnce
<1>10. HeldOnce'
  BY <1>3, <1>5, <1>6, <1>7 DEF HeldOnce, IInv, OnePlacePerCall
<1>11. QueuedOnce'
  BY <1>3, <1>5, <1>6, <1>7 DEF QueuedOnce, IInv, OnePlacePerCall
<1>12. RunningOnce'
  BY <1>3, <1>5, <1>6, <1>7, <1>8 DEF RunningOnce, IInv, OnePlacePerCall
<1>13. OutsideAccounted'
  <2>1. TaskAccounted(m)
    BY <1>1 DEF IInv, CallsAccounted, TasksAccounted
  <2>2. Awaited(m) /\ Awaited(x)
    BY <1>1, <1>2, <2>1 DEF TaskAccounted, Awaited, SameCall
  <2> QED
    BY <1>2, <1>3, <1>5, <2>2 DEF OutsideAccounted, Awaited, IInv, CallsAccounted
<1>14. HeldAccounted' /\ NodesAccounted'
  BY <1>3 DEF HeldAccounted, NodesAccounted, Awaited, IInv, CallsAccounted
<1>15. TasksAccounted'
  BY <1>3, <1>8 DEF TasksAccounted, TaskAccounted, Awaited, IInv, CallsAccounted
<1> QED
  BY <1>9, <1>10, <1>11, <1>12, <1>13, <1>14, <1>15
     DEF IInv, OnePlacePerCall, CallsAccounted

\* Steps that only move a node to another phase of its life.
LEMMA InvPhase ==
    ASSUME IInv, TypeOK', NEW n \in Nodes, NEW p,
           phase' = [phase EXCEPT ![n] = p],
           UNCHANGED <<counter, handlers, unsent, wire, owed, queue, held, running>>,
           p \in {"exiting", "closed", "dead"} => handlers[n] = {},
           p \in {"closed", "dead"} => \A l \in Listeners : held[n][l] = Exited
    PROVE  IInv'
<1>1. NodesAccounted'
  BY DEF NodesAccounted, IInv, TypeOK, CallsAccounted
<1> QED
  BY <1>1, InvUnmoved

LEMMA InvTakePoison ==
    ASSUME IInv, TypeOK', NEW n \in Nodes, NEW l \in Listeners, TakePoison(n, l)
    PROVE  IInv'
<1>1. /\ UNCHANGED <<counter, handlers, unsent, wire, owed, queue, running, phase>>
      /\ held[n][l] = Idle /\ held' = [held EXCEPT ![n][l] = Exited]
  BY DEF TakePoison, tables, net
<1>2. /\ held'[n][l] = Exited
      /\ \A o \in Nodes, k \in Listeners :
            ~(o = n /\ k = l) => held'[o][k] = held[o][k]
  BY <1>1 DEF IInv, TypeOK
<1>3. \A o \in Nodes, k \in Listeners :
         Busy(held'[o][k]) => Busy(held[o][k]) /\ held'[o][k] = held[o][k]
  BY <1>2 DEF Busy
<1>4. NodesAccounted'
  BY <1>1, <1>2 DEF NodesAccounted, IInv, CallsAccounted
<1> QED
  BY <1>1, <1>3, <1>4, InvUnmoved

\* A pool thread becomes idle or ends.
LEMMA InvLetGo ==
    ASSUME IInv, TypeOK', NEW n \in Nodes, NEW w \in Workers, NEW x \in {Idle, Exited},
           running' = [running EXCEPT ![n][w] = x],
           UNCHANGED <<counter, handlers, unsent, wire, owed, queue, held, phase>>
    PROVE  IInv'
<1>1. /\ running'[n][w] = x
      /\ \A o \in Nodes, v \in Workers :
            ~(o = n /\ v = w) => running'[o][v] = running[o][v]
  BY DEF IInv, TypeOK
<1>2. \A o \in Nodes, v \in Workers :
         Busy(running'[o][v]) => Busy(running[o][v]) /\ running'[o][v] = running[o][v]
  BY <1>1 DEF Busy
<1>3. NodesAccounted'
  BY DEF NodesAccounted, IInv, CallsAccounted
<1> QED
  BY <1>2, <1>3, InvUnmoved

LEMMA InvDispatchRequest ==
    ASSUME IInv, TypeOK', NEW n \in Nodes, NEW l \in Listeners, DispatchRequest(n, l)
    PROVE  IInv'
<1> PICK m : m = held[n][l]
  OBVIOUS
<1>1. m \in Message /\ m.type = "request" /\ Busy(m)
  BY BusySlot DEF DispatchRequest, Holds, Busy, IInv, TypeOK
<1>2. UNCHANGED <<counter, handlers, unsent, wire, owed, running>>
  BY DEF DispatchRequest, tables, net
<1>3. CASE Enqueue(n, l) /\ UNCHANGED phase
  BY <1>1, <1>2, <1>3, InvEnqueue
<1>4. ASSUME NEW p \in {"unknown class", "channel closed"}, Abort(n, p),
             UNCHANGED <<held, queue>>
      PROVE  IInv'
  <2>1. p \notin {"exiting", "closed", "dead"}
    BY <1>4
  <2> QED
    BY <1>2, <1>4, <2>1, InvPhase DEF Abort
<1> QED
  BY <1>3, <1>4 DEF DispatchRequest

LEMMA InvDispatchResponse ==
    ASSUME IInv, TypeOK', NEW n \in Nodes, NEW l \in Listeners, DispatchResponse(n, l)
    PROVE  IInv'
<1> PICK m : m = held[n][l]
  OBVIOUS
<1>1. m \in Message /\ m.type = "response" /\ Busy(m)
  BY BusySlot DEF DispatchResponse, Holds, Busy, IInv, TypeOK
<1>2. UNCHANGED <<counter, unsent, wire, owed, running>>
  BY DEF DispatchResponse, net
<1>3. CASE /\ handlers' = [handlers EXCEPT ![n] = @ \ {m.id}]
           /\ Enqueue(n, l)
           /\ UNCHANGED phase
  BY <1>1, <1>2, <1>3, InvEnqueue
<1>4. CASE Abort(n, "orphan response") /\ UNCHANGED <<handlers, held, queue>>
  BY <1>2, <1>4, InvPhase DEF Abort
<1> QED
  BY <1>3, <1>4 DEF DispatchResponse

LEMMA InvExitStep ==
    ASSUME IInv, TypeOK', NEW n \in Nodes, ExitStep(n)
    PROVE  IInv'
<1>1. UNCHANGED <<counter, handlers, unsent, wire, owed, queue, held, running>>
  BY DEF ExitStep, BeginExit, CloseChannel, JoinWorkers, tables, net, threads
<1>2. CASE BeginExit(n)
  <2>1. CASE handlers[n] = {} /\ phase' = [phase EXCEPT ![n] = "exiting"]
    BY <1>1, <2>1, InvPhase
  <2>2. CASE phase' = [phase EXCEPT ![n] = "reply missing"]
    BY <1>1, <2>2, InvPhase
  <2> QED
    BY <1>2, <2>1, <2>2 DEF BeginExit, Abort
<1>3. CASE CloseChannel(n)
  BY <1>1, <1>3, InvPhase DEF CloseChannel, IInv, CallsAccounted, NodesAccounted
<1>4. CASE JoinWorkers(n)
  BY <1>1, <1>4, InvPhase DEF JoinWorkers, IInv, CallsAccounted, NodesAccounted
<1> QED
  BY <1>2, <1>3, <1>4 DEF ExitStep

LEMMA InvNext == IInv /\ [Next]_vars => IInv'
<1> SUFFICES ASSUME IInv, [Next]_vars
             PROVE  IInv'
  OBVIOUS
<1>1. TypeOK'
  BY TypeNext DEF IInv
<1>2. CASE UNCHANGED vars
  <2>1. UNCHANGED <<counter, handlers, unsent, wire, owed, queue, held, running, phase>>
    BY <1>2 DEF vars, tables, net, threads
  <2>2. NodesAccounted'
    BY <2>1 DEF NodesAccounted, IInv, CallsAccounted
  <2> QED
    BY <1>1, <2>1, <2>2, InvUnmoved
<1>3. ASSUME NEW m \in unsent, Transmit(m)
      PROVE  IInv'
  BY <1>1, <1>3, InvTransmit
<1>4. ASSUME NEW m \in owed, SendDeferred(m)
      PROVE  IInv'
  BY <1>1, <1>4, InvSendDeferred
<1>5. ASSUME NEW n \in Nodes, NEW c \in Classes, AddClass(n, c)
      PROVE  IInv'
  <2>1. UNCHANGED <<counter, handlers, unsent, wire, owed, queue, held, running, phase>>
    BY <1>5 DEF AddClass, net, threads
  <2>2. NodesAccounted'
    BY <2>1 DEF NodesAccounted, IInv, CallsAccounted
  <2> QED
    BY <1>1, <2>1, <2>2, InvUnmoved
<1>6. ASSUME NEW n \in Nodes, NEW to \in Nodes, NEW c \in Classes, Send(n, to, c)
      PROVE  IInv'
  BY <1>1, <1>6, InvSend
<1>7. ASSUME NEW n \in Nodes, NEW l \in Listeners, ListenerStep(n, l)
      PROVE  IInv'
  BY <1>1, <1>7, InvReceive, InvTakePoison, InvDispatchRequest, InvDispatchResponse
     DEF ListenerStep
<1>8. ASSUME NEW n \in Nodes, NEW w \in Workers, WorkerStep(n, w)
      PROVE  IInv'
  <2>1. CASE RunCallback(n, w)
    BY <1>1, <2>1, InvLetGo DEF RunCallback, Finish, tables, net
  <2>2. CASE WorkerExit(n, w)
    BY <1>1, <2>2, InvLetGo DEF WorkerExit, tables, net
  <2> QED
    BY <1>1, <1>8, <2>1, <2>2, InvPop, InvRunHandler DEF WorkerStep
<1>9. ASSUME NEW n \in Nodes, ExitStep(n)
      PROVE  IInv'
  BY <1>1, <1>9, InvExitStep
<1> QED
  BY <1>2, <1>3, <1>4, <1>5, <1>6, <1>7, <1>8, <1>9 DEF Next, AppStep

LEMMA InductiveInvariant == Spec => []IInv
  BY InvInit, InvNext, PTL DEF Spec

-----------------------------------------------------------------------------
(* What follows from the inductive invariant.                              *)

(***************************************************************************)
(* Every call's request, response or callback task is in one place only,   *)
(* whatever listeners and pool threads work at the same time               *)
(* (transfer.h:119-208).                                                   *)
(***************************************************************************)
THEOREM CallsAreInOnePlace == Spec => []OnePlacePerCall
<1>1. IInv => OnePlacePerCall
  BY DEF IInv
<1> QED
  BY <1>1, InductiveInvariant, PTL

(***************************************************************************)
(* _msg_handlers and _msg_id_counter of every node agree with the messages *)
(* and tasks under way (transfer.h:87-97, 183-208, 243-245).               *)
(***************************************************************************)
THEOREM TablesAgree == Spec => []CallsAccounted
<1>1. IInv => CallsAccounted
  BY DEF IInv
<1> QED
  BY <1>1, InductiveInvariant, PTL

(***************************************************************************)
(* A response always finds the callback that waits for it: the CHECKs of   *)
(* handle_response (transfer.h:187, 197) hold for any number of nodes,     *)
(* threads and calls.                                                      *)
(***************************************************************************)
THEOREM ResponsesAreAwaited == Spec => []NoOrphanResponse
<1>1. IInv => NoOrphanResponse
  <2> SUFFICES ASSUME IInv PROVE NoOrphanResponse
    OBVIOUS
  <2>1. ASSUME NEW m \in wire, m.type = "response"
        PROVE  m.id \in handlers[m.to]
    BY <2>1 DEF IInv, CallsAccounted, OutsideAccounted, Awaited, Outside
  <2>2. ASSUME NEW n \in Nodes, NEW l \in Listeners, Holds(n, l, "response")
        PROVE  held[n][l].id \in handlers[n]
    BY <2>2 DEF IInv, CallsAccounted, HeldAccounted, Awaited, Holds, Busy
  <2> QED
    BY <2>1, <2>2 DEF NoOrphanResponse
<1> QED
  BY <1>1, InductiveInvariant, PTL

(***************************************************************************)
(* LeavesNothingOutstanding: a Transfer whose destructor has passed        *)
(* CHECK(service_complete()) (transfer.h:244) is never addressed again by  *)
(* anything on its way.                                                    *)
(***************************************************************************)
THEOREM ExitLeavesNothing == Spec => []LeavesNothingOutstanding
<1>1. IInv => LeavesNothingOutstanding
  <2> SUFFICES ASSUME IInv, NEW n \in Nodes, phase[n] \in {"exiting", "closed", "dead"}
               PROVE  /\ \A m \in Outside : m.client # n
                      /\ \A o \in Nodes, l \in Listeners :
                            Busy(held[o][l]) => held[o][l].client # n
                      /\ \A o \in Nodes, w \in Workers :
                            Runs(o, w, "request") => running[o][w].client # n
    BY DEF LeavesNothingOutstanding
  <2>1. handlers[n] = {}
    BY DEF IInv, CallsAccounted, NodesAccounted
  <2>2. \A m \in Outside : m.client # n
    BY <2>1 DEF IInv, CallsAccounted, OutsideAccounted, Awaited
  <2>3. \A o \in Nodes, l \in Listeners : Busy(held[o][l]) => held[o][l].client # n
    BY <2>1 DEF IInv, CallsAccounted, HeldAccounted, Awaited
  <2>4. \A o \in Nodes, w \in Workers :
           Runs(o, w, "request") => running[o][w].client # n
    BY <2>1 DEF IInv, CallsAccounted, TasksAccounted, TaskAccounted, Awaited, Runs, Busy
  <2> QED
    BY <2>2, <2>3, <2>4
<1> QED
  BY <1>1, InductiveInvariant, PTL

(***************************************************************************)
(* The CHECKs on the id, on the channel and on a response's callback       *)
(* (transfer.h:92, 157, 187, 197) never fail; only an unregistered class   *)
(* and a missing reply can abort a node.                                   *)
(***************************************************************************)
THEOREM FewChecksFail == Spec => []OnlyTwoChecksFail
<1>1. Init => OnlyTwoChecksFail
  BY DEF Init, OnlyTwoChecksFail
<1>2. IInv /\ OnlyTwoChecksFail /\ [Next]_vars => OnlyTwoChecksFail'
  <2> SUFFICES ASSUME IInv, OnlyTwoChecksFail, [Next]_vars
               PROVE  OnlyTwoChecksFail'
    OBVIOUS
  <2>1. CASE UNCHANGED phase
    BY <2>1 DEF OnlyTwoChecksFail
  <2>2. ASSUME NEW n \in Nodes, NEW p,
               p \notin {"id reused", "channel closed", "orphan response"},
               phase' = [phase EXCEPT ![n] = p]
        PROVE  OnlyTwoChecksFail'
    BY <2>2 DEF OnlyTwoChecksFail, IInv, TypeOK
  <2>3. ASSUME NEW n \in Nodes, NEW to \in Nodes, NEW c \in Classes, Send(n, to, c)
        PROVE  UNCHANGED phase
    <3>1. \A i \in handlers[n] : i < counter[n]
      BY DEF IInv, CallsAccounted, NodesAccounted
    <3>2. counter[n] \in Nat
      BY TransferAssumption DEF IInv, TypeOK
    <3>3. counter[n] \notin handlers[n]
      BY <3>1, <3>2
    <3> QED
      BY <2>3, <3>3 DEF Send
  <2>4. ASSUME NEW n \in Nodes, NEW l \in Listeners, DispatchRequest(n, l)
        PROVE  UNCHANGED phase \/ Abort(n, "unknown class")
    <3>1. held[n][l] # Exited
      BY <2>4 DEF DispatchRequest, Holds
    <3>2. phase[n] \notin {"closed", "dead"}
      BY <3>1 DEF IInv, CallsAccounted, NodesAccounted
    <3> QED
      BY <2>4, <3>2 DEF DispatchRequest
  <2>5. ASSUME NEW n \in Nodes, NEW l \in Listeners, DispatchResponse(n, l)
        PROVE  UNCHANGED phase
    <3>1. /\ held[n][l].client = n
          /\ held[n][l].id \in handlers[n]
      BY <2>5 DEF DispatchResponse, Holds, Busy, IInv, CallsAccounted,
                  HeldAccounted, Awaited
    <3> QED
      BY <2>5, <3>1 DEF DispatchResponse
  <2>6. ASSUME NEW n \in Nodes, ExitStep(n)
        PROVE  OnlyTwoChecksFail'
    <3>1. \/ phase' = [phase EXCEPT ![n] = "exiting"]
          \/ phase' = [phase EXCEPT ![n] = "reply missing"]
          \/ phase' = [phase EXCEPT ![n] = "closed"]
          \/ phase' = [phase EXCEPT ![n] = "dead"]
      BY <2>6 DEF ExitStep, BeginExit, CloseChannel, JoinWorkers, Abort
    <3> QED
      BY <2>2, <3>1
  <2>7. ASSUME NEW n \in Nodes, NEW l \in Listeners, ListenerStep(n, l)
        PROVE  OnlyTwoChecksFail'
    BY <2>1, <2>2, <2>4, <2>5, <2>7
       DEF ListenerStep, Receive, TakePoison, Abort
  <2>8. ASSUME NEW n \in Nodes, NEW w \in Workers, WorkerStep(n, w)
        PROVE  UNCHANGED phase
    BY <2>8 DEF WorkerStep, Pop, RunHandler, RunCallback, WorkerExit
  <2> QED
    BY <2>1, <2>3, <2>6, <2>7, <2>8
       DEF Next, AppStep, Transmit, SendDeferred, AddClass, vars
<1> QED
  BY <1>1, <1>2, InductiveInvariant, PTL DEF Spec

-----------------------------------------------------------------------------
(* The refinement of Rpc.  What has been executed for a call agrees with   *)
(* where its message is.                                                   *)

\* The call of m has not been served; has been served but has not returned.
Unserved(m) == served[m.client][m.id] = 0
Unreturned(m) == served[m.client][m.id] = 1 /\ returned[m.client][m.id] = 0

\* What a message or task on its way says of its call.
Fits(m) == IF m.type = "request" THEN Unserved(m) ELSE Unreturned(m)

OnItsWay(m) ==
    \/ m \in unsent \cup wire
    \/ \E n \in Nodes, l \in Listeners : Busy(held[n][l]) /\ held[n][l] = m
    \/ \E n \in Nodes : \E i \in 1 .. Len(queue[n]) : queue[n][i] = m
    \/ \E n \in Nodes, w \in Workers : Busy(running[n][w]) /\ running[n][w] = m

CallsProceed ==
    \A n \in Nodes : \A i \in Ids :
       /\ <<served[n][i], returned[n][i]>> \in {<<0, 0>>, <<1, 0>>, <<1, 1>>}
       /\ i >= counter[n] => served[n][i] = 0

HistoryInv ==
    /\ CallsProceed
    /\ \A m \in Message : OnItsWay(m) => Fits(m)
    /\ \A m \in owed : Unreturned(m)

LEMMA HistoryInit == Init => HistoryInv
<1> SUFFICES ASSUME Init PROVE HistoryInv
  OBVIOUS
<1>1. \A n \in Nodes : \A i \in Ids : served[n][i] = 0 /\ returned[n][i] = 0
  BY DEF Init
<1>2. \A n \in Nodes : Len(queue[n]) = 0
  BY DEF Init
<1>3. \A m \in Message : ~OnItsWay(m)
  BY <1>2 DEF Init, OnItsWay, Busy
<1> QED
  BY <1>1, <1>3 DEF Init, HistoryInv, CallsProceed

\* Steps that execute nothing and only move messages.
LEMMA HistoryMoved ==
    ASSUME HistoryInv, UNCHANGED <<counter, history>>,
           \A m \in Message : OnItsWay(m)' => Fits(m),
           \A m \in owed' : Unreturned(m)
    PROVE  HistoryInv'
  BY DEF HistoryInv, CallsProceed, Fits, Unserved, Unreturned, history

LEMMA HistorySend ==
    ASSUME IInv, HistoryInv, NEW n \in Nodes, NEW to \in Nodes, NEW c \in Classes,
           Send(n, to, c)
    PROVE  HistoryInv'
<1> PICK m : m = [type |-> "request", client |-> n, to |-> to,
                  id |-> counter[n], class |-> c]
  OBVIOUS
<1>0. m.type = "request" /\ m.client = n /\ m.id = counter[n]
  OBVIOUS
<1>1. counter[n] \in Ids /\ counter \in [Nodes -> 0 .. MaxSends] /\ MaxSends \in Nat
  <2>1. counter \in [Nodes -> 0 .. MaxSends] /\ counter[n] < MaxSends /\ MaxSends \in Nat
    BY TransferAssumption DEF IInv, TypeOK, Send
  <2>2. counter[n] \in 0 .. MaxSends
    BY <2>1
  <2> QED
    BY <2>1, <2>2 DEF Ids
<1>2. UNCHANGED <<history, wire, owed, held, queue, running>>
  BY DEF Send, threads
<1>3. \/ counter' = [counter EXCEPT ![n] = counter[n] + 1]
      \/ counter' = counter
  BY DEF Send
<1>4. unsent' \subseteq unsent \cup {m}
  BY DEF Send
<1>5. Unserved(m)
  <2>1. served[n][counter[n]] = 0
    BY <1>1 DEF HistoryInv, CallsProceed
  <2> QED
    BY <1>0, <2>1 DEF Unserved
<1>6. CallsProceed'
  <2> SUFFICES ASSUME NEW o \in Nodes, NEW i \in Ids
               PROVE  /\ <<served[o][i], returned[o][i]>> \in {<<0, 0>>, <<1, 0>>, <<1, 1>>}
                      /\ i >= counter'[o] => served[o][i] = 0
    BY <1>2 DEF CallsProceed, history
  <2>1. i >= counter'[o] => i >= counter[o]
    <3>1. counter[o] \in Nat /\ i \in Nat /\ counter[n] \in Nat
      BY <1>1 DEF Ids
    <3>2. counter'[o] = counter[o] \/ (o = n /\ counter'[o] = counter[o] + 1)
      BY <1>1, <1>3
    <3> QED
      BY <3>1, <3>2
  <2> QED
    BY <2>1 DEF HistoryInv, CallsProceed
<1>7. ASSUME NEW x \in Message, OnItsWay(x)' PROVE Fits(x)'
  <2>1. OnItsWay(x) \/ x = m
    BY <1>2, <1>4, <1>7 DEF OnItsWay, Busy
  <2>2. Fits(x)
    BY <1>0, <1>5, <2>1 DEF HistoryInv, Fits
  <2> QED
    BY <1>2, <2>2 DEF Fits, Unserved, Unreturned, history
<1> QED
  BY <1>2, <1>6, <1>7 DEF HistoryInv, Unreturned, history

LEMMA HistoryTransmit ==
    ASSUME HistoryInv, NEW m \in unsent, Transmit(m)
    PROVE  HistoryInv'
<1>1. UNCHANGED <<counter, history, owed, held, queue, running>>
  BY DEF Transmit, tables, threads
<1>2. unsent' \cup wire' = unsent \cup wire
  BY DEF Transmit
<1>3. \A x \in Message : OnItsWay(x)' => OnItsWay(x)
  BY <1>1, <1>2 DEF OnItsWay, Busy
<1> QED
  BY <1>1, <1>3, HistoryMoved DEF HistoryInv

LEMMA HistorySendDeferred ==
    ASSUME IInv, HistoryInv, NEW m \in owed, SendDeferred(m)
    PROVE  HistoryInv'
<1>1. UNCHANGED <<counter, history, unsent, held, queue, running>>
  BY DEF SendDeferred, tables, threads
<1>2. wire' = wire \cup {Response(m)} /\ owed' \subseteq owed
  BY DEF SendDeferred
<1>3. m \in Message
  BY DEF IInv, TypeOK
<1>4. Fits(Response(m))
  BY <1>3, ResponseType DEF HistoryInv, Fits, Unreturned
<1>5. \A x \in Message : OnItsWay(x)' => OnItsWay(x) \/ x = Response(m)
  BY <1>1, <1>2 DEF OnItsWay, Busy
<1> QED
  BY <1>1, <1>2, <1>4, <1>5, HistoryMoved DEF HistoryInv

LEMMA HistoryReceive ==
    ASSUME IInv, HistoryInv, NEW n \in Nodes, NEW l \in Listeners, NEW m \in wire,
           Receive(n, l, m)
    PROVE  HistoryInv'
<1>1. /\ UNCHANGED <<counter, history, unsent, owed, queue, running>>
      /\ wire' \subseteq wire
  BY DEF Receive, tables
<1>2. \A o \in Nodes, k \in Listeners : held'[o][k] = held[o][k] \/ held'[o][k] = m
  BY DEF Receive, IInv, TypeOK
<1>3. \A x \in Message : OnItsWay(x)' => OnItsWay(x)
  BY <1>1, <1>2 DEF OnItsWay, Busy
<1> QED
  BY <1>1, <1>3, HistoryMoved DEF HistoryInv

\* Threads that let go of what they carry, or keep it.
LEMMA HistoryLetGo ==
    ASSUME HistoryInv, UNCHANGED <<counter, history, unsent, wire, owed, queue>>,
           \A n \in Nodes, l \in Listeners :
              held'[n][l] = held[n][l] \/ ~Busy(held'[n][l]),
           \A n \in Nodes, w \in Workers :
              running'[n][w] = running[n][w] \/ ~Busy(running'[n][w])
    PROVE  HistoryInv'
<1>1. \A x \in Message : OnItsWay(x)' => OnItsWay(x)
  BY DEF OnItsWay, Busy
<1> QED
  BY <1>1, HistoryMoved DEF HistoryInv

LEMMA HistoryEnqueue ==
    ASSUME IInv, HistoryInv, NEW n \in Nodes, NEW l \in Listeners,
           Busy(held[n][l]), Enqueue(n, l),
           UNCHANGED <<counter, history, unsent, wire, owed, running>>
    PROVE  HistoryInv'
<1> PICK m : m = held[n][l]
  OBVIOUS
<1>1. m \in Message /\ Busy(m)
  BY BusySlot DEF Busy, IInv, TypeOK
<1>2. queue' = [queue EXCEPT ![n] = Append(@, m)] /\ TypeOK
  BY DEF Enqueue, IInv
<1>3. /\ \A o \in Nodes : o # n => queue'[o] = queue[o]
      /\ Len(queue[n]) \in Nat
      /\ Len(queue'[n]) = Len(queue[n]) + 1
      /\ queue'[n][Len(queue[n]) + 1] = m
      /\ \A i \in 1 .. Len(queue[n]) : queue'[n][i] = queue[n][i]
  BY <1>1, <1>2, QueueAppended
<1>4. \A o \in Nodes, k \in Listeners :
         held'[o][k] = held[o][k] \/ ~Busy(held'[o][k])
  BY DEF Enqueue, IInv, TypeOK, Busy
<1>5. ASSUME NEW o \in Nodes, NEW i \in 1 .. Len(queue'[o])
      PROVE  queue'[o][i] = m \/ \E j \in 1 .. Len(queue[o]) : queue'[o][i] = queue[o][j]
  <2>1. CASE o # n
    BY <1>3, <1>5, <2>1
  <2>2. CASE o = n
    <3>1. i = Len(queue[n]) + 1 \/ i \in 1 .. Len(queue[n])
      BY <1>3, <1>5, <2>2
    <3> QED
      BY <1>3, <2>2, <3>1
  <2> QED
    BY <2>1, <2>2
<1>6. \A x \in Message : OnItsWay(x)' => OnItsWay(x)
  BY <1>1, <1>4, <1>5 DEF OnItsWay, Busy
<1> QED
  BY <1>6, HistoryMoved DEF HistoryInv

LEMMA HistoryPop ==
    ASSUME IInv, HistoryInv, NEW n \in Nodes, NEW w \in Workers, Pop(n, w)
    PROVE  HistoryInv'
<1>1. /\ UNCHANGED <<counter, history, unsent, wire, owed, held>>
      /\ queue[n] # << >> /\ queue' = [queue EXCEPT ![n] = Tail(@)] /\ TypeOK
      /\ running' = [running EXCEPT ![n][w] = Head(queue[n])]
  BY DEF Pop, tables, net, IInv
<1>2. /\ \A o \in Nodes : o # n => queue'[o] = queue[o]
      /\ Len(queue[n]) \in Nat \ {0}
      /\ Len(queue'[n]) = Len(queue[n]) - 1
      /\ Head(queue[n]) = queue[n][1]
      /\ \A i \in 1 .. Len(queue[n]) - 1 : queue'[n][i] = queue[n][i + 1]
  BY <1>1, QueueShifted
<1>3. \A o \in Nodes, v \in Workers :
         running'[o][v] = running[o][v] \/ (o = n /\ running'[o][v] = queue[n][1])
  BY <1>1, <1>2 DEF TypeOK
<1>4. 1 \in 1 .. Len(queue[n])
  BY <1>2
<1>5. ASSUME NEW o \in Nodes, NEW i \in 1 .. Len(queue'[o])
      PROVE  \E j \in 1 .. Len(queue[o]) : queue'[o][i] = queue[o][j]
  <2>1. CASE o # n
    BY <1>2, <1>5, <2>1
  <2>2. CASE o = n
    <3>1. i \in 1 .. Len(queue[n]) - 1 /\ i + 1 \in 1 .. Len(queue[n])
      BY <1>2, <1>5, <2>2
    <3> QED
      BY <1>2, <2>2, <3>1
  <2> QED
    BY <2>1, <2>2
<1>6. ASSUME NEW x \in Message, OnItsWay(x)' PROVE OnItsWay(x)
  <2>1. CASE x \in unsent \cup wire \/ \E o \in Nodes, l \in Listeners : Busy(held[o][l]) /\ held[o][l] = x
    BY <2>1 DEF OnItsWay
  <2>2. ASSUME NEW o \in Nodes, NEW i \in 1 .. Len(queue'[o]), queue'[o][i] = x
        PROVE  OnItsWay(x)
    BY <1>5, <2>2 DEF OnItsWay
  <2>3. ASSUME NEW o \in Nodes, NEW v \in Workers, Busy(running'[o][v]), running'[o][v] = x
        PROVE  OnItsWay(x)
    <3>1. CASE running'[o][v] = running[o][v]
      BY <2>3, <3>1 DEF OnItsWay, Busy
    <3>2. CASE x = queue[n][1]
      BY <1>4, <3>2 DEF OnItsWay
    <3> QED
      BY <1>3, <2>3, <3>1, <3>2
  <2>4. /\ unsent' = unsent /\ wire' = wire
        /\ \A o \in Nodes, l \in Listeners : Busy(held'[o][l]) <=> Busy(held[o][l])
        /\ held' = held
    BY <1>1 DEF Busy
  <2> QED
    BY <1>6, <2>1, <2>2, <2>3, <2>4 DEF OnItsWay
<1> QED
  BY <1>1, <1>6, HistoryMoved DEF HistoryInv

\* Counting an execution of one call.
LEMMA CountedOnce ==
    ASSUME NEW f \in [Nodes -> [Ids -> Nat]], NEW n \in Nodes, NEW i \in Ids
    PROVE  LET g == [f EXCEPT ![n][i] = @ + 1] IN
           /\ g[n][i] = f[n][i] + 1
           /\ \A o \in Nodes : \A j \in Ids : ~(o = n /\ j = i) => g[o][j] = f[o][j]
  OBVIOUS

\* What a pool thread runs is all there is of its call.
LEMMA RunsAlone ==
    ASSUME IInv, NEW n \in Nodes, NEW w \in Workers, Busy(running[n][w]),
           UNCHANGED <<unsent, held, queue>>, Finish(n, w),
           NEW x \in Message
    PROVE  /\ OnItsWay(x)' => x \in wire' \ wire \/ ~SameCall(running[n][w], x)
           /\ x \in owed => ~SameCall(running[n][w], x)
           /\ OnItsWay(x)' => x \in wire' \ wire \/ OnItsWay(x)
<1> PICK m : m = running[n][w]
  OBVIOUS
<1>1. /\ \A y \in Outside : ~SameCall(m, y)
      /\ \A o \in Nodes, l \in Listeners : Busy(held[o][l]) => ~SameCall(m, held[o][l])
      /\ \A o \in Nodes : \A j \in 1 .. Len(queue[o]) : ~SameCall(m, queue[o][j])
      /\ \A o \in Nodes, v \in Workers :
            Busy(running[o][v]) /\ SameCall(m, running[o][v]) => o = n /\ v = w
  BY DEF IInv, OnePlacePerCall, RunningOnce
<1>2. \A o \in Nodes, v \in Workers :
         Busy(running'[o][v]) => /\ ~(o = n /\ v = w)
                                 /\ running'[o][v] = running[o][v]
  BY DEF Finish, IInv, TypeOK, Busy
<1> QED
  BY <1>1, <1>2 DEF OnItsWay, Outside, Busy

LEMMA HistoryRunHandler ==
    ASSUME IInv, HistoryInv, NEW n \in Nodes, NEW w \in Workers, RunHandler(n, w)
    PROVE  /\ HistoryInv'
           /\ running[n][w] \in Message
           /\ served[running[n][w].client][running[n][w].id] = 0
           /\ returned[running[n][w].client][running[n][w].id] = 0
           /\ running[n][w].id < counter[running[n][w].client]
<1> PICK m : m = running[n][w]
  OBVIOUS
<1>1. m \in Message /\ m.type = "request" /\ Busy(m)
  BY BusySlot DEF RunHandler, Runs, Busy, IInv, TypeOK
<1>2. m.client \in Nodes /\ m.id \in Ids
  BY <1>1 DEF Message
<1>3. /\ Finish(n, w) /\ UNCHANGED <<counter, unsent, held, queue, returned>>
      /\ served' = [served EXCEPT ![m.client][m.id] = @ + 1]
      /\ \/ owed' = owed \cup {m} /\ wire' = wire
         \/ wire' = wire \cup {Response(m)} /\ owed' = owed
  BY DEF RunHandler, tables
<1>4. served \in [Nodes -> [Ids -> Nat]]
  BY DEF IInv, TypeOK
<1>5. /\ served'[m.client][m.id] = served[m.client][m.id] + 1
      /\ \A o \in Nodes : \A j \in Ids :
            ~(o = m.client /\ j = m.id) => served'[o][j] = served[o][j]
  BY <1>2, <1>3, <1>4, CountedOnce
<1>6. served[m.client][m.id] = 0 /\ returned[m.client][m.id] = 0
  <2>1. OnItsWay(m)
    BY <1>1 DEF OnItsWay
  <2>2. served[m.client][m.id] = 0
    BY <1>1, <2>1 DEF HistoryInv, Fits, Unserved
  <2> QED
    BY <1>2, <2>2 DEF HistoryInv, CallsProceed
<1>7. m.id < counter[m.client]
  BY <1>1 DEF IInv, CallsAccounted, TasksAccounted, TaskAccounted
<1>8. CallsProceed'
  <2> SUFFICES ASSUME NEW o \in Nodes, NEW i \in Ids
               PROVE  /\ <<served'[o][i], returned[o][i]>> \in {<<0, 0>>, <<1, 0>>, <<1, 1>>}
                      /\ i >= counter[o] => served'[o][i] = 0
    BY <1>3 DEF CallsProceed
  <2>1. CASE o = m.client /\ i = m.id
    <3>1. served'[o][i] = 1 /\ returned[o][i] = 0
      BY <1>5, <1>6, <2>1
    <3>2. ~(i >= counter[o])
      <4>1. counter[o] \in Nat /\ i \in Nat /\ i < counter[o]
        BY <1>7, <2>1, TransferAssumption DEF IInv, TypeOK, Ids
      <4> QED
        BY <4>1
    <3> QED
      BY <3>1, <3>2
  <2>2. CASE ~(o = m.client /\ i = m.id)
    BY <1>5, <2>2 DEF HistoryInv, CallsProceed
  <2> QED
    BY <2>1, <2>2
<1>9. Unreturned(m)' /\ Fits(Response(m))'
  <2>1. served'[m.client][m.id] = 1 /\ returned'[m.client][m.id] = 0
    BY <1>3, <1>5, <1>6
  <2> QED
    BY <1>1, <2>1, ResponseType DEF Unreturned, Fits
<1>10. ASSUME NEW x \in Message, ~SameCall(m, x)
       PROVE  /\ Fits(x) => Fits(x)'
              /\ Unreturned(x) => Unreturned(x)'
  <2>1. x.client \in Nodes /\ x.id \in Ids
    BY DEF Message
  <2>2. served'[x.client][x.id] = served[x.client][x.id]
    BY <1>5, <1>10, <2>1 DEF SameCall
  <2> QED
    BY <1>3, <2>2 DEF Fits, Unserved, Unreturned
<1>11. ASSUME NEW x \in Message, OnItsWay(x)' PROVE Fits(x)'
  <2>1. CASE x \in wire' \ wire
    BY <1>3, <1>9, <2>1
  <2>2. CASE ~(x \in wire' \ wire)
    <3>1. ~SameCall(m, x) /\ OnItsWay(x)
      BY <1>1, <1>3, <1>11, <2>2, RunsAlone
    <3> QED
      BY <1>10, <3>1 DEF HistoryInv
  <2> QED
    BY <2>1, <2>2
<1>12. ASSUME NEW x \in owed' PROVE Unreturned(x)'
  <2>1. CASE x \in owed
    <3>1. x \in Message /\ ~SameCall(m, x)
      BY <1>1, <1>3, <2>1, RunsAlone DEF IInv, TypeOK
    <3> QED
      BY <1>10, <2>1, <3>1 DEF HistoryInv
  <2>2. CASE x = m
    BY <1>9, <2>2
  <2> QED
    BY <1>3, <2>1, <2>2
<1> QED
  BY <1>1, <1>6, <1>7, <1>8, <1>11, <1>12 DEF HistoryInv

LEMMA HistoryRunCallback ==
    ASSUME IInv, HistoryInv, NEW n \in Nodes, NEW w \in Workers, RunCallback(n, w)
    PROVE  /\ HistoryInv'
           /\ running[n][w] \in Message
           /\ served[running[n][w].client][running[n][w].id] = 1
           /\ returned[running[n][w].client][running[n][w].id] = 0
           /\ running[n][w].id < counter[running[n][w].client]
<1> PICK m : m = running[n][w]
  OBVIOUS
<1>1. m \in Message /\ m.type = "response" /\ Busy(m)
  BY BusySlot DEF RunCallback, Runs, Busy, IInv, TypeOK
<1>2. m.client \in Nodes /\ m.id \in Ids
  BY <1>1 DEF Message
<1>3. /\ Finish(n, w) /\ UNCHANGED <<counter, unsent, wire, owed, held, queue, served>>
      /\ returned' = [returned EXCEPT ![m.client][m.id] = @ + 1]
  BY DEF RunCallback, tables, net
<1>4. returned \in [Nodes -> [Ids -> Nat]]
  BY DEF IInv, TypeOK
<1>5. /\ returned'[m.client][m.id] = returned[m.client][m.id] + 1
      /\ \A o \in Nodes : \A j \in Ids :
            ~(o = m.client /\ j = m.id) => returned'[o][j] = returned[o][j]
  BY <1>2, <1>3, <1>4, CountedOnce
<1>6. served[m.client][m.id] = 1 /\ returned[m.client][m.id] = 0
  <2>1. OnItsWay(m)
    BY <1>1 DEF OnItsWay
  <2> QED
    BY <1>1, <2>1 DEF HistoryInv, Fits, Unreturned
<1>7. m.id < counter[m.client]
  BY <1>1 DEF IInv, CallsAccounted, TasksAccounted, TaskAccounted
<1>8. CallsProceed'
  <2> SUFFICES ASSUME NEW o \in Nodes, NEW i \in Ids
               PROVE  /\ <<served[o][i], returned'[o][i]>> \in {<<0, 0>>, <<1, 0>>, <<1, 1>>}
                      /\ i >= counter[o] => served[o][i] = 0
    BY <1>3 DEF CallsProceed
  <2>1. CASE o = m.client /\ i = m.id
    <3>1. served[o][i] = 1 /\ returned'[o][i] = 1
      BY <1>5, <1>6, <2>1
    <3> QED
      BY <3>1 DEF HistoryInv, CallsProceed
  <2>2. CASE ~(o = m.client /\ i = m.id)
    BY <1>5, <2>2 DEF HistoryInv, CallsProceed
  <2> QED
    BY <2>1, <2>2
<1>9. ASSUME NEW x \in Message, ~SameCall(m, x)
      PROVE  /\ Fits(x) => Fits(x)'
             /\ Unreturned(x) => Unreturned(x)'
  <2>1. x.client \in Nodes /\ x.id \in Ids
    BY DEF Message
  <2>2. returned'[x.client][x.id] = returned[x.client][x.id]
    BY <1>5, <1>9, <2>1 DEF SameCall
  <2> QED
    BY <1>3, <2>2 DEF Fits, Unserved, Unreturned
<1>10. ASSUME NEW x \in Message, OnItsWay(x)' PROVE Fits(x)'
  <2>1. ~SameCall(m, x) /\ OnItsWay(x)
    BY <1>1, <1>3, <1>10, RunsAlone
  <2> QED
    BY <1>9, <2>1 DEF HistoryInv
<1>11. ASSUME NEW x \in owed' PROVE Unreturned(x)'
  <2>1. x \in Message /\ ~SameCall(m, x)
    BY <1>1, <1>3, <1>11, RunsAlone DEF IInv, TypeOK
  <2> QED
    BY <1>3, <1>9, <1>11, <2>1 DEF HistoryInv
<1> QED
  BY <1>1, <1>6, <1>7, <1>8, <1>10, <1>11 DEF HistoryInv

LEMMA HistoryNext == IInv /\ HistoryInv /\ [Next]_vars => HistoryInv'
<1> SUFFICES ASSUME IInv, HistoryInv, [Next]_vars
             PROVE  HistoryInv'
  OBVIOUS
<1>1. CASE UNCHANGED vars
  BY <1>1, HistoryLetGo DEF vars, tables, net, threads
<1>2. ASSUME NEW n \in Nodes, AppStep(n)
      PROVE  HistoryInv'
  <2>1. ASSUME NEW c \in Classes, AddClass(n, c)
        PROVE  HistoryInv'
    BY <2>1, HistoryLetGo DEF AddClass, net, threads
  <2> QED
    BY <1>2, <2>1, HistorySend DEF AppStep
<1>3. ASSUME NEW n \in Nodes, NEW l \in Listeners, ListenerStep(n, l)
      PROVE  HistoryInv'
  <2>1. CASE TakePoison(n, l)
    <3>1. \A o \in Nodes, k \in Listeners : held'[o][k] = held[o][k] \/ ~Busy(held'[o][k])
      BY <2>1 DEF TakePoison, IInv, TypeOK, Busy
    <3> QED
      BY <2>1, <3>1, HistoryLetGo DEF TakePoison, tables, net
  <2>2. CASE DispatchRequest(n, l)
    <3>1. UNCHANGED <<counter, history, unsent, wire, owed, running>> /\ Busy(held[n][l])
      BY <2>2 DEF DispatchRequest, Holds, Busy, tables, net
    <3>2. Enqueue(n, l) \/ UNCHANGED <<held, queue>>
      BY <2>2 DEF DispatchRequest
    <3> QED
      BY <3>1, <3>2, HistoryEnqueue, HistoryLetGo
  <2>3. CASE DispatchResponse(n, l)
    <3>1. UNCHANGED <<counter, history, unsent, wire, owed, running>> /\ Busy(held[n][l])
      BY <2>3 DEF DispatchResponse, Holds, Busy, net
    <3>2. Enqueue(n, l) \/ UNCHANGED <<held, queue>>
      BY <2>3 DEF DispatchResponse
    <3> QED
      BY <3>1, <3>2, HistoryEnqueue, HistoryLetGo
  <2> QED
    BY <1>3, <2>1, <2>2, <2>3, HistoryReceive DEF ListenerStep
<1>4. ASSUME NEW n \in Nodes, NEW w \in Workers, WorkerStep(n, w)
      PROVE  HistoryInv'
  <2>1. CASE WorkerExit(n, w)
    <3>1. \A o \in Nodes, v \in Workers :
             running'[o][v] = running[o][v] \/ ~Busy(running'[o][v])
      BY <2>1 DEF WorkerExit, IInv, TypeOK, Busy
    <3> QED
      BY <2>1, <3>1, HistoryLetGo DEF WorkerExit, tables, net
  <2> QED
    BY <1>4, <2>1, HistoryPop, HistoryRunHandler, HistoryRunCallback DEF WorkerStep
<1>5. ASSUME NEW n \in Nodes, ExitStep(n)
      PROVE  HistoryInv'
  BY <1>5, HistoryLetGo DEF ExitStep, BeginExit, CloseChannel, JoinWorkers, tables, net, threads
<1> QED
  BY <1>1, <1>2, <1>3, <1>4, <1>5, HistoryTransmit, HistorySendDeferred DEF Next

LEMMA HistoryAgrees == Spec => []HistoryInv
  BY HistoryInit, HistoryNext, InductiveInvariant, PTL DEF Spec

\* The abstract state of call i of node n.
LEMMA StatusOf ==
    ASSUME NEW n \in Nodes, NEW i \in Ids
    PROVE  /\ i >= counter[n] => CallStatus[<<n, i>>] = "idle"
           /\ ~(i >= counter[n]) =>
                 /\ <<served[n][i], returned[n][i]>> = <<0, 0>> => CallStatus[<<n, i>>] = "called"
                 /\ <<served[n][i], returned[n][i]>> = <<1, 0>> => CallStatus[<<n, i>>] = "served"
                 /\ <<served[n][i], returned[n][i]>> = <<1, 1>> => CallStatus[<<n, i>>] = "returned"
  BY DEF CallStatus

LEMMA SameStatus ==
    ASSUME NEW n \in Nodes, NEW i \in Ids,
           i >= counter'[n] <=> i >= counter[n],
           served'[n][i] = served[n][i], returned'[n][i] = returned[n][i]
    PROVE  CallStatus'[<<n, i>>] = CallStatus[<<n, i>>]
  BY DEF CallStatus

\* One call goes on, the others stay where they are.
LEMMA StatusMoves ==
    ASSUME NEW n \in Nodes, NEW i \in Ids, NEW to,
           CallStatus'[<<n, i>>] = to,
           \A o \in Nodes : \A j \in Ids :
              ~(o = n /\ j = i) => CallStatus'[<<o, j>>] = CallStatus[<<o, j>>]
    PROVE  CallStatus' = [CallStatus EXCEPT ![<<n, i>>] = to]
<1>1. /\ DOMAIN CallStatus = Nodes \X Ids /\ DOMAIN CallStatus' = Nodes \X Ids
      /\ CallStatus = [c \in Nodes \X Ids |-> CallStatus[c]]
      /\ CallStatus' = [c \in Nodes \X Ids |-> CallStatus'[c]]
  BY DEF CallStatus
<1>2. ASSUME NEW c \in Nodes \X Ids
      PROVE  CallStatus'[c] = [CallStatus EXCEPT ![<<n, i>>] = to][c]
  <2>1. PICK o \in Nodes, j \in Ids : c = <<o, j>>
    OBVIOUS
  <2>2. CASE o = n /\ j = i
    BY <1>1, <2>1, <2>2
  <2>3. CASE ~(o = n /\ j = i)
    <3>1. c # <<n, i>>
      BY <2>1, <2>3
    <3> QED
      BY <1>1, <2>1, <2>3, <3>1
  <2> QED
    BY <2>2, <2>3
<1> HIDE DEF CallStatus
<1> QED
  BY <1>1, <1>2

\* Every step is a step of Rpc on one call, or none.
LEMMA StepOfRpc ==
    ASSUME IInv, HistoryInv, [Next]_vars
    PROVE  [RPC!Next]_CallStatus
<1>0. /\ counter \in [Nodes -> Nat] /\ served \in [Nodes -> [Ids -> Nat]]
      /\ returned \in [Nodes -> [Ids -> Nat]] /\ Ids \subseteq Nat
  BY TransferAssumption DEF IInv, TypeOK, Ids
<1>1. CASE UNCHANGED <<counter, history>>
  BY <1>1 DEF CallStatus, history
<1>2. ASSUME NEW n \in Nodes, NEW to \in Nodes, NEW c \in Classes, Send(n, to, c)
      PROVE  RPC!Next \/ UNCHANGED <<counter, history>>
  <2>1. UNCHANGED history
    BY <1>2 DEF Send
  <2>2. CASE counter' = [counter EXCEPT ![n] = counter[n] + 1]
    <3> PICK i : i = counter[n]
      OBVIOUS
    <3>1. i \in Ids
      <4>1. counter[n] \in Nat /\ counter[n] < MaxSends /\ MaxSends \in Nat
        BY <1>0, <1>2, TransferAssumption DEF Send
      <4> QED
        BY <4>1 DEF Ids
    <3>2. /\ counter'[n] = i + 1 /\ i \in Nat
          /\ \A o \in Nodes : o # n => counter'[o] = counter[o]
      BY <1>0, <2>2, <3>1
    <3>3. served[n][i] = 0 /\ returned[n][i] = 0
      <4>1. i >= counter[n]
        BY <1>0, <3>2
      <4> QED
        BY <3>1, <4>1 DEF HistoryInv, CallsProceed
    <3>4. CallStatus[<<n, i>>] = "idle"
      BY <1>0, <3>1, StatusOf
    <3>5. CallStatus'[<<n, i>>] = "called"
      <4>1. ~(i >= counter'[n]) /\ <<served'[n][i], returned'[n][i]>> = <<0, 0>>
        BY <2>1, <3>2, <3>3 DEF history
      <4> QED
        BY <3>1, <4>1 DEF CallStatus
    <3>6. ASSUME NEW o \in Nodes, NEW j \in Ids, ~(o = n /\ j = i)
          PROVE  CallStatus'[<<o, j>>] = CallStatus[<<o, j>>]
      <4>1. j >= counter'[o] <=> j >= counter[o]
        <5>1. CASE o # n
          BY <3>2, <5>1
        <5>2. CASE o = n
          <6>1. j \in Nat /\ j # i
            BY <1>0, <3>6, <5>2
          <6>2. counter[o] = i /\ counter'[o] = i + 1
            BY <3>2, <5>2
          <6> QED
            BY <3>2, <6>1, <6>2
        <5> QED
          BY <5>1, <5>2
      <4> QED
        BY <2>1, <4>1, SameStatus DEF history
    <3>7. CallStatus' = [CallStatus EXCEPT ![<<n, i>>] = "called"]
      BY <3>1, <3>5, <3>6, StatusMoves
    <3>8. RPC!Call(<<n, i>>)
      BY <3>4, <3>7 DEF RPC!Call, RPC!Step
    <3> QED
      BY <3>1, <3>8 DEF RPC!Next
  <2>3. CASE counter' = counter
    BY <2>1, <2>3
  <2> QED
    BY <1>2, <2>2, <2>3 DEF Send
<1>3. ASSUME NEW n \in Nodes, NEW w \in Workers, RunHandler(n, w)
      PROVE  RPC!Next
  <2> PICK m : m = running[n][w]
    OBVIOUS
  <2> PICK a \in Nodes, i \in Ids : m.client = a /\ m.id = i
    BY <1>3, HistoryRunHandler DEF Message
  <2>1. i < counter[a] /\ served[a][i] = 0 /\ returned[a][i] = 0
    BY <1>3, HistoryRunHandler
  <2>3. /\ UNCHANGED <<counter, returned>>
        /\ served' = [served EXCEPT ![a][i] = @ + 1]
    BY <1>3 DEF RunHandler, tables
  <2>4. /\ served'[a][i] = 1
        /\ \A o \in Nodes : \A j \in Ids :
              ~(o = a /\ j = i) => served'[o][j] = served[o][j]
    BY <1>0, <2>1, <2>3, CountedOnce
  <2>5. ~(i >= counter[a])
    <3>1. counter[a] \in Nat /\ i \in Nat
      BY <1>0
    <3> QED
      BY <2>1, <3>1
  <2>6. CallStatus[<<a, i>>] = "called"
    BY <2>1, <2>5, StatusOf
  <2>7. CallStatus'[<<a, i>>] = "served"
    BY <2>1, <2>3, <2>4, <2>5 DEF CallStatus
  <2>8. ASSUME NEW o \in Nodes, NEW j \in Ids, ~(o = a /\ j = i)
        PROVE  CallStatus'[<<o, j>>] = CallStatus[<<o, j>>]
    BY <2>3, <2>4, <2>8, SameStatus
  <2>9. CallStatus' = [CallStatus EXCEPT ![<<a, i>>] = "served"]
    BY <2>7, <2>8, StatusMoves
  <2>10. RPC!Serve(<<a, i>>)
    BY <2>6, <2>9 DEF RPC!Serve, RPC!Step
  <2> QED
    BY <2>10 DEF RPC!Next
<1>4. ASSUME NEW n \in Nodes, NEW w \in Workers, RunCallback(n, w)
      PROVE  RPC!Next
  <2> PICK m : m = running[n][w]
    OBVIOUS
  <2> PICK a \in Nodes, i \in Ids : m.client = a /\ m.id = i
    BY <1>4, HistoryRunCallback DEF Message
  <2>1. i < counter[a] /\ served[a][i] = 1 /\ returned[a][i] = 0
    BY <1>4, HistoryRunCallback
  <2>3. /\ UNCHANGED <<counter, served>>
        /\ returned' = [returned EXCEPT ![a][i] = @ + 1]
    BY <1>4 DEF RunCallback, tables
  <2>4. /\ returned'[a][i] = 1
        /\ \A o \in Nodes : \A j \in Ids :
              ~(o = a /\ j = i) => returned'[o][j] = returned[o][j]
    BY <1>0, <2>1, <2>3, CountedOnce
  <2>5. ~(i >= counter[a])
    <3>1. counter[a] \in Nat /\ i \in Nat
      BY <1>0
    <3> QED
      BY <2>1, <3>1
  <2>6. CallStatus[<<a, i>>] = "served"
    BY <2>1, <2>5, StatusOf
  <2>7. CallStatus'[<<a, i>>] = "returned"
    BY <2>1, <2>3, <2>4, <2>5 DEF CallStatus
  <2>8. ASSUME NEW o \in Nodes, NEW j \in Ids, ~(o = a /\ j = i)
        PROVE  CallStatus'[<<o, j>>] = CallStatus[<<o, j>>]
    BY <2>3, <2>4, <2>8, SameStatus
  <2>9. CallStatus' = [CallStatus EXCEPT ![<<a, i>>] = "returned"]
    BY <2>7, <2>8, StatusMoves
  <2>10. RPC!Return(<<a, i>>)
    BY <2>6, <2>9 DEF RPC!Return, RPC!Step
  <2> QED
    BY <2>10 DEF RPC!Next
<1>5. ASSUME NEW n \in Nodes, AppStep(n) PROVE RPC!Next \/ UNCHANGED <<counter, history>>
  BY <1>2, <1>5 DEF AppStep, AddClass
<1>6. ASSUME NEW n \in Nodes, NEW l \in Listeners, ListenerStep(n, l)
      PROVE  UNCHANGED <<counter, history>>
  BY <1>6 DEF ListenerStep, Receive, TakePoison, DispatchRequest, DispatchResponse, tables
<1>7. ASSUME NEW n \in Nodes, NEW w \in Workers, WorkerStep(n, w)
      PROVE  RPC!Next \/ UNCHANGED <<counter, history>>
  BY <1>3, <1>4, <1>7 DEF WorkerStep, Pop, WorkerExit, tables
<1>8. ASSUME NEW n \in Nodes, ExitStep(n) PROVE UNCHANGED <<counter, history>>
  BY <1>8 DEF ExitStep, BeginExit, CloseChannel, JoinWorkers, tables
<1>9. ASSUME NEW m, Transmit(m) \/ SendDeferred(m) PROVE UNCHANGED <<counter, history>>
  BY <1>9 DEF Transmit, SendDeferred, tables
<1>10. RPC!Next \/ UNCHANGED <<counter, history>>
  <2>1. CASE UNCHANGED vars
    BY <2>1 DEF vars, tables
  <2> QED
    BY <2>1, <1>5, <1>6, <1>7, <1>8, <1>9 DEF Next
<1> QED
  BY <1>1, <1>10

(***************************************************************************)
(* The transfer layer implements Rpc, for any number of nodes, threads and *)
(* calls: a call's handler (transfer.h:161) runs once, and its callback    *)
(* (transfer.h:207) once and only afterwards.                              *)
(***************************************************************************)
THEOREM LayerIsRpc == Spec => RefinesRpc
<1>1. Init => RPC!Init
  <2> SUFFICES ASSUME Init PROVE RPC!Init
    OBVIOUS
  <2>1. ASSUME NEW c \in Nodes \X Ids PROVE CallStatus[c] = "idle"
    <3>1. PICK n \in Nodes, i \in Ids : c = <<n, i>>
      OBVIOUS
    <3>2. i >= counter[n]
      BY TransferAssumption DEF Init, Ids
    <3> QED
      BY <3>1, <3>2, StatusOf
  <2>2. CallStatus = [c \in Nodes \X Ids |-> CallStatus[c]]
    BY DEF CallStatus
  <2> HIDE DEF CallStatus
  <2>3. CallStatus = [c \in Nodes \X Ids |-> "idle"]
    BY <2>1, <2>2
  <2> QED
    BY <2>3 DEF RPC!Init
<1>2. IInv /\ HistoryInv /\ [Next]_vars => [RPC!Next]_CallStatus
  BY StepOfRpc
<1> QED
  BY <1>1, <1>2, InductiveInvariant, HistoryAgrees, PTL DEF Spec, RefinesRpc, RPC!Safety

-----------------------------------------------------------------------------
(* No call is lost: one that has not returned is somewhere.                *)

\* Message x has not been forgotten.
Present(x) == OnItsWay(x) \/ x \in owed

\* Node n has issued call i, and its callback has not run.
Open(n, i) == i < counter[n] /\ returned[n][i] = 0

\* The request, the task or the response of an open call is somewhere.
NoneLost ==
    \A n \in Nodes : \A i \in Ids : Open(n, i) =>
       \E x \in Message : x.client = n /\ x.id = i /\ Present(x)

\* A step after which every call's message is still somewhere, or has been
\* turned into its response, or was the response and the callback has run.
LEMMA NoneLostKept ==
    ASSUME NoneLost,
           \A n \in Nodes : \A i \in Ids : Open(n, i)' => Open(n, i),
           \A x \in Message : Present(x) /\ Open(x.client, x.id)' =>
              \E y \in Message : y.client = x.client /\ y.id = x.id /\ Present(y)'
    PROVE  NoneLost'
<1> SUFFICES ASSUME NEW n \in Nodes, NEW i \in Ids, Open(n, i)'
             PROVE  \E x \in Message : x.client = n /\ x.id = i /\ Present(x)'
  BY DEF NoneLost
<1>1. PICK x \in Message : x.client = n /\ x.id = i /\ Present(x)
  BY DEF NoneLost
<1>2. PICK y \in Message : y.client = x.client /\ y.id = x.id /\ Present(y)'
  BY <1>1
<1> QED
  BY <1>1, <1>2

LEMMA NoneLostMoved ==
    ASSUME NoneLost, UNCHANGED <<counter, returned>>,
           \A x \in Message : Present(x) => Present(x)'
    PROVE  NoneLost'
<1>1. \A n \in Nodes : \A i \in Ids : Open(n, i)' => Open(n, i)
  BY DEF Open
<1> QED
  BY <1>1, NoneLostKept

LEMMA NoneLostInit == Init => NoneLost
<1> SUFFICES ASSUME Init, NEW n \in Nodes, NEW i \in Ids, Open(n, i) PROVE FALSE
  BY DEF NoneLost
<1>1. i < 0 /\ i \in Nat
  BY TransferAssumption DEF Init, Open, Ids
<1> QED
  BY <1>1

LEMMA NoneLostSend ==
    ASSUME IInv, NoneLost, NEW n \in Nodes, NEW to \in Nodes, NEW c \in Classes, Send(n, to, c)
    PROVE  NoneLost'
<1> PICK m : m = [type |-> "request", client |-> n, to |-> to,
                  id |-> counter[n], class |-> c]
  OBVIOUS
<1>0. m.client = n /\ m.id = counter[n]
  OBVIOUS
<1>1. /\ counter \in [Nodes -> 0 .. MaxSends] /\ MaxSends \in Nat
      /\ counter[n] \in Ids
  <2>1. counter \in [Nodes -> 0 .. MaxSends] /\ counter[n] < MaxSends /\ MaxSends \in Nat
    BY TransferAssumption DEF IInv, TypeOK, Send
  <2>2. counter[n] \in 0 .. MaxSends
    BY <2>1
  <2> QED
    BY <2>1, <2>2 DEF Ids
<1>2. m \in Message
  BY <1>1 DEF Message
<1>3. /\ UNCHANGED <<returned, wire, owed, held, queue, running>>
      /\ unsent \subseteq unsent'
      /\ \/ counter' = [counter EXCEPT ![n] = counter[n] + 1] /\ m \in unsent'
         \/ counter' = counter
  BY DEF Send, threads, history
<1>4. \A x \in Message : Present(x) => Present(x)'
  BY <1>3 DEF Present, OnItsWay, Busy
<1> SUFFICES ASSUME NEW o \in Nodes, NEW i \in Ids, Open(o, i)'
             PROVE  \E x \in Message : x.client = o /\ x.id = i /\ Present(x)'
  BY DEF NoneLost
<1>5. CASE Open(o, i)
  BY <1>4, <1>5 DEF NoneLost
<1>6. CASE ~Open(o, i)
  <2>1. returned[o][i] = 0 /\ i < counter'[o] /\ ~(i < counter[o])
    BY <1>3, <1>6 DEF Open
  <2>2. counter' # counter
    BY <2>1
  <2>3. o = n
    BY <1>1, <1>3, <2>1, <2>2
  <2>4. i < counter[n] + 1 /\ i \in Nat /\ counter[n] \in Nat
    BY <1>1, <1>3, <2>1, <2>2, <2>3 DEF Ids
  <2>5. i = counter[n]
    BY <2>1, <2>3, <2>4
  <2>6. Present(m)'
    BY <1>3, <2>2 DEF Present, OnItsWay
  <2> QED
    BY <1>0, <1>2, <2>3, <2>5, <2>6
<1> QED
  BY <1>5, <1>6

LEMMA NoneLostSendDeferred ==
    ASSUME IInv, NoneLost, NEW m \in owed, SendDeferred(m)
    PROVE  NoneLost'
<1>1. /\ UNCHANGED <<counter, returned, unsent, held, queue, running>>
      /\ wire' = wire \cup {Response(m)} /\ owed' = owed \ {m}
  BY DEF SendDeferred, tables, threads, history
<1>2. m \in Message
  BY DEF IInv, TypeOK
<1>3. \A x \in Message : Present(x) /\ x # m => Present(x)'
  BY <1>1 DEF Present, OnItsWay, Busy
<1>4. Present(Response(m))' /\ Response(m) \in Message
  BY <1>1, <1>2, ResponseType DEF Present, OnItsWay
<1>5. Response(m).client = m.client /\ Response(m).id = m.id
  BY <1>2, ResponseType
<1>6. \A o \in Nodes : \A i \in Ids : Open(o, i)' => Open(o, i)
  BY <1>1 DEF Open
<1> QED
  BY <1>3, <1>4, <1>5, <1>6, NoneLostKept

LEMMA NoneLostReceive ==
    ASSUME IInv, NoneLost, NEW n \in Nodes, NEW l \in Listeners, NEW m \in wire, Receive(n, l, m)
    PROVE  NoneLost'
<1>1. /\ UNCHANGED <<counter, returned, unsent, owed, queue, running>>
      /\ wire' = wire \ {m} /\ held[n][l] = Idle
  BY DEF Receive, tables, history
<1>2. /\ held'[n][l] = m
      /\ \A o \in Nodes, k \in Listeners : Busy(held[o][k]) => held'[o][k] = held[o][k]
  BY <1>1 DEF Receive, IInv, TypeOK, Busy
<1>3. m \in Message /\ Busy(m)
  BY TransferAssumption DEF IInv, TypeOK, Busy
<1>4. ASSUME NEW x \in Message, Present(x) PROVE Present(x)'
  <2>1. CASE x = m
    <3>1. Busy(held'[n][l]) /\ held'[n][l] = x
      BY <1>2, <1>3, <2>1
    <3> QED
      BY <3>1 DEF Present, OnItsWay, Busy
  <2>2. CASE x # m
    BY <1>1, <1>2, <1>4, <2>2 DEF Present, OnItsWay, Busy
  <2> QED
    BY <2>1, <2>2
<1> QED
  BY <1>1, <1>4, NoneLostMoved

LEMMA NoneLostEnqueue ==
    ASSUME IInv, NoneLost, NEW n \in Nodes, NEW l \in Listeners, Busy(held[n][l]),
           Enqueue(n, l), UNCHANGED <<counter, returned, unsent, wire, owed, running>>
    PROVE  NoneLost'
<1> PICK m : m = held[n][l]
  OBVIOUS
<1>1. m \in Message
  BY BusySlot DEF Busy, IInv, TypeOK
<1>2. queue' = [queue EXCEPT ![n] = Append(@, m)] /\ TypeOK
  BY DEF Enqueue, IInv
<1>3. /\ \A o \in Nodes : o # n => queue'[o] = queue[o]
      /\ Len(queue[n]) \in Nat
      /\ Len(queue'[n]) = Len(queue[n]) + 1
      /\ queue'[n][Len(queue[n]) + 1] = m
      /\ \A i \in 1 .. Len(queue[n]) : queue'[n][i] = queue[n][i]
  BY <1>1, <1>2, QueueAppended
<1>4. \A o \in Nodes, k \in Listeners : held'[o][k] = held[o][k] \/ (o = n /\ k = l)
  BY DEF Enqueue, IInv, TypeOK
<1>5. ASSUME NEW o \in Nodes, NEW i \in 1 .. Len(queue[o])
      PROVE  i \in 1 .. Len(queue'[o]) /\ queue'[o][i] = queue[o][i]
  BY <1>3, <1>5
<1>6. ASSUME NEW x \in Message, Present(x) PROVE Present(x)'
  <2>1. CASE x = m
    <3>1. Len(queue[n]) + 1 \in 1 .. Len(queue'[n])
      BY <1>3
    <3> QED
      BY <1>3, <2>1, <3>1 DEF Present, OnItsWay
  <2>2. CASE x \in unsent \cup wire \cup owed
    BY <2>2 DEF Present, OnItsWay
  <2>3. ASSUME x # m, NEW o \in Nodes, NEW k \in Listeners, Busy(held[o][k]), held[o][k] = x
        PROVE  Present(x)'
    BY <1>4, <2>3 DEF Present, OnItsWay, Busy
  <2>4. ASSUME NEW o \in Nodes, NEW i \in 1 .. Len(queue[o]), queue[o][i] = x
        PROVE  Present(x)'
    BY <1>5, <2>4 DEF Present, OnItsWay
  <2>5. ASSUME NEW o \in Nodes, NEW w \in Workers, Busy(running[o][w]), running[o][w] = x
        PROVE  Present(x)'
    BY <2>5 DEF Present, OnItsWay, Busy
  <2> QED
    BY <1>6, <2>1, <2>2, <2>3, <2>4, <2>5 DEF Present, OnItsWay
<1> QED
  BY <1>6, NoneLostMoved

LEMMA NoneLostPop ==
    ASSUME IInv, NoneLost, NEW n \in Nodes, NEW w \in Workers, Pop(n, w)
    PROVE  NoneLost'
<1>1. /\ UNCHANGED <<counter, returned, unsent, wire, owed, held>>
      /\ queue[n] # << >> /\ queue' = [queue EXCEPT ![n] = Tail(@)] /\ TypeOK
      /\ running' = [running EXCEPT ![n][w] = Head(queue[n])]
      /\ running[n][w] = Idle
  BY DEF Pop, tables, net, history, IInv
<1>2. /\ \A o \in Nodes : o # n => queue'[o] = queue[o]
      /\ Len(queue[n]) \in Nat \ {0}
      /\ Len(queue'[n]) = Len(queue[n]) - 1
      /\ Head(queue[n]) = queue[n][1]
      /\ \A i \in 1 .. Len(queue[n]) - 1 : queue'[n][i] = queue[n][i + 1]
  BY <1>1, QueueShifted
<1>3. /\ running'[n][w] = queue[n][1]
      /\ \A o \in Nodes, v \in Workers : Busy(running[o][v]) => running'[o][v] = running[o][v]
  BY <1>1, <1>2 DEF TypeOK, Busy
<1>4. ASSUME NEW x \in Message, Present(x) PROVE Present(x)'
  <2>1. CASE x \in unsent \cup wire \cup owed
    BY <1>1, <2>1 DEF Present, OnItsWay
  <2>2. ASSUME NEW o \in Nodes, NEW k \in Listeners, Busy(held[o][k]), held[o][k] = x
        PROVE  Present(x)'
    BY <1>1, <2>2 DEF Present, OnItsWay, Busy
  <2>3. ASSUME NEW o \in Nodes, NEW i \in 1 .. Len(queue[o]), queue[o][i] = x
        PROVE  Present(x)'
    <3>1. CASE o # n
      BY <1>2, <2>3, <3>1 DEF Present, OnItsWay
    <3>2. CASE o = n /\ i = 1
      <4>1. x # Idle /\ x # Exited
        BY TransferAssumption
      <4>2. Busy(running'[n][w]) /\ running'[n][w] = x
        BY <1>3, <2>3, <3>2, <4>1 DEF Busy
      <4> QED
        BY <4>2 DEF Present, OnItsWay, Busy
    <3>3. CASE o = n /\ i # 1
      <4>1. /\ i - 1 \in 1 .. Len(queue[n]) - 1 /\ (i - 1) + 1 = i
        BY <1>2, <2>3, <3>3
      <4>2. i - 1 \in 1 .. Len(queue'[n]) /\ queue'[n][i - 1] = x
        BY <1>2, <2>3, <3>3, <4>1
      <4> QED
        BY <4>2 DEF Present, OnItsWay
    <3> QED
      BY <3>1, <3>2, <3>3
  <2>4. ASSUME NEW o \in Nodes, NEW v \in Workers, Busy(running[o][v]), running[o][v] = x
        PROVE  Present(x)'
    BY <1>3, <2>4 DEF Present, OnItsWay, Busy
  <2> QED
    BY <1>4, <2>1, <2>2, <2>3, <2>4 DEF Present, OnItsWay
<1> QED
  BY <1>1, <1>4, NoneLostMoved

\* A task has run: whatever else was somewhere still is.
LEMMA PresentBesides ==
    ASSUME IInv, NEW n \in Nodes, NEW w \in Workers, Finish(n, w),
           unsent' = unsent, wire \subseteq wire', owed \subseteq owed',
           UNCHANGED <<held, queue>>,
           NEW x \in Message, Present(x), x # running[n][w]
    PROVE  Present(x)'
<1>1. \A o \in Nodes, v \in Workers :
         Busy(running[o][v]) => running'[o][v] = running[o][v] \/ (o = n /\ v = w)
  BY DEF Finish, IInv, TypeOK
<1> QED
  BY <1>1 DEF Present, OnItsWay, Busy

LEMMA NoneLostRunHandler ==
    ASSUME IInv, NoneLost, NEW n \in Nodes, NEW w \in Workers, RunHandler(n, w)
    PROVE  NoneLost'
<1> PICK m : m = running[n][w]
  OBVIOUS
<1>1. m \in Message
  BY BusySlot DEF RunHandler, Runs, IInv, TypeOK
<1>2. /\ Finish(n, w) /\ UNCHANGED <<counter, unsent, held, queue, returned>>
      /\ \/ owed' = owed \cup {m} /\ wire' = wire
         \/ wire' = wire \cup {Response(m)} /\ owed' = owed
  BY DEF RunHandler, tables
<1>3. PICK y \in Message : y.client = m.client /\ y.id = m.id /\ Present(y)'
  BY <1>1, <1>2, ResponseType DEF Present, OnItsWay
<1>4. \A x \in Message : Present(x) /\ x # m => Present(x)'
  BY <1>2, PresentBesides
<1>5. \A o \in Nodes : \A i \in Ids : Open(o, i)' => Open(o, i)
  BY <1>2 DEF Open
<1> QED
  BY <1>3, <1>4, <1>5, NoneLostKept

LEMMA NoneLostRunCallback ==
    ASSUME IInv, HistoryInv, NoneLost, NEW n \in Nodes, NEW w \in Workers, RunCallback(n, w)
    PROVE  NoneLost'
<1> PICK m : m = running[n][w]
  OBVIOUS
<1>1. m \in Message /\ m.client \in Nodes /\ m.id \in Ids /\ returned[m.client][m.id] = 0
  BY HistoryRunCallback DEF Message
<1>2. /\ Finish(n, w) /\ UNCHANGED <<counter, unsent, wire, owed, held, queue>>
      /\ returned' = [returned EXCEPT ![m.client][m.id] = @ + 1]
  BY DEF RunCallback, tables, net
<1>3. returned \in [Nodes -> [Ids -> Nat]]
  BY DEF IInv, TypeOK
<1>4. /\ returned'[m.client][m.id] = 1
      /\ \A o \in Nodes : \A j \in Ids :
            ~(o = m.client /\ j = m.id) => returned'[o][j] = returned[o][j]
  BY <1>1, <1>2, <1>3, CountedOnce
<1>5. \A o \in Nodes : \A i \in Ids : Open(o, i)' => Open(o, i)
  BY <1>2, <1>4 DEF Open
<1>6. ~Open(m.client, m.id)'
  BY <1>4 DEF Open
<1>7. \A x \in Message : Present(x) /\ x # m => Present(x)'
  BY <1>2, PresentBesides
<1> QED
  BY <1>5, <1>6, <1>7, NoneLostKept

\* Threads that let go of nothing.
LEMMA NoneLostHeld ==
    ASSUME NoneLost, UNCHANGED <<counter, returned, unsent, wire, owed, queue>>,
           \A n \in Nodes, l \in Listeners : Busy(held[n][l]) => held'[n][l] = held[n][l],
           \A n \in Nodes, w \in Workers : Busy(running[n][w]) => running'[n][w] = running[n][w]
    PROVE  NoneLost'
<1>1. \A x \in Message : Present(x) => Present(x)'
  BY DEF Present, OnItsWay, Busy
<1> QED
  BY <1>1, NoneLostMoved

LEMMA NoneLostNext == IInv /\ HistoryInv /\ NoneLost /\ [Next]_vars => NoneLost'
<1> SUFFICES ASSUME IInv, HistoryInv, NoneLost, [Next]_vars
             PROVE  NoneLost'
  OBVIOUS
<1>1. CASE UNCHANGED vars
  BY <1>1, NoneLostHeld DEF vars, tables, net, threads, history
<1>2. ASSUME NEW n \in Nodes, AppStep(n)
      PROVE  NoneLost'
  <2>1. ASSUME NEW c \in Classes, AddClass(n, c)
        PROVE  NoneLost'
    BY <2>1, NoneLostHeld DEF AddClass, net, threads, history
  <2> QED
    BY <1>2, <2>1, NoneLostSend DEF AppStep
<1>3. ASSUME NEW n \in Nodes, NEW l \in Listeners, ListenerStep(n, l)
      PROVE  NoneLost'
  <2>1. CASE TakePoison(n, l)
    <3>1. \A o \in Nodes, k \in Listeners : Busy(held[o][k]) => held'[o][k] = held[o][k]
      BY <2>1 DEF TakePoison, IInv, TypeOK, Busy
    <3> QED
      BY <2>1, <3>1, NoneLostHeld DEF TakePoison, tables, net, history
  <2>2. CASE DispatchRequest(n, l) \/ DispatchResponse(n, l)
    <3>1. UNCHANGED <<counter, returned, unsent, wire, owed, running>> /\ Busy(held[n][l])
      BY <2>2 DEF DispatchRequest, DispatchResponse, Holds, Busy, tables, net, history
    <3>2. Enqueue(n, l) \/ UNCHANGED <<held, queue>>
      BY <2>2 DEF DispatchRequest, DispatchResponse
    <3> QED
      BY <3>1, <3>2, NoneLostEnqueue, NoneLostHeld
  <2> QED
    BY <1>3, <2>1, <2>2, NoneLostReceive DEF ListenerStep
<1>4. ASSUME NEW n \in Nodes, NEW w \in Workers, WorkerStep(n, w)
      PROVE  NoneLost'
  <2>1. CASE WorkerExit(n, w)
    <3>1. \A o \in Nodes, v \in Workers : Busy(running[o][v]) => running'[o][v] = running[o][v]
      BY <2>1 DEF WorkerExit, IInv, TypeOK, Busy
    <3> QED
      BY <2>1, <3>1, NoneLostHeld DEF WorkerExit, tables, net, history
  <2> QED
    BY <1>4, <2>1, NoneLostPop, NoneLostRunHandler, NoneLostRunCallback DEF WorkerStep
<1>5. ASSUME NEW n \in Nodes, ExitStep(n)
      PROVE  NoneLost'
  BY <1>5, NoneLostHeld
     DEF ExitStep, BeginExit, CloseChannel, JoinWorkers, tables, net, threads, history
<1>6. ASSUME NEW m \in unsent, Transmit(m)
      PROVE  NoneLost'
  <2>1. /\ UNCHANGED <<counter, returned, owed, held, queue, running>>
        /\ unsent' \cup wire' = unsent \cup wire
    BY <1>6 DEF Transmit, tables, threads, history
  <2>2. \A x \in Message : Present(x) => Present(x)'
    BY <2>1 DEF Present, OnItsWay, Busy
  <2> QED
    BY <2>1, <2>2, NoneLostMoved
<1> QED
  BY <1>1, <1>2, <1>3, <1>4, <1>5, <1>6, NoneLostSendDeferred DEF Next

(***************************************************************************)
(* No call is lost, for any number of nodes, threads and calls: one whose  *)
(* callback has not run has a request, a task or a response somewhere,     *)
(* although listeners, the channel and the pool hand messages over without *)
(* a common lock (transfer.h:89-107, 117-126, 149-213).                    *)
(***************************************************************************)
THEOREM NoCallIsLost == Spec => []NoneLost
  BY NoneLostInit, NoneLostNext, InductiveInvariant, HistoryAgrees, PTL DEF Spec
-----------------------------------------------------------------------------
(* No thread waits for another for ever.                                   *)

\* The listener threads of n that have not ended.
Left(n) == {l \in Listeners : held[n][l] # Exited}

\* One empty message for each listener thread, and for no other purpose; a
\* pool thread ends on a closed channel only.
PoisonInv ==
    \A n \in Nodes :
       /\ phase[n] = "up" => poison[n] = 0 /\ Left(n) = Listeners
       /\ phase[n] = "exiting" => poison[n] = Cardinality(Left(n))
       /\ phase[n] \in {"up", "exiting"} => \A w \in Workers : running[n][w] # Exited

LEMMA PoisonInit == Init => PoisonInv
  BY TransferAssumption DEF Init, PoisonInv, Left

\* A step in which no thread ends and no destructor begins.
LEMMA PoisonKept ==
    ASSUME PoisonInv, UNCHANGED poison,
           \A n \in Nodes : phase'[n] \in {"up", "exiting"} => phase'[n] = phase[n],
           \A n \in Nodes, l \in Listeners : held'[n][l] = Exited <=> held[n][l] = Exited,
           \A n \in Nodes, w \in Workers :
              phase[n] \in {"up", "exiting"} /\ running'[n][w] = Exited => running[n][w] = Exited
    PROVE  PoisonInv'
<1>1. \A n \in Nodes : Left(n)' = Left(n)
  BY DEF Left
<1> QED
  BY <1>1 DEF PoisonInv

LEMMA PoisonTaken ==
    ASSUME TypeOK, PoisonInv, NEW n \in Nodes, NEW l \in Listeners, TakePoison(n, l)
    PROVE  PoisonInv'
<1>1. /\ UNCHANGED <<phase, running>>
      /\ poison[n] \in Nat /\ poison[n] > 0
      /\ poison'[n] = poison[n] - 1
      /\ \A o \in Nodes : o # n => poison'[o] = poison[o] /\ Left(o)' = Left(o)
  BY DEF TakePoison, TypeOK, Left
<1>2. l \in Left(n) /\ Left(n)' = Left(n) \ {l}
  BY TransferAssumption DEF TakePoison, TypeOK, Left
<1>3. IsFiniteSet(Left(n))
  BY TransferAssumption, FS_Subset DEF Left
<1>4. Cardinality(Left(n)') = Cardinality(Left(n)) - 1
  BY <1>2, <1>3, FS_RemoveElement
<1>5. phase[n] # "up"
  BY <1>1 DEF PoisonInv
<1> QED
  BY <1>1, <1>4, <1>5 DEF PoisonInv

LEMMA PoisonSent ==
    ASSUME TypeOK, PoisonInv, NEW n \in Nodes, BeginExit(n)
    PROVE  PoisonInv'
<1>1. UNCHANGED <<held, running>> /\ phase[n] = "up"
  BY DEF BeginExit, threads
<1>2. \A o \in Nodes : Left(o)' = Left(o)
  BY <1>1 DEF Left
<1>3. \A o \in Nodes : o # n => phase'[o] = phase[o] /\ poison'[o] = poison[o]
  BY DEF BeginExit, Abort, TypeOK
<1>4. \/ phase'[n] = "exiting" /\ poison'[n] = Cardinality(Listeners)
      \/ phase'[n] = "reply missing"
  BY DEF BeginExit, Abort, TypeOK
<1> QED
  BY <1>1, <1>2, <1>3, <1>4 DEF PoisonInv

LEMMA PoisonNext == TypeOK /\ PoisonInv /\ [Next]_vars => PoisonInv'
<1> SUFFICES ASSUME TypeOK, PoisonInv, [Next]_vars
             PROVE  PoisonInv'
  OBVIOUS
<1>0. Idle # Exited /\ Exited \notin Message
  BY TransferAssumption
<1>1. CASE UNCHANGED vars
  BY <1>1, PoisonKept DEF vars, threads
<1>2. ASSUME NEW n \in Nodes, AppStep(n)
      PROVE  PoisonInv'
  <2>1. UNCHANGED <<poison, held, running>>
    BY <1>2 DEF AppStep, AddClass, Send, threads
  <2>2. \A o \in Nodes : phase'[o] = phase[o] \/ phase'[o] = "id reused"
    BY <1>2 DEF AppStep, AddClass, Send, Abort, TypeOK
  <2> QED
    BY <2>1, <2>2, PoisonKept
<1>3. ASSUME NEW n \in Nodes, NEW l \in Listeners, ListenerStep(n, l)
      PROVE  PoisonInv'
  <2>1. ASSUME NEW m \in wire, Receive(n, l, m)
        PROVE  PoisonInv'
    <3>1. m \in Message /\ held[n][l] = Idle /\ UNCHANGED <<phase, poison, running>>
      BY <2>1 DEF Receive, TypeOK
    <3>2. \A o \in Nodes, k \in Listeners : held'[o][k] = Exited <=> held[o][k] = Exited
      BY <1>0, <2>1, <3>1 DEF Receive, TypeOK
    <3> QED
      BY <3>1, <3>2, PoisonKept
  <2>2. CASE DispatchRequest(n, l) \/ DispatchResponse(n, l)
    <3>1. held[n][l] # Exited /\ UNCHANGED <<poison, running>>
      BY <2>2 DEF DispatchRequest, DispatchResponse, Holds
    <3>2. UNCHANGED held \/ held' = [held EXCEPT ![n][l] = Idle]
      BY <2>2 DEF DispatchRequest, DispatchResponse, Enqueue
    <3>3. \A o \in Nodes, k \in Listeners : held'[o][k] = Exited <=> held[o][k] = Exited
      <4>1. held \in [Nodes -> [Listeners -> Slot]]
        BY DEF TypeOK
      <4> QED
        BY <1>0, <3>1, <3>2, <4>1
    <3>4. \A o \in Nodes : phase'[o] = phase[o] \/ phase'[o] \in Failures
      BY <2>2 DEF DispatchRequest, DispatchResponse, Abort, TypeOK, Failures
    <3> QED
      BY <3>1, <3>3, <3>4, PoisonKept DEF Failures
  <2> QED
    BY <1>3, <2>1, <2>2, PoisonTaken DEF ListenerStep
<1>4. ASSUME NEW n \in Nodes, NEW w \in Workers, WorkerStep(n, w)
      PROVE  PoisonInv'
  <2>1. UNCHANGED <<poison, phase, held>>
    BY <1>4 DEF WorkerStep, Pop, RunHandler, RunCallback, WorkerExit
  <2>2. CASE Pop(n, w)
    <3>1. Head(queue[n]) \in Message /\ running' = [running EXCEPT ![n][w] = Head(queue[n])]
      BY <2>2 DEF Pop, TypeOK
    <3>2. \A o \in Nodes, v \in Workers : running'[o][v] = Exited => running[o][v] = Exited
      BY <1>0, <3>1 DEF TypeOK
    <3> QED
      BY <2>1, <3>2, PoisonKept
  <2>3. CASE RunHandler(n, w) \/ RunCallback(n, w)
    <3>1. \A o \in Nodes, v \in Workers : running'[o][v] = Exited => running[o][v] = Exited
      <4>1. running \in [Nodes -> [Workers -> Slot]]
        BY DEF TypeOK
      <4>2. Finish(n, w)
        BY <2>3 DEF RunHandler, RunCallback
      <4> QED
        BY <1>0, <4>1, <4>2 DEF Finish
    <3> QED
      BY <2>1, <3>1, PoisonKept
  <2>4. CASE WorkerExit(n, w)
    <3>1. \A o \in Nodes, v \in Workers :
             phase[o] \in {"up", "exiting"} /\ running'[o][v] = Exited => running[o][v] = Exited
      BY <2>4 DEF WorkerExit, TypeOK
    <3> QED
      BY <2>1, <3>1, PoisonKept
  <2> QED
    BY <1>4, <2>2, <2>3, <2>4 DEF WorkerStep
<1>5. ASSUME NEW n \in Nodes, ExitStep(n)
      PROVE  PoisonInv'
  <2>1. CASE CloseChannel(n) \/ JoinWorkers(n)
    <3>1. UNCHANGED <<poison, held, running>>
      BY <2>1 DEF CloseChannel, JoinWorkers, threads
    <3>2. \A o \in Nodes : phase'[o] = phase[o] \/ phase'[o] \in {"closed", "dead"}
      BY <2>1 DEF CloseChannel, JoinWorkers, TypeOK
    <3> QED
      BY <3>1, <3>2, PoisonKept
  <2> QED
    BY <1>5, <2>1, PoisonSent DEF ExitStep
<1>6. ASSUME NEW m, Transmit(m) \/ SendDeferred(m)
      PROVE  PoisonInv'
  BY <1>6, PoisonKept DEF Transmit, SendDeferred, threads
<1> QED
  BY <1>1, <1>2, <1>3, <1>4, <1>5, <1>6 DEF Next

LEMMA PoisonCounted == Spec => []PoisonInv
  BY PoisonInit, PoisonNext, TypeCorrect, PTL DEF Spec

\* The guards of the threads' actions: some thread of node n can take a step.
ListenerGoesOn(n) ==
    \E l \in Listeners :
       \/ Busy(held[n][l])
       \/ held[n][l] = Idle /\ (poison[n] > 0 \/ \E m \in wire : m.to = n)

WorkerGoesOn(n) ==
    \E w \in Workers :
       \/ Busy(running[n][w])
       \/ running[n][w] = Idle /\ phase[n] \in {"up", "exiting"} /\ queue[n] # << >>
       \/ running[n][w] = Idle /\ phase[n] = "closed"

ExitGoesOn(n) ==
    \/ phase[n] = "exiting" /\ \A l \in Listeners : held[n][l] = Exited
    \/ phase[n] = "closed" /\ \A w \in Workers : running[n][w] = Exited

SenderGoesOn(n) ==
    \/ \E m \in unsent : m.client = n
    \/ phase[n] = "up" /\ \E m \in owed : m.to = n

SomeThreadGoesOn(n) ==
    /\ Live(n)
    /\ ListenerGoesOn(n) \/ WorkerGoesOn(n) \/ ExitGoesOn(n) \/ SenderGoesOn(n)

\* A destructor that has passed its CHECK never waits in vain, and no call
\* is stuck while every node is up.
LayerGoesOn ==
    /\ \A n \in Nodes : phase[n] \in {"exiting", "closed"} => SomeThreadGoesOn(n)
    /\ (\A n \in Nodes : phase[n] = "up") =>
          \A n \in Nodes : \A i \in Ids : Open(n, i) => \E o \in Nodes : SomeThreadGoesOn(o)

LEMMA DestructorGoesOn ==
    ASSUME TypeOK, PoisonInv, NEW n \in Nodes, phase[n] \in {"exiting", "closed"}
    PROVE  SomeThreadGoesOn(n)
<1>1. Live(n)
  BY DEF Live, Failures
<1>2. CASE phase[n] = "exiting"
  <2>1. CASE Left(n) = {}
    BY <1>1, <1>2, <2>1 DEF SomeThreadGoesOn, ExitGoesOn, Left
  <2>2. CASE Left(n) # {}
    <3>1. PICK l \in Listeners : l \in Left(n)
      BY <2>2 DEF Left
    <3>2. IsFiniteSet(Left(n))
      BY TransferAssumption, FS_Subset DEF Left
    <3>3. poison[n] = Cardinality(Left(n)) /\ poison[n] # 0 /\ poison[n] \in Nat
      BY <1>2, <2>2, <3>2, FS_EmptySet DEF PoisonInv, TypeOK
    <3>4. Busy(held[n][l]) \/ (held[n][l] = Idle /\ poison[n] > 0)
      BY <3>1, <3>3 DEF Left, Busy
    <3> QED
      BY <1>1, <3>4 DEF SomeThreadGoesOn, ListenerGoesOn
  <2> QED
    BY <2>1, <2>2
<1>3. CASE phase[n] = "closed"
  BY <1>1, <1>3 DEF SomeThreadGoesOn, WorkerGoesOn, ExitGoesOn, Busy
<1> QED
  BY <1>2, <1>3

LEMMA CallGoesOn ==
    ASSUME Listeners # {}, Workers # {}, TypeOK, PoisonInv, NoneLost,
           \A n \in Nodes : phase[n] = "up",
           NEW n \in Nodes, NEW i \in Ids, Open(n, i)
    PROVE  \E o \in Nodes : SomeThreadGoesOn(o)
<1>1. PICK x \in Message : Present(x)
  BY DEF NoneLost
<1>2. x.client \in Nodes /\ x.to \in Nodes
  BY DEF Message
<1>3. \A o \in Nodes : Live(o)
  BY DEF Live, Failures
<1>4. CASE x \in unsent
  BY <1>2, <1>3, <1>4 DEF SomeThreadGoesOn, SenderGoesOn
<1>5. CASE x \in owed
  BY <1>2, <1>3, <1>5 DEF SomeThreadGoesOn, SenderGoesOn
<1>6. CASE x \in wire
  <2>1. PICK l \in Listeners : TRUE
    OBVIOUS
  <2>2. held[x.to][l] # Exited
    BY <1>2 DEF PoisonInv, Left
  <2> QED
    BY <1>2, <1>3, <1>6, <2>2 DEF SomeThreadGoesOn, ListenerGoesOn, Busy
<1>7. ASSUME NEW o \in Nodes, NEW l \in Listeners, Busy(held[o][l])
      PROVE  SomeThreadGoesOn(o)
  BY <1>3, <1>7 DEF SomeThreadGoesOn, ListenerGoesOn
<1>8. ASSUME NEW o \in Nodes, NEW k \in 1 .. Len(queue[o])
      PROVE  SomeThreadGoesOn(o)
  <2>1. PICK w \in Workers : TRUE
    OBVIOUS
  <2>2. running[o][w] # Exited
    BY DEF PoisonInv
  <2>3. queue[o] # << >>
    BY <1>8 DEF TypeOK
  <2> QED
    BY <1>3, <2>2, <2>3 DEF SomeThreadGoesOn, WorkerGoesOn, Busy
<1>9. ASSUME NEW o \in Nodes, NEW w \in Workers, Busy(running[o][w])
      PROVE  SomeThreadGoesOn(o)
  BY <1>3, <1>9 DEF SomeThreadGoesOn, WorkerGoesOn
<1> QED
  BY <1>1, <1>4, <1>5, <1>6, <1>7, <1>8, <1>9 DEF Present, OnItsWay

(***************************************************************************)
(* The layer never stands still, whatever the numbers of nodes, threads    *)
(* and calls: a destructor that has passed CHECK(service_complete()) has,  *)
(* until it is done, a thread of its node that can go on, since there is   *)
(* one poison message for each listener it still waits for                 *)
(* (transfer.h:243-248, Listener.h:53-69); and while every node is up, a   *)
(* call that has not returned has a thread somewhere that can go on. These *)
(* are the safety halves of ExitCompletes and EveryCallReturns.            *)
(***************************************************************************)
THEOREM LayerNeverStandsStill ==
    ASSUME Listeners # {}, Workers # {}
    PROVE  Spec => []LayerGoesOn
<1>1. TypeOK /\ PoisonInv /\ NoneLost => LayerGoesOn
  BY DestructorGoesOn, CallGoesOn DEF LayerGoesOn
<1> QED
  BY <1>1, TypeCorrect, PoisonCounted, NoCallIsLost, PTL
=============================================================================
