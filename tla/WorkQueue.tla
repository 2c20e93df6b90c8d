----------------------------- MODULE WorkQueue -----------------------------
(***************************************************************************)
(* queue_with_capacity (utils/queue.h) between producers and consumers, as *)
(* its test uses it: every producer pushes its items and ends its input    *)
(* with some empty values, and a consumer that takes an empty value exits. *)
(*                                                                         *)
(* There are two mutexes.  The one of the threadsafe_queue inside covers   *)
(* each of its operations, which are therefore single steps: push with its *)
(* notification, size, and the test of wait_and_pop with the pop or the    *)
(* wait that follows.  The other one, mut, is held by push from its test   *)
(* of the size on; end_input and the pop do without it.                    *)
(***************************************************************************)
EXTENDS Naturals, Sequences, FiniteSets

CONSTANTS
    Producers,  \* the threads that push
    Consumers,  \* the threads that pop
    Capacity,   \* capacity
    Items,      \* bound: items of each producer
    Empties     \* the empty values each producer ends its input with

ASSUME WorkQueueAssumption ==
    /\ IsFiniteSet(Producers) /\ IsFiniteSet(Consumers)
    /\ Producers # {} /\ Consumers # {}
    /\ Capacity \in Nat
    /\ Items \in Nat
    /\ Empties \in Nat \ {0}
    /\ Cardinality(Consumers) = Empties * Cardinality(Producers)

VARIABLES
    queue,      \* data_queue
    producer,   \* where each producer is
    pushed,     \* the items it has pushed
    ended,      \* the empty values it has pushed
    consumer,   \* where each consumer is
    popped      \* history: what the consumers have taken, in order

queueVars == <<queue, producer, pushed, ended, consumer, popped>>

Item(p, i) == [from |-> p, nr |-> i]

\* empty_v: its number is 0.
Empty(p) == Item(p, 0)

QueueInit ==
    /\ queue = <<>>
    /\ producer = [p \in Producers |-> "push"]
    /\ pushed = [p \in Producers |-> 0]
    /\ ended = [p \in Producers |-> 0]
    /\ consumer = [c \in Consumers |-> "pop"]
    /\ popped = <<>>

\* Wakes one of the threads that wait on a condition variable, or nobody.
NotifyOneOf(thread, goal) ==
    LET waiting == {t \in DOMAIN thread : thread[t] = "waiting"} IN
    IF waiting = {} THEN {thread}
                    ELSE {[thread EXCEPT ![t] = goal] : t \in waiting}

\* threadsafe_queue::push
PushAndNotify(v) ==
    /\ queue' = Append(queue, v)
    /\ consumer' \in NotifyOneOf(consumer, "pop")

-----------------------------------------------------------------------------
(* A producer.                                                             *)

\* mut is held by a producer that has tested the size.
Locked == \E p \in Producers : producer[p] \in {"put", "full"}

AfterTest == IF Len(queue) <= Capacity THEN "put" ELSE "full"

\* Mutant: the test is made without mut.
TestSizeUnlocked(p) ==
    /\ producer[p] = "push"
    /\ pushed[p] < Items
    /\ producer' = [producer EXCEPT ![p] = AfterTest]
    /\ UNCHANGED <<queue, pushed, ended, consumer, popped>>

\* Mutant: an item that does not fit is given up.
TestSizeOnce(p) ==
    /\ producer[p] = "push" /\ ~Locked
    /\ pushed[p] < Items
    /\ IF Len(queue) <= Capacity
       THEN producer' = [producer EXCEPT ![p] = "put"] /\ UNCHANGED pushed
       ELSE pushed' = [pushed EXCEPT ![p] = @ + 1] /\ UNCHANGED producer
    /\ UNCHANGED <<queue, ended, consumer, popped>>

\* push locks mut and tests the size.
TestSize(p) ==
    /\ producer[p] = "push" /\ ~Locked
    /\ pushed[p] < Items
    /\ producer' = [producer EXCEPT ![p] = AfterTest]
    /\ UNCHANGED <<queue, pushed, ended, consumer, popped>>

\* push_cond.wait releases mut and joins the waiting threads in one step.
WaitForRoom(p) ==
    /\ producer[p] = "full"
    /\ producer' = [producer EXCEPT ![p] = "waiting"]
    /\ UNCHANGED <<queue, pushed, ended, consumer, popped>>

\* queue.push(v), and mut is released.
Put(p) ==
    /\ producer[p] = "put"
    /\ PushAndNotify(Item(p, pushed[p] + 1))
    /\ pushed' = [pushed EXCEPT ![p] = @ + 1]
    /\ producer' = [producer EXCEPT ![p] = "push"]
    /\ UNCHANGED <<ended, popped>>

\* end_input, one iteration: neither mut nor the capacity matters.
EndInput(p) ==
    /\ producer[p] = "push"
    /\ pushed[p] = Items
    /\ ended[p] < Empties
    /\ PushAndNotify(Empty(p))
    /\ ended' = [ended EXCEPT ![p] = @ + 1]
    /\ UNCHANGED <<producer, pushed, popped>>

ProducerStep(p) == TestSize(p) \/ WaitForRoom(p) \/ Put(p) \/ EndInput(p)

-----------------------------------------------------------------------------
(* A consumer.                                                             *)

\* queue.wait_and_pop
TakeFront(c) ==
    /\ consumer[c] = "pop"
    /\ IF queue = <<>>
       THEN /\ consumer' = [consumer EXCEPT ![c] = "waiting"]
            /\ UNCHANGED <<queue, popped>>
       ELSE /\ queue' = Tail(queue)
            /\ popped' = Append(popped, Head(queue))
            /\ consumer' = [consumer EXCEPT ![c] =
                              IF Head(queue).nr = 0 THEN "tell and exit" ELSE "tell"]
    /\ UNCHANGED <<producer, pushed, ended>>

\* Mutant: the producer is notified without mut.
NotifyProducerUnlocked(c) ==
    /\ consumer[c] \in {"tell", "tell and exit"}
    /\ producer' \in NotifyOneOf(producer, "push")
    /\ consumer' = [consumer EXCEPT ![c] = IF @ = "tell" THEN "pop" ELSE "exited"]
    /\ UNCHANGED <<queue, pushed, ended, popped>>

\* ... then mut is locked and push_cond notified.
NotifyProducer(c) ==
    /\ consumer[c] \in {"tell", "tell and exit"}
    /\ ~Locked
    /\ producer' \in NotifyOneOf(producer, "push")
    /\ consumer' = [consumer EXCEPT ![c] = IF @ = "tell" THEN "pop" ELSE "exited"]
    /\ UNCHANGED <<queue, pushed, ended, popped>>

ConsumerStep(c) == TakeFront(c) \/ NotifyProducer(c)

\* Condition variables may wake a thread without a notification.
WakeSpuriously ==
    \/ /\ \E p \in Producers : producer[p] = "waiting" /\ producer' = [producer EXCEPT ![p] = "push"]
       /\ UNCHANGED <<queue, pushed, ended, consumer, popped>>
    \/ /\ \E c \in Consumers : consumer[c] = "waiting" /\ consumer' = [consumer EXCEPT ![c] = "pop"]
       /\ UNCHANGED <<queue, producer, pushed, ended, popped>>

QueueNext ==
    \/ \E p \in Producers : ProducerStep(p)
    \/ \E c \in Consumers : ConsumerStep(c)
    \/ WakeSpuriously

\* Threads are scheduled, and who tries to lock mut gets it at last though
\* others take it again and again; nothing obliges a thread to wake
\* spuriously, nor keeps it from doing so for ever.
QueueFairness ==
    /\ \A p \in Producers : WF_queueVars(ProducerStep(p)) /\ SF_queueVars(TestSize(p))
    /\ \A c \in Consumers : WF_queueVars(ConsumerStep(c)) /\ SF_queueVars(NotifyProducer(c))

QueueSpec == QueueInit /\ [][QueueNext]_queueVars /\ QueueFairness

-----------------------------------------------------------------------------
QueueTypeOK ==
    LET Elements == [from : Producers, nr : 0 .. Items] IN
    /\ queue \in Seq(Elements)
    /\ producer \in [Producers -> {"push", "put", "full", "waiting"}]
    /\ pushed \in [Producers -> 0 .. Items]
    /\ ended \in [Producers -> 0 .. Empties]
    /\ consumer \in [Consumers -> {"pop", "waiting", "tell", "tell and exit", "exited"}]
    /\ popped \in Seq(Elements)

(***************************************************************************)
(* push lets in one item more than the capacity, since it waits only while *)
(* the size exceeds it (queue.h:91), but never two: from the test to the   *)
(* push no other producer gets past mut.  Empty values are not limited.    *)
(***************************************************************************)
AtMostOneOver == Cardinality({i \in DOMAIN queue : queue[i].nr # 0}) <= Capacity + 1

\* How many of the first k elements of s come from p.
CountFrom(s, p, k) == Cardinality({i \in 1 .. k : s[i].from = p})

\* The i-th value p has pushed, or will push.
NthOf(p, i) == IF i <= pushed[p] THEN Item(p, i) ELSE Empty(p)

(***************************************************************************)
(* Every item a producer has pushed is taken once, in the order of its     *)
(* pushes, whoever of the consumers takes it and however often threads     *)
(* were woken: what was taken of it, and what the queue holds, is what it  *)
(* has pushed, and its empty values come after it (queue.h:94-97).         *)
(***************************************************************************)
ItemsInOrder ==
    LET all == popped \o queue IN
    \A p \in Producers :
       /\ CountFrom(all, p, Len(all)) = pushed[p] + ended[p]
       /\ \A k \in DOMAIN all :
             all[k].from = p => all[k] = NthOf(p, CountFrom(all, p, k))

(***************************************************************************)
(* The queue is emptied and everybody comes to an end: no producer waits   *)
(* for room that nobody tells it of, and no consumer exits, on the empty   *)
(* value of one producer, while the items of another are still to come and *)
(* nobody else would take them.                                            *)
(***************************************************************************)
EverythingIsTaken ==
    <>(/\ queue = <<>>
       /\ \A p \in Producers : pushed[p] = Items /\ ended[p] = Empties
       /\ \A c \in Consumers : consumer[c] = "exited")
=============================================================================
