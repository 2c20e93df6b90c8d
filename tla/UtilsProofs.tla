---------------------------- MODULE UtilsProofs ----------------------------
(***************************************************************************)
(* Theorems about the parts MCUtils puts side by side that have no module  *)
(* of proofs of their own: the queue with a capacity (WorkQueue) for any   *)
(* number of producers, consumers and items, the buffers (Buffer) for any  *)
(* number of objects and any capacity, the configuration parser (Config)   *)
(* for any files, and then all the parts together.                         *)
(***************************************************************************)
EXTENDS MCUtils, StateBarrierProofs, FragTableProofs, FunctionTheorems, SequenceTheorems

-----------------------------------------------------------------------------
(* The queue: types.                                                       *)

Elements == [from : Producers, nr : 0 .. Items]

LEMMA Numbers == Items \in Nat /\ Empties \in Nat /\ Capacity \in Nat
  BY WorkQueueAssumption

LEMMA Pushable ==
    ASSUME NEW p \in Producers
    PROVE  /\ Empty(p) \in Elements /\ Empty(p).from = p /\ Empty(p).nr = 0
           /\ \A i \in 0 .. Items : /\ Item(p, i) \in Elements
                                    /\ Item(p, i).from = p /\ Item(p, i).nr = i
<1>1. 0 \in 0 .. Items
  BY Numbers
<1> QED
  BY <1>1 DEF Empty, Item, Elements

LEMMA QueueTypes ==
    QueueTypeOK <=> /\ queue \in Seq(Elements)
                    /\ producer \in [Producers -> {"push", "put", "full", "waiting"}]
                    /\ pushed \in [Producers -> 0 .. Items]
                    /\ ended \in [Producers -> 0 .. Empties]
                    /\ consumer \in [Consumers -> {"pop", "waiting", "tell",
                                                   "tell and exit", "exited"}]
                    /\ popped \in Seq(Elements)
  BY DEF QueueTypeOK, Elements

LEMMA NotifyConsumer ==
    ASSUME QueueTypeOK, consumer' \in NotifyOneOf(consumer, "pop")
    PROVE  consumer' \in [Consumers -> {"pop", "waiting", "tell", "tell and exit", "exited"}]
  BY QueueTypes DEF NotifyOneOf

\* A notified producer was waiting, and tests again.
LEMMA NotifiedProducer ==
    ASSUME QueueTypeOK, producer' \in NotifyOneOf(producer, "push")
    PROVE  /\ producer' \in [Producers -> {"push", "put", "full", "waiting"}]
           /\ \A p \in Producers : producer'[p] \in {"put", "full"} => producer'[p] = producer[p]
  BY QueueTypes DEF NotifyOneOf

\* More or fewer of what is pushed.
LEMMA OneMorePushed ==
    ASSUME NEW N \in Nat, NEW f \in [Producers -> 0 .. N], NEW p \in Producers, f[p] < N
    PROVE  /\ [f EXCEPT ![p] = @ + 1] \in [Producers -> 0 .. N]
           /\ f[p] + 1 \in 0 .. N
<1>1. f[p] + 1 \in 0 .. N
  <2>1. f[p] \in 0 .. N
    OBVIOUS
  <2> QED
    BY <2>1
<1> QED
  BY <1>1

\* A producer that is past the test has an item left to put, and one that
\* has begun to end its input has none.
Stages ==
    \A p \in Producers : /\ producer[p] \in {"put", "full"} => pushed[p] < Items
                         /\ ended[p] > 0 => pushed[p] = Items

LEMMA QueueTypeNext ==
    ASSUME QueueTypeOK, Stages, [QueueNext]_queueVars
    PROVE  QueueTypeOK'
<1>0. /\ queue \in Seq(Elements)
      /\ producer \in [Producers -> {"push", "put", "full", "waiting"}]
      /\ pushed \in [Producers -> 0 .. Items]
      /\ ended \in [Producers -> 0 .. Empties]
      /\ consumer \in [Consumers -> {"pop", "waiting", "tell", "tell and exit", "exited"}]
      /\ popped \in Seq(Elements)
  BY QueueTypes
<1> DEFINE Typed == /\ queue' \in Seq(Elements)
                    /\ producer' \in [Producers -> {"push", "put", "full", "waiting"}]
                    /\ pushed' \in [Producers -> 0 .. Items]
                    /\ ended' \in [Producers -> 0 .. Empties]
                    /\ consumer' \in [Consumers -> {"pop", "waiting", "tell",
                                                    "tell and exit", "exited"}]
                    /\ popped' \in Seq(Elements)
<1> SUFFICES Typed
  BY DEF QueueTypeOK, Elements
<1>1. CASE UNCHANGED queueVars
  BY <1>0, <1>1 DEF queueVars
<1>2. ASSUME NEW p \in Producers, TestSize(p) PROVE Typed
  BY <1>0, <1>2 DEF TestSize, AfterTest
<1>3. ASSUME NEW p \in Producers, WaitForRoom(p) PROVE Typed
  BY <1>0, <1>3 DEF WaitForRoom
<1>4. ASSUME NEW p \in Producers, Put(p) PROVE Typed
  <2>1. pushed' \in [Producers -> 0 .. Items] /\ pushed[p] + 1 \in 0 .. Items
    BY <1>0, <1>4, OneMorePushed, Numbers DEF Put, Stages
  <2>2. queue' \in Seq(Elements)
    BY <1>0, <1>4, <2>1, Pushable, AppendProperties DEF Put, PushAndNotify
  <2>3. consumer' \in [Consumers -> {"pop", "waiting", "tell", "tell and exit", "exited"}]
    BY <1>4, NotifyConsumer DEF Put, PushAndNotify
  <2> QED
    BY <1>0, <1>4, <2>1, <2>2, <2>3 DEF Put
<1>5. ASSUME NEW p \in Producers, EndInput(p) PROVE Typed
  <2>1. ended[p] \in 0 .. Empties /\ ended[p] < Empties
    BY <1>0, <1>5 DEF EndInput
  <2>2. ended' \in [Producers -> 0 .. Empties]
    BY <1>0, <1>5, <2>1, OneMorePushed, Numbers DEF EndInput
  <2>3. queue' \in Seq(Elements)
    BY <1>0, <1>5, Pushable, AppendProperties DEF EndInput, PushAndNotify
  <2>4. consumer' \in [Consumers -> {"pop", "waiting", "tell", "tell and exit", "exited"}]
    BY <1>5, NotifyConsumer DEF EndInput, PushAndNotify
  <2> QED
    BY <1>0, <1>5, <2>2, <2>3, <2>4 DEF EndInput
<1>6. ASSUME NEW c \in Consumers, TakeFront(c) PROVE Typed
  <2>1. CASE queue = <<>>
    BY <1>0, <1>6, <2>1 DEF TakeFront
  <2>2. CASE queue # <<>>
    <3>1. queue' \in Seq(Elements) /\ popped' \in Seq(Elements)
      <4>1. Head(queue) \in Elements /\ Tail(queue) \in Seq(Elements)
        BY <1>0, <2>2, HeadTailProperties
      <4>2. queue' = Tail(queue) /\ popped' = Append(popped, Head(queue))
        BY <1>6, <2>2 DEF TakeFront
      <4> QED
        BY <1>0, <4>1, <4>2, AppendProperties
    <3> QED
      BY <1>0, <1>6, <2>2, <3>1 DEF TakeFront
  <2> QED
    BY <2>1, <2>2
<1>7. ASSUME NEW c \in Consumers, NotifyProducer(c) PROVE Typed
  <2>1. producer' \in [Producers -> {"push", "put", "full", "waiting"}]
    BY <1>7, NotifiedProducer DEF NotifyProducer
  <2> QED
    BY <1>0, <1>7, <2>1 DEF NotifyProducer
<1>8. CASE WakeSpuriously
  BY <1>0, <1>8 DEF WakeSpuriously
<1> QED
  BY <1>1, <1>2, <1>3, <1>4, <1>5, <1>6, <1>7, <1>8 DEF QueueNext, ProducerStep, ConsumerStep

-----------------------------------------------------------------------------
(* The queue: its limit.                                                   *)

\* The positions of the items in a sequence, empty values left out.
HeldIn(s) == {i \in DOMAIN s : s[i].nr # 0}

LEMMA HeldCount ==
    ASSUME NEW s \in Seq(Elements)
    PROVE  /\ IsFiniteSet(HeldIn(s))
           /\ Cardinality(HeldIn(s)) \in Nat
           /\ Cardinality(HeldIn(s)) <= Len(s)
<1>1. DOMAIN s = 1 .. Len(s) /\ Len(s) \in Nat
  BY LenProperties
<1>2. IsFiniteSet(1 .. Len(s)) /\ Cardinality(1 .. Len(s)) = Len(s)
  BY <1>1, FS_Interval
<1>3. HeldIn(s) \in SUBSET (1 .. Len(s))
  BY <1>1 DEF HeldIn
<1> QED
  BY <1>2, <1>3, FS_Subset, FS_CardinalityType

LEMMA HeldAppended ==
    ASSUME NEW s \in Seq(Elements), NEW v \in Elements
    PROVE  /\ v.nr = 0 => Cardinality(HeldIn(Append(s, v))) = Cardinality(HeldIn(s))
           /\ Cardinality(HeldIn(Append(s, v))) <= Cardinality(HeldIn(s)) + 1
<1> PICK t : t = Append(s, v)
  OBVIOUS
<1>1. /\ DOMAIN s = 1 .. Len(s) /\ Len(s) \in Nat
      /\ DOMAIN t = 1 .. Len(s) + 1
      /\ \A i \in 1 .. Len(s) : t[i] = s[i]
      /\ t[Len(s) + 1] = v
  BY LenProperties, AppendProperties
<1>2. 1 .. Len(s) + 1 = (1 .. Len(s)) \cup {Len(s) + 1}
  BY <1>1
<1>3. HeldIn(t) = IF v.nr = 0 THEN HeldIn(s) ELSE HeldIn(s) \cup {Len(s) + 1}
  BY <1>1, <1>2 DEF HeldIn
<1>4. /\ IsFiniteSet(HeldIn(s)) /\ Cardinality(HeldIn(s)) \in Nat
  BY HeldCount
<1>5. Cardinality(HeldIn(s) \cup {Len(s) + 1}) <= Cardinality(HeldIn(s)) + 1
  <2> PICK k : k = Len(s) + 1
    OBVIOUS
  <2>1. Cardinality(HeldIn(s) \cup {k})
           = IF k \in HeldIn(s) THEN Cardinality(HeldIn(s)) ELSE Cardinality(HeldIn(s)) + 1
    BY <1>4, FS_AddElement
  <2>2. Cardinality(HeldIn(s) \cup {k}) <= Cardinality(HeldIn(s)) + 1
    BY <1>4, <2>1
  <2> QED
    BY <2>2
<1> QED
  BY <1>3, <1>4, <1>5

LEMMA HeldTaken ==
    ASSUME NEW s \in Seq(Elements), s # <<>>
    PROVE  Cardinality(HeldIn(Tail(s))) <= Cardinality(HeldIn(s))
<1>1. /\ Tail(s) \in Seq(Elements)
      /\ Len(Tail(s)) = Len(s) - 1 /\ Len(s) \in Nat
      /\ DOMAIN s = 1 .. Len(s) /\ DOMAIN Tail(s) = 1 .. Len(s) - 1
      /\ \A i \in 1 .. Len(s) - 1 : Tail(s)[i] = s[i + 1]
  BY HeadTailProperties, LenProperties
<1> DEFINE f == [i \in HeldIn(Tail(s)) |-> i + 1]
<1>2. \A i \in HeldIn(Tail(s)) : i \in 1 .. Len(s) - 1 /\ i + 1 \in HeldIn(s)
  BY <1>1 DEF HeldIn
<1>3. f \in Injection(HeldIn(Tail(s)), HeldIn(s))
  BY <1>2 DEF Injection, IsInjective
<1> HIDE DEF f
<1>4. IsFiniteSet(HeldIn(s))
  BY HeldCount
<1> QED
  BY <1>3, <1>4, FS_Injection

\* One producer at most is past the test, and then there is room.
LimitInv ==
    /\ \A p, q \in Producers :
          producer[p] \in {"put", "full"} /\ producer[q] \in {"put", "full"} => p = q
    /\ \A p \in Producers : producer[p] = "put" => Cardinality(HeldIn(queue)) <= Capacity
    /\ Cardinality(HeldIn(queue)) <= Capacity + 1

LEMMA LimitStep ==
    ASSUME QueueTypeOK, QueueTypeOK', LimitInv, [QueueNext]_queueVars
    PROVE  LimitInv'
<1>0. /\ queue \in Seq(Elements) /\ queue' \in Seq(Elements)
      /\ producer \in [Producers -> {"push", "put", "full", "waiting"}]
      /\ Cardinality(HeldIn(queue)) \in Nat /\ Cardinality(HeldIn(queue')) \in Nat
      /\ Cardinality(HeldIn(queue)) <= Len(queue) /\ Len(queue) \in Nat
      /\ Capacity \in Nat
  <2>1. queue \in Seq(Elements) /\ queue' \in Seq(Elements)
    BY DEF QueueTypeOK, Elements
  <2> QED
    BY <2>1, QueueTypes, HeldCount, Numbers, LenProperties
<1>a. ASSUME \A p \in Producers : producer'[p] \in {"put", "full"} => producer'[p] = producer[p],
             Cardinality(HeldIn(queue')) <= Cardinality(HeldIn(queue))
      PROVE  LimitInv'
  BY <1>0, <1>a DEF LimitInv
<1>9. ASSUME queue' = queue PROVE Cardinality(HeldIn(queue')) <= Cardinality(HeldIn(queue))
  <2>1. HeldIn(queue') = HeldIn(queue)
    BY <1>9
  <2>2. \A n \in Nat : n <= n
    OBVIOUS
  <2> QED
    BY <1>0, <2>1, <2>2
<1>1. CASE UNCHANGED queueVars
  BY <1>0, <1>1, <1>a DEF queueVars
<1>2. ASSUME NEW p \in Producers, TestSize(p) PROVE LimitInv'
  <2>1. \A q \in Producers : producer[q] \notin {"put", "full"}
    BY <1>2 DEF TestSize, Locked
  <2>2. /\ queue' = queue
        /\ producer'[p] = IF Len(queue) <= Capacity THEN "put" ELSE "full"
        /\ \A q \in Producers : q # p => producer'[q] = producer[q]
    BY <1>0, <1>2 DEF TestSize, AfterTest
  <2> QED
    BY <1>0, <2>1, <2>2 DEF LimitInv
<1>3. ASSUME NEW p \in Producers, WaitForRoom(p) PROVE LimitInv'
  BY <1>0, <1>3, <1>a DEF WaitForRoom
<1>4. ASSUME NEW p \in Producers, Put(p) PROVE LimitInv'
  <2>1. producer[p] = "put" /\ producer' = [producer EXCEPT ![p] = "push"]
    BY <1>4 DEF Put
  <2>2. \A q \in Producers : producer'[q] \notin {"put", "full"}
    BY <1>0, <2>1 DEF LimitInv
  <2>3. PICK v : queue' = Append(queue, v) /\ v = Item(p, pushed[p] + 1)
    BY <1>4 DEF Put, PushAndNotify
  <2>4. v \in Elements
    <3>1. queue'[Len(queue) + 1] = v /\ Len(queue') = Len(queue) + 1
      BY <1>0, <2>3
    <3> QED
      BY <1>0, <3>1, ElementOfSeq
  <2>5. Cardinality(HeldIn(queue')) <= Cardinality(HeldIn(queue)) + 1
    BY <1>0, <2>3, <2>4, HeldAppended
  <2>6. Cardinality(HeldIn(queue)) <= Capacity
    BY <2>1 DEF LimitInv
  <2> QED
    BY <1>0, <2>2, <2>5, <2>6 DEF LimitInv
<1>5. ASSUME NEW p \in Producers, EndInput(p) PROVE LimitInv'
  <2>1. producer' = producer /\ queue' = Append(queue, Empty(p))
    BY <1>5 DEF EndInput, PushAndNotify
  <2>2. Cardinality(HeldIn(queue')) = Cardinality(HeldIn(queue))
    BY <1>0, <2>1, Pushable, HeldAppended
  <2> QED
    BY <1>0, <2>1, <2>2, <1>a
<1>6. ASSUME NEW c \in Consumers, TakeFront(c) PROVE LimitInv'
  <2>1. producer' = producer
    BY <1>6 DEF TakeFront
  <2>2. Cardinality(HeldIn(queue')) <= Cardinality(HeldIn(queue))
    <3>1. queue' = queue \/ (queue # <<>> /\ queue' = Tail(queue))
      BY <1>6 DEF TakeFront
    <3>2. CASE queue' = queue
      BY <1>9, <3>2
    <3>3. CASE queue # <<>> /\ queue' = Tail(queue)
      BY <1>0, <3>3, HeldTaken
    <3> QED
      BY <3>1, <3>2, <3>3
  <2> QED
    BY <2>1, <2>2, <1>a
<1>7. ASSUME NEW c \in Consumers, NotifyProducer(c) PROVE LimitInv'
  <2>1. \A p \in Producers : producer'[p] \in {"put", "full"} => producer'[p] = producer[p]
    BY <1>7, NotifiedProducer DEF NotifyProducer
  <2>2. Cardinality(HeldIn(queue')) <= Cardinality(HeldIn(queue))
    <3>1. queue' = queue
      BY <1>7 DEF NotifyProducer
    <3> QED
      BY <1>9, <3>1
  <2> QED
    BY <2>1, <2>2, <1>a
<1>8. CASE WakeSpuriously
  BY <1>0, <1>8, <1>a DEF WakeSpuriously
<1> QED
  BY <1>1, <1>2, <1>3, <1>4, <1>5, <1>6, <1>7, <1>8 DEF QueueNext, ProducerStep, ConsumerStep

-----------------------------------------------------------------------------
(* The queue: its order.                                                   *)

LEMMA CountAtMost ==
    ASSUME NEW s, NEW p, NEW n \in Nat
    PROVE  /\ CountFrom(s, p, n) \in Nat
           /\ \A k \in 1 .. n : /\ CountFrom(s, p, k) \in Nat
                               /\ CountFrom(s, p, k) <= CountFrom(s, p, n)
<1> DEFINE Of(k) == {i \in 1 .. k : s[i].from = p}
<1>1. \A k \in 1 .. n : Of(k) \in SUBSET Of(n)
  OBVIOUS
<1>2. IsFiniteSet(1 .. n) /\ Of(n) \in SUBSET (1 .. n)
  BY FS_Interval
<1>3. IsFiniteSet(Of(n))
  BY <1>2, FS_Subset
<1>4. Cardinality(Of(n)) \in Nat
  BY <1>3, FS_CardinalityType
<1>5. ASSUME NEW k \in 1 .. n
      PROVE  Cardinality(Of(k)) \in Nat /\ Cardinality(Of(k)) <= Cardinality(Of(n))
  BY <1>1, <1>3, FS_Subset, FS_CardinalityType
<1> QED
  BY <1>4, <1>5 DEF CountFrom

\* What counting finds in a sequence with one element more.
LEMMA CountAppended ==
    ASSUME NEW s \in Seq(Elements), NEW v \in Elements, NEW p
    PROVE  LET t == Append(s, v) IN
           /\ \A k \in 1 .. Len(s) : CountFrom(t, p, k) = CountFrom(s, p, k)
           /\ CountFrom(t, p, Len(t)) = IF v.from = p THEN CountFrom(s, p, Len(s)) + 1
                                                     ELSE CountFrom(s, p, Len(s))
<1> PICK t : t = Append(s, v)
  OBVIOUS
<1>1. /\ Len(s) \in Nat /\ Len(t) = Len(s) + 1
      /\ \A i \in 1 .. Len(s) : t[i] = s[i]
      /\ t[Len(s) + 1] = v
  BY LenProperties, AppendProperties
<1> DEFINE Of(x, k) == {i \in 1 .. k : x[i].from = p}
<1>2. ASSUME NEW k \in 0 .. Len(s) PROVE Of(t, k) = Of(s, k)
  BY <1>1
<1> PICK last : last = Len(s) + 1
  OBVIOUS
<1>3. Of(t, last) = IF v.from = p THEN Of(s, Len(s)) \cup {last} ELSE Of(s, Len(s))
  <2>1. 1 .. last = (1 .. Len(s)) \cup {last}
    BY <1>1
  <2> QED
    BY <1>1, <2>1
<1>4. last \notin Of(s, Len(s)) /\ IsFiniteSet(Of(s, Len(s)))
  <2>1. IsFiniteSet(1 .. Len(s)) /\ Of(s, Len(s)) \in SUBSET (1 .. Len(s))
    BY <1>1, FS_Interval
  <2>2. last \notin 1 .. Len(s)
    BY <1>1
  <2> QED
    BY <2>1, <2>2, FS_Subset
<1>5. Cardinality(Of(s, Len(s)) \cup {last}) = Cardinality(Of(s, Len(s))) + 1
  BY <1>4, FS_AddElement
<1>6. ASSUME NEW x, NEW k PROVE CountFrom(x, p, k) = Cardinality(Of(x, k))
  BY DEF CountFrom
<1>7. ASSUME NEW k \in 1 .. Len(s) PROVE CountFrom(t, p, k) = CountFrom(s, p, k)
  <2>1. k \in 0 .. Len(s)
    BY <1>1
  <2>2. Of(t, k) = Of(s, k)
    BY <1>2, <2>1
  <2> QED
    BY <1>6, <2>2
<1>8. CountFrom(t, p, last) = IF v.from = p THEN CountFrom(s, p, Len(s)) + 1
                                            ELSE CountFrom(s, p, Len(s))
  <2> HIDE DEF Of
  <2> QED
    BY <1>3, <1>5, <1>6
<1>9. Len(t) = last
  BY <1>1
<1> QED
  BY <1>7, <1>8, <1>9

\* Taking the front leaves what was taken and what is queued as it is.
LEMMA SameAll ==
    ASSUME NEW a \in Seq(Elements), NEW q \in Seq(Elements), q # <<>>
    PROVE  Append(a, Head(q)) \o Tail(q) = a \o q
<1>1. /\ Head(q) \in Elements /\ Tail(q) \in Seq(Elements) /\ <<Head(q)>> \in Seq(Elements)
  BY HeadTailProperties
<1>2. Append(a, Head(q)) = a \o <<Head(q)>>
  BY <1>1, AppendIsConcat
<1>3. <<Head(q)>> \o Tail(q) = q
  BY <1>1
<1> QED
  BY <1>1, <1>2, <1>3, ConcatAssociative

LEMMA AppendToAll ==
    ASSUME NEW a \in Seq(Elements), NEW q \in Seq(Elements), NEW v \in Elements
    PROVE  /\ a \o Append(q, v) = Append(a \o q, v)
           /\ a \o q \in Seq(Elements)
<1>1. <<v>> \in Seq(Elements)
  OBVIOUS
<1>2. a \o q \in Seq(Elements)
  BY ConcatProperties
<1> QED
  BY <1>1, <1>2, AppendIsConcat, ConcatAssociative

\* The values of sequence `all` that come from p are the first `done` ones
\* it pushes, `items` of which are items.
InOrder(all, p, items, done) ==
    /\ CountFrom(all, p, Len(all)) = done
    /\ \A k \in DOMAIN all : all[k].from = p =>
          all[k] = IF CountFrom(all, p, k) <= items THEN Item(p, CountFrom(all, p, k))
                                                    ELSE Empty(p)

LEMMA OrderIs ==
    ItemsInOrder <=> \A p \in Producers : InOrder(popped \o queue, p, pushed[p], pushed[p] + ended[p])
  BY DEF ItemsInOrder, InOrder, NthOf

\* Another value of p comes, which is the next it pushes.
LEMMA InOrderAppended ==
    ASSUME NEW all \in Seq(Elements), NEW p \in Producers, NEW v \in Elements,
           NEW items \in Nat, NEW done \in Nat, NEW more \in Nat,
           v.from = p, InOrder(all, p, items, done),
           \/ more = items /\ done >= items /\ v = Empty(p)
           \/ more = items + 1 /\ done = items /\ v = Item(p, items + 1)
    PROVE  InOrder(Append(all, v), p, more, done + 1)
<1> PICK t : t = Append(all, v)
  OBVIOUS
<1>1. /\ Len(all) \in Nat /\ Len(t) = Len(all) + 1
      /\ DOMAIN all = 1 .. Len(all) /\ DOMAIN t = 1 .. Len(all) + 1
      /\ \A i \in 1 .. Len(all) : t[i] = all[i]
      /\ t[Len(all) + 1] = v
  BY LenProperties, AppendProperties
<1>2. /\ \A k \in 1 .. Len(all) : CountFrom(t, p, k) = CountFrom(all, p, k)
      /\ CountFrom(t, p, Len(all) + 1) = done + 1
  BY <1>1, CountAppended DEF InOrder
<1>3. \A k \in 1 .. Len(all) : /\ CountFrom(all, p, k) \in Nat
                              /\ CountFrom(all, p, k) <= done
  BY <1>1, CountAtMost DEF InOrder
<1>4. ASSUME NEW k \in 1 .. Len(all), t[k].from = p
      PROVE  t[k] = IF CountFrom(t, p, k) <= more THEN Item(p, CountFrom(t, p, k)) ELSE Empty(p)
  <2> PICK n : n = CountFrom(all, p, k)
    OBVIOUS
  <2>1. t[k] = IF n <= items THEN Item(p, n) ELSE Empty(p)
    BY <1>1, <1>4 DEF InOrder
  <2>2. n <= items <=> n <= more
    BY <1>3
  <2> QED
    BY <1>2, <2>1, <2>2
<1>5. v = IF done + 1 <= more THEN Item(p, done + 1) ELSE Empty(p)
  OBVIOUS
<1>6. ASSUME NEW k \in DOMAIN t, t[k].from = p
      PROVE  t[k] = IF CountFrom(t, p, k) <= more THEN Item(p, CountFrom(t, p, k)) ELSE Empty(p)
  <2>1. k \in 1 .. Len(all) \/ k = Len(all) + 1
    BY <1>1
  <2> QED
    BY <1>1, <1>2, <1>4, <1>5, <1>6, <2>1
<1>7. CountFrom(t, p, Len(t)) = done + 1
  BY <1>1, <1>2
<1> QED
  BY <1>6, <1>7 DEF InOrder

\* A value of somebody else comes.
LEMMA InOrderKept ==
    ASSUME NEW all \in Seq(Elements), NEW p \in Producers, NEW v \in Elements,
           NEW items, NEW done, v.from # p, InOrder(all, p, items, done)
    PROVE  InOrder(Append(all, v), p, items, done)
<1> PICK t : t = Append(all, v)
  OBVIOUS
<1>1. /\ Len(all) \in Nat /\ Len(t) = Len(all) + 1
      /\ DOMAIN all = 1 .. Len(all) /\ DOMAIN t = 1 .. Len(all) + 1
      /\ \A i \in 1 .. Len(all) : t[i] = all[i]
      /\ t[Len(all) + 1] = v
  BY LenProperties, AppendProperties
<1>2. /\ \A k \in 1 .. Len(all) : CountFrom(t, p, k) = CountFrom(all, p, k)
      /\ CountFrom(t, p, Len(t)) = done
  BY <1>1, CountAppended DEF InOrder
<1>3. ASSUME NEW k \in DOMAIN t, t[k].from = p
      PROVE  k \in 1 .. Len(all)
  <2>1. k \in 1 .. Len(all) \/ k = Len(all) + 1
    BY <1>1
  <2> QED
    BY <1>1, <1>3, <2>1
<1> QED
  BY <1>1, <1>2, <1>3 DEF InOrder

-----------------------------------------------------------------------------
(* The queue: the theorems.                                                *)

LEMMA StagesStep ==
    ASSUME QueueTypeOK, Stages, LimitInv, [QueueNext]_queueVars
    PROVE  Stages'
<1>0. /\ producer \in [Producers -> {"push", "put", "full", "waiting"}]
      /\ pushed \in [Producers -> 0 .. Items]
      /\ ended \in [Producers -> 0 .. Empties]
      /\ Items \in Nat /\ Empties \in Nat
  BY QueueTypes, Numbers
<1>a. ASSUME \A p \in Producers : producer'[p] \in {"put", "full"} => producer'[p] = producer[p],
             pushed' = pushed, ended' = ended
      PROVE  Stages'
  BY <1>a DEF Stages
<1>1. CASE UNCHANGED queueVars
  BY <1>1, <1>a DEF queueVars
<1>2. ASSUME NEW p \in Producers, TestSize(p) PROVE Stages'
  BY <1>0, <1>2 DEF TestSize, Stages
<1>3. ASSUME NEW p \in Producers, WaitForRoom(p) PROVE Stages'
  BY <1>0, <1>3, <1>a DEF WaitForRoom
<1>4. ASSUME NEW p \in Producers, Put(p) PROVE Stages'
  <2>1. producer[p] = "put" /\ pushed[p] < Items /\ pushed[p] \in 0 .. Items
    BY <1>0, <1>4 DEF Put, Stages
  <2>2. ended' = ended /\ ~(ended[p] > 0)
    <3>1. pushed[p] # Items
      BY <1>0, <2>1
    <3> QED
      BY <1>4, <3>1 DEF Put, Stages
  <2>3. \A q \in Producers : q # p => producer'[q] = producer[q] /\ pushed'[q] = pushed[q]
    BY <1>0, <1>4 DEF Put
  <2>4. producer'[p] = "push"
    BY <1>0, <1>4 DEF Put
  <2> QED
    BY <2>2, <2>3, <2>4 DEF Stages
<1>5. ASSUME NEW p \in Producers, EndInput(p) PROVE Stages'
  <2>1. /\ producer' = producer /\ pushed' = pushed /\ pushed[p] = Items
        /\ \A q \in Producers : q # p => ended'[q] = ended[q]
    BY <1>0, <1>5 DEF EndInput
  <2> QED
    BY <2>1 DEF Stages
<1>6. ASSUME NEW c \in Consumers, TakeFront(c) PROVE Stages'
  BY <1>6, <1>a DEF TakeFront
<1>7. ASSUME NEW c \in Consumers, NotifyProducer(c) PROVE Stages'
  BY <1>7, <1>a, NotifiedProducer DEF NotifyProducer
<1>8. CASE WakeSpuriously
  BY <1>0, <1>8, <1>a DEF WakeSpuriously
<1> QED
  BY <1>1, <1>2, <1>3, <1>4, <1>5, <1>6, <1>7, <1>8 DEF QueueNext, ProducerStep, ConsumerStep

\* Each value a producer pushes goes behind those it has pushed.
LEMMA OrderStep ==
    ASSUME QueueTypeOK, Stages, ItemsInOrder, [QueueNext]_queueVars
    PROVE  ItemsInOrder'
<1>0. /\ queue \in Seq(Elements) /\ popped \in Seq(Elements)
      /\ pushed \in [Producers -> 0 .. Items]
      /\ ended \in [Producers -> 0 .. Empties]
      /\ Items \in Nat /\ Empties \in Nat
  BY QueueTypes, Numbers
<1> DEFINE All == popped \o queue
<1>a. /\ ItemsInOrder' <=> \A p \in Producers :
                              InOrder(All', p, pushed'[p], pushed'[p] + ended'[p])
      /\ \A p \in Producers : InOrder(All, p, pushed[p], pushed[p] + ended[p])
  BY OrderIs DEF ItemsInOrder, InOrder, NthOf
<1>b. ASSUME All' = All, pushed' = pushed, ended' = ended
      PROVE  ItemsInOrder'
  BY <1>a, <1>b
<1>c. All \in Seq(Elements)
  BY <1>0, ConcatProperties
<1>d. ASSUME NEW p \in Producers, NEW v \in Elements, v.from = p,
             queue' = Append(queue, v), popped' = popped,
             InOrder(Append(All, v), p, pushed'[p], pushed'[p] + ended'[p]),
             \A q \in Producers : q # p => pushed'[q] = pushed[q] /\ ended'[q] = ended[q]
      PROVE  ItemsInOrder'
  <2>1. All' = Append(All, v)
    BY <1>0, <1>d, AppendToAll
  <2>2. ASSUME NEW q \in Producers, q # p
        PROVE  InOrder(Append(All, v), q, pushed'[q], pushed'[q] + ended'[q])
    <3>1. InOrder(All, q, pushed[q], pushed[q] + ended[q]) /\ v.from # q
      BY <1>a, <1>d, <2>2
    <3>2. InOrder(Append(All, v), q, pushed[q], pushed[q] + ended[q])
      BY <1>c, <1>d, <3>1, InOrderKept
    <3> QED
      BY <1>d, <2>2, <3>2
  <2> HIDE DEF All
  <2> QED
    BY <1>a, <1>d, <2>1, <2>2
<1>1. CASE UNCHANGED queueVars
  BY <1>1, <1>b DEF queueVars
<1>2. ASSUME NEW p \in Producers, TestSize(p) PROVE ItemsInOrder'
  BY <1>2, <1>b DEF TestSize
<1>3. ASSUME NEW p \in Producers, WaitForRoom(p) PROVE ItemsInOrder'
  BY <1>3, <1>b DEF WaitForRoom
<1>4. ASSUME NEW p \in Producers, Put(p) PROVE ItemsInOrder'
  <2> PICK items : items = pushed[p]
    OBVIOUS
  <2>1. /\ items \in Nat /\ items + 1 \in Nat /\ items + 1 \in 0 .. Items
        /\ ended[p] = 0 /\ pushed[p] + ended[p] = items
    <3>1. items \in 0 .. Items /\ ended[p] \in 0 .. Empties
      BY <1>0
    <3>2. items < Items /\ (ended[p] > 0 => items = Items)
      BY <1>4 DEF Put, Stages
    <3> QED
      BY <1>0, <3>1, <3>2
  <2> PICK v : v = Item(p, items + 1)
    OBVIOUS
  <2>2. v \in Elements /\ v.from = p
    BY <2>1, Pushable
  <2>3. /\ queue' = Append(queue, v) /\ popped' = popped /\ ended' = ended
        /\ pushed'[p] = items + 1
        /\ \A q \in Producers : q # p => pushed'[q] = pushed[q]
    BY <1>0, <1>4 DEF Put, PushAndNotify
  <2>4. InOrder(All, p, items, items)
    BY <1>a, <2>1
  <2>5. InOrder(Append(All, v), p, items + 1, items + 1)
    <3> HIDE DEF All
    <3> QED
      BY <1>c, <2>1, <2>2, <2>4, InOrderAppended
  <2>6. pushed'[p] + ended'[p] = items + 1
    BY <2>1, <2>3
  <2> QED
    BY <1>d, <2>2, <2>3, <2>5, <2>6
<1>5. ASSUME NEW p \in Producers, EndInput(p) PROVE ItemsInOrder'
  <2> PICK items, done : items = pushed[p] /\ done = pushed[p] + ended[p]
    OBVIOUS
  <2>1. /\ items \in Nat /\ done \in Nat /\ done >= items
        /\ ended[p] \in Nat /\ items + (ended[p] + 1) = done + 1
    <3>1. pushed[p] \in 0 .. Items /\ ended[p] \in 0 .. Empties
      BY <1>0
    <3> QED
      BY <1>0, <3>1
  <2> PICK v : v = Empty(p)
    OBVIOUS
  <2>2. v \in Elements /\ v.from = p
    BY Pushable
  <2>3. /\ queue' = Append(queue, v) /\ popped' = popped /\ pushed' = pushed
        /\ ended'[p] = ended[p] + 1
        /\ \A q \in Producers : q # p => ended'[q] = ended[q]
    BY <1>0, <1>5 DEF EndInput, PushAndNotify
  <2>4. InOrder(All, p, items, done)
    BY <1>a
  <2>5. InOrder(Append(All, v), p, items, done + 1)
    <3> HIDE DEF All
    <3> QED
      BY <1>c, <2>1, <2>2, <2>4, InOrderAppended
  <2>6. pushed'[p] = items /\ pushed'[p] + ended'[p] = done + 1
    BY <2>1, <2>3
  <2> QED
    BY <1>d, <2>2, <2>3, <2>5, <2>6
<1>6. ASSUME NEW c \in Consumers, TakeFront(c) PROVE ItemsInOrder'
  <2>1. pushed' = pushed /\ ended' = ended
    BY <1>6 DEF TakeFront
  <2>2. CASE queue = <<>>
    BY <1>6, <1>b, <2>1, <2>2 DEF TakeFront
  <2>3. CASE queue # <<>>
    <3>1. queue' = Tail(queue) /\ popped' = Append(popped, Head(queue))
      BY <1>6, <2>3 DEF TakeFront
    <3>2. All' = All
      BY <1>0, <2>3, <3>1, SameAll
    <3> QED
      BY <1>b, <2>1, <3>2
  <2> QED
    BY <2>2, <2>3
<1>7. ASSUME NEW c \in Consumers, NotifyProducer(c) PROVE ItemsInOrder'
  BY <1>7, <1>b DEF NotifyProducer
<1>8. CASE WakeSpuriously
  BY <1>8, <1>b DEF WakeSpuriously
<1> QED
  BY <1>1, <1>2, <1>3, <1>4, <1>5, <1>6, <1>7, <1>8 DEF QueueNext, ProducerStep, ConsumerStep

QueueInv == QueueTypeOK /\ Stages /\ LimitInv /\ ItemsInOrder

LEMMA QueueInitially == QueueInit => QueueInv
<1> SUFFICES ASSUME QueueInit PROVE QueueInv
  OBVIOUS
<1>0. /\ 0 \in 0 .. Items /\ 0 \in 0 .. Empties /\ Capacity \in Nat
      /\ <<>> \in Seq(Elements) /\ Len(<<>>) = 0
  BY Numbers
<1>1. QueueTypeOK /\ Stages
  BY <1>0, QueueTypes DEF QueueInit, Stages
<1>2. Cardinality(HeldIn(queue)) = 0
  <2>1. HeldIn(queue) = {}
    BY DEF QueueInit, HeldIn
  <2> QED
    BY <2>1, FS_EmptySet
<1>3. LimitInv
  BY <1>0, <1>2 DEF QueueInit, LimitInv
<1>4. ItemsInOrder
  <2>1. popped \o queue = <<>>
    BY DEF QueueInit
  <2>2. ASSUME NEW p \in Producers PROVE CountFrom(<<>>, p, 0) = 0
    <3>1. {i \in 1 .. 0 : <<>>[i].from = p} = {}
      OBVIOUS
    <3> QED
      BY <3>1, FS_EmptySet DEF CountFrom
  <2>3. ASSUME NEW p \in Producers PROVE InOrder(<<>>, p, pushed[p], pushed[p] + ended[p])
    BY <1>0, <2>2 DEF QueueInit, InOrder
  <2> QED
    BY <2>1, <2>3, OrderIs
<1> QED
  BY <1>1, <1>3, <1>4 DEF QueueInv

LEMMA QueueInvNext == QueueInv /\ [QueueNext]_queueVars => QueueInv'
<1> SUFFICES ASSUME QueueInv, [QueueNext]_queueVars PROVE QueueInv'
  OBVIOUS
<1>1. QueueTypeOK'
  BY QueueTypeNext DEF QueueInv
<1> QED
  BY <1>1, LimitStep, StagesStep, OrderStep DEF QueueInv

(***************************************************************************)
(* Whatever the threads of a queue do, its state has its type, only one    *)
(* producer is past the test of the size that push makes under mut, and    *)
(* what was taken and is queued is what was pushed, in order               *)
(* (queue.h:89-110).  LimitInv is what makes the limit inductive: the room *)
(* a producer has seen is still there when it pushes.                      *)
(***************************************************************************)
THEOREM QueueInductiveInvariant == QueueSpec => []QueueInv
  BY QueueInitially, QueueInvNext, PTL DEF QueueSpec

(***************************************************************************)
(* For any number of producers, consumers and items the queue holds one    *)
(* item more than its capacity at most (push, queue.h:89-98).              *)
(***************************************************************************)
THEOREM QueueIsLimited == QueueSpec => []AtMostOneOver
<1>1. QueueInv => AtMostOneOver
  BY DEF QueueInv, LimitInv, AtMostOneOver, HeldIn
<1> QED
  BY <1>1, QueueInductiveInvariant, PTL

(***************************************************************************)
(* For any number of producers, consumers and items every item is taken    *)
(* once and in the order of its producer, and the empty values come after  *)
(* the items (push, end_input, wait_and_pop, queue.h:89-110).              *)
(***************************************************************************)
THEOREM ItemsComeInOrder == QueueSpec => []ItemsInOrder
<1>1. QueueInv => ItemsInOrder
  BY DEF QueueInv
<1> QED
  BY <1>1, QueueInductiveInvariant, PTL

-----------------------------------------------------------------------------
(***************************************************************************)
(* The queue: who wakes whom.  A notification goes to one thread and is    *)
(* lost when nobody waits, so what keeps the threads going are counts: of  *)
(* what is in the queue, and of the threads that will see to it.           *)
(***************************************************************************)
Telling == {c \in Consumers : consumer[c] \in {"tell", "tell and exit"}}
Popping == {c \in Consumers : consumer[c] = "pop"}
Leaving == {c \in Consumers : consumer[c] \in {"tell and exit", "exited"}}

\* The producers with items left that do not wait for room.
Trying == {p \in Producers : producer[p] # "waiting" /\ pushed[p] < Items}

\* A producer that waits for room is not forgotten: what is queued, the
\* consumers that will tell of a pop, and the producers that will put another
\* item, are together more than the capacity.  A consumer waits only while
\* others will take what is queued.
WakeInv ==
    /\ \A p \in Producers : producer[p] = "waiting" =>
          /\ pushed[p] < Items
          /\ Len(queue) + Cardinality(Telling) + Cardinality(Trying) > Capacity
    /\ \A p \in Producers : producer[p] = "full" =>
          Len(queue) + Cardinality(Telling) > Capacity
    /\ \A c \in Consumers : consumer[c] = "waiting" => Len(queue) <= Cardinality(Popping)

EmptiesIn(s) == {i \in DOMAIN s : s[i].nr = 0}

\* The empty values pushed, and all that will be.
AllTickets == Producers \X (1 .. Empties)
Tickets == {x \in AllTickets : x[2] <= ended[x[1]]}

\* Each empty value that was pushed is queued or has made a consumer leave.
EmptiesAddUp ==
    Cardinality(Leaving) + Cardinality(EmptiesIn(queue)) = Cardinality(Tickets)

\* The empty values of a producer are behind its items.
EmptiesBehind ==
    \A i \in DOMAIN queue : ended[queue[i].from] > 0 =>
       \E j \in DOMAIN queue : j >= i /\ queue[j] = Empty(queue[i].from)

LEMMA ThreadCounts ==
    /\ IsFiniteSet(Telling) /\ Cardinality(Telling) \in Nat
    /\ IsFiniteSet(Popping) /\ Cardinality(Popping) \in Nat
    /\ IsFiniteSet(Leaving) /\ Cardinality(Leaving) \in Nat
    /\ IsFiniteSet(Trying) /\ Cardinality(Trying) \in Nat
<1>1. IsFiniteSet(Consumers) /\ IsFiniteSet(Producers)
  BY WorkQueueAssumption
<1>2. /\ Telling \in SUBSET Consumers /\ Popping \in SUBSET Consumers
      /\ Leaving \in SUBSET Consumers /\ Trying \in SUBSET Producers
  BY DEF Telling, Popping, Leaving, Trying
<1> QED
  BY <1>1, <1>2, FS_Subset, FS_CardinalityType

LEMMA ThreadCountsNext ==
    /\ Cardinality(Telling') \in Nat /\ Cardinality(Popping') \in Nat
    /\ Cardinality(Leaving') \in Nat /\ Cardinality(Trying') \in Nat
<1>1. IsFiniteSet(Consumers) /\ IsFiniteSet(Producers)
  BY WorkQueueAssumption
<1>2. /\ Telling' \in SUBSET Consumers /\ Popping' \in SUBSET Consumers
      /\ Leaving' \in SUBSET Consumers /\ Trying' \in SUBSET Producers
  BY DEF Telling, Popping, Leaving, Trying
<1> QED
  BY <1>1, <1>2, FS_Subset, FS_CardinalityType

LEMMA OneMore ==
    ASSUME NEW S, NEW x, IsFiniteSet(S), x \notin S
    PROVE  Cardinality(S \cup {x}) = Cardinality(S) + 1
  BY FS_AddElement

LEMMA OneLess ==
    ASSUME NEW S, NEW x, IsFiniteSet(S), x \in S
    PROVE  Cardinality(S \ {x}) = Cardinality(S) - 1
  BY FS_RemoveElement

\* What push does for the consumers: one more pops if any waits.
LEMMA ConsumerNotified ==
    ASSUME QueueTypeOK, consumer' \in NotifyOneOf(consumer, "pop")
    PROVE  /\ Telling' = Telling /\ Leaving' = Leaving
           /\ \A c \in Consumers : consumer'[c] = "waiting" =>
                 /\ consumer[c] = "waiting"
                 /\ Cardinality(Popping') = Cardinality(Popping) + 1
<1>0. consumer \in [Consumers -> {"pop", "waiting", "tell", "tell and exit", "exited"}]
  BY QueueTypes
<1>1. CASE consumer' = consumer /\ \A c \in Consumers : consumer[c] # "waiting"
  BY <1>1 DEF Telling, Leaving
<1>2. ASSUME NEW t \in Consumers, consumer[t] = "waiting",
             consumer' = [consumer EXCEPT ![t] = "pop"]
      PROVE  /\ Telling' = Telling /\ Leaving' = Leaving
             /\ Cardinality(Popping') = Cardinality(Popping) + 1
             /\ \A c \in Consumers : consumer'[c] = "waiting" => consumer[c] = "waiting"
  <2>1. Popping' = Popping \cup {t} /\ t \notin Popping
    BY <1>0, <1>2 DEF Popping
  <2>2. Telling' = Telling /\ Leaving' = Leaving
    BY <1>0, <1>2 DEF Telling, Leaving
  <2> QED
    BY <1>0, <1>2, <2>1, <2>2, OneMore, ThreadCounts
<1>3. \/ consumer' = consumer /\ \A c \in Consumers : consumer[c] # "waiting"
      \/ \E t \in Consumers : consumer[t] = "waiting"
                              /\ consumer' = [consumer EXCEPT ![t] = "pop"]
  BY <1>0 DEF NotifyOneOf
<1> QED
  BY <1>1, <1>2, <1>3

\* What wait_and_pop does for the producers: one more tries if any waits.
LEMMA ProducerNotified ==
    ASSUME QueueTypeOK, WakeInv, producer' \in NotifyOneOf(producer, "push"), pushed' = pushed
    PROVE  \A p \in Producers : producer'[p] = "waiting" =>
              /\ producer[p] = "waiting"
              /\ Cardinality(Trying') = Cardinality(Trying) + 1
<1>0. producer \in [Producers -> {"push", "put", "full", "waiting"}]
  BY QueueTypes
<1>1. CASE producer' = producer /\ \A p \in Producers : producer[p] # "waiting"
  BY <1>1
<1>2. ASSUME NEW t \in Producers, producer[t] = "waiting",
             producer' = [producer EXCEPT ![t] = "push"]
      PROVE  /\ Cardinality(Trying') = Cardinality(Trying) + 1
             /\ \A p \in Producers : producer'[p] = "waiting" => producer[p] = "waiting"
  <2>1. pushed[t] < Items
    BY <1>2 DEF WakeInv
  <2>2. Trying' = Trying \cup {t} /\ t \notin Trying
    BY <1>0, <1>2, <2>1 DEF Trying
  <2> QED
    BY <1>0, <1>2, <2>2, OneMore, ThreadCounts
<1>3. \/ producer' = producer /\ \A p \in Producers : producer[p] # "waiting"
      \/ \E t \in Producers : producer[t] = "waiting"
                              /\ producer' = [producer EXCEPT ![t] = "push"]
  BY <1>0 DEF NotifyOneOf
<1> QED
  BY <1>1, <1>2, <1>3

LEMMA QueueLengths ==
    ASSUME QueueTypeOK
    PROVE  /\ Len(queue) \in Nat /\ Capacity \in Nat /\ Items \in Nat
           /\ queue \in Seq(Elements)
           /\ \A p \in Producers : pushed[p] \in Nat
<1>1. /\ queue \in Seq(Elements)
      /\ pushed \in [Producers -> 0 .. Items]
  BY QueueTypes
<1>2. Capacity \in Nat /\ Items \in Nat
  BY Numbers
<1>3. \A p \in Producers : pushed[p] \in Nat
  <2>1. \A n \in 0 .. Items : n \in Nat
    BY <1>2
  <2> QED
    BY <1>1, <2>1
<1> QED
  BY <1>1, <1>2, <1>3, LenProperties

\* A step that leaves the counts alone, or makes them more.
LEMMA WakeKept ==
    ASSUME QueueTypeOK, WakeInv,
           Len(queue') = Len(queue), Telling' = Telling, Trying' = Trying, Popping' = Popping,
           \A p \in Producers :
              /\ producer'[p] = "waiting" => producer[p] = "waiting" /\ pushed'[p] = pushed[p]
              /\ producer'[p] = "full" => producer[p] = "full" \/ Len(queue) > Capacity,
           \A c \in Consumers : consumer'[c] = "waiting" => consumer[c] = "waiting"
    PROVE  WakeInv'
  BY QueueLengths, ThreadCounts DEF WakeInv

LEMMA WakeStep ==
    ASSUME QueueTypeOK, Stages, LimitInv, WakeInv, [QueueNext]_queueVars
    PROVE  WakeInv'
<1>0. /\ producer \in [Producers -> {"push", "put", "full", "waiting"}]
      /\ pushed \in [Producers -> 0 .. Items]
      /\ consumer \in [Consumers -> {"pop", "waiting", "tell", "tell and exit", "exited"}]
  BY QueueTypes
<1>k. /\ Len(queue) \in Nat /\ Capacity \in Nat
      /\ Cardinality(Telling) \in Nat /\ Cardinality(Trying) \in Nat
      /\ Cardinality(Popping) \in Nat
      /\ Cardinality(Telling') \in Nat /\ Cardinality(Trying') \in Nat
      /\ Cardinality(Popping') \in Nat
  BY QueueLengths, ThreadCounts, ThreadCountsNext
<1>1. CASE UNCHANGED queueVars
  BY <1>1, WakeKept DEF queueVars, Telling, Trying, Popping
<1>2. ASSUME NEW p \in Producers, TestSize(p) PROVE WakeInv'
  <2>1. Trying' = Trying
    BY <1>0, <1>2 DEF TestSize, AfterTest, Trying
  <2>2. /\ \A q \in Producers : /\ producer'[q] = "waiting" => producer[q] = "waiting"
                                /\ producer'[q] = "full" => producer[q] = "full"
                                                            \/ Len(queue) > Capacity
    <3>1. producer' = [producer EXCEPT ![p] = AfterTest]
      BY <1>2 DEF TestSize
    <3>2. AfterTest # "waiting" /\ (AfterTest = "full" => Len(queue) > Capacity)
      BY <1>k DEF AfterTest
    <3> QED
      BY <1>0, <3>1, <3>2
  <2>3. UNCHANGED <<queue, pushed, consumer>>
    BY <1>2 DEF TestSize
  <2>4. Telling' = Telling /\ Popping' = Popping
    BY <2>3 DEF Telling, Popping
  <2> QED
    BY <2>1, <2>2, <2>3, <2>4, WakeKept
<1>3. ASSUME NEW p \in Producers, WaitForRoom(p) PROVE WakeInv'
  <2>1. /\ producer[p] = "full" /\ producer' = [producer EXCEPT ![p] = "waiting"]
        /\ UNCHANGED <<queue, pushed, consumer>>
    BY <1>3 DEF WaitForRoom
  <2>2. /\ Telling' = Telling /\ Popping' = Popping
    BY <2>1 DEF Telling, Popping
  <2>3. /\ pushed[p] < Items
        /\ Len(queue) + Cardinality(Telling) > Capacity
    BY <2>1 DEF WakeInv, Stages
  <2>4. Len(queue) + Cardinality(Telling) + Cardinality(Trying') > Capacity
    BY <1>k, <2>3
  <2>5. \A q \in Producers : producer'[q] = "waiting" => pushed[q] < Items
    BY <1>0, <2>1, <2>3 DEF WakeInv
  <2>6. \A c \in Consumers : consumer[c] = "waiting" => Len(queue) <= Cardinality(Popping)
    BY DEF WakeInv
  <2> QED
    BY <2>1, <2>2, <2>3, <2>4, <2>5, <2>6 DEF WakeInv
<1>4. ASSUME NEW p \in Producers, Put(p) PROVE WakeInv'
  <2>1. /\ producer[p] = "put" /\ producer' = [producer EXCEPT ![p] = "push"]
        /\ pushed' = [pushed EXCEPT ![p] = @ + 1]
        /\ consumer' \in NotifyOneOf(consumer, "pop")
    BY <1>4 DEF Put, PushAndNotify
  <2>2. Len(queue') = Len(queue) + 1
    BY <1>4, QueueLengths, AppendProperties DEF Put, PushAndNotify
  <2>3. \A q \in Producers : producer'[q] \notin {"put", "full"}
    BY <1>0, <2>1 DEF LimitInv
  <2>4. Cardinality(Trying') + 1 >= Cardinality(Trying)
    <3>1. p \in Trying
      BY <2>1 DEF Trying, Stages
    <3>2. Trying' = Trying \/ Trying' = Trying \ {p}
      <4>1. CASE pushed'[p] < Items
        BY <1>0, <2>1, <3>1, <4>1 DEF Trying
      <4>2. CASE ~(pushed'[p] < Items)
        BY <1>0, <2>1, <4>2 DEF Trying
      <4> QED
        BY <4>1, <4>2
    <3>3. Cardinality(Trying \ {p}) = Cardinality(Trying) - 1
      BY <3>1, OneLess, ThreadCounts
    <3>4. Cardinality(Trying') = Cardinality(Trying)
             \/ Cardinality(Trying') = Cardinality(Trying) - 1
      BY <3>2, <3>3
    <3> QED
      BY <1>k, <3>4
  <2>5. Telling' = Telling
    BY <2>1, ConsumerNotified
  <2>6. ASSUME NEW q \in Producers, producer'[q] = "waiting"
        PROVE  /\ pushed'[q] < Items
               /\ Len(queue') + Cardinality(Telling') + Cardinality(Trying') > Capacity
    <3>1. producer[q] = "waiting" /\ pushed'[q] = pushed[q]
      BY <1>0, <2>1, <2>6
    <3>2. /\ pushed[q] < Items
          /\ Len(queue) + Cardinality(Telling) + Cardinality(Trying) > Capacity
      BY <3>1 DEF WakeInv
    <3>3. Cardinality(Telling') = Cardinality(Telling)
      BY <2>5
    <3> QED
      BY <1>k, <2>2, <2>4, <3>1, <3>2, <3>3
  <2>7. ASSUME NEW c \in Consumers, consumer'[c] = "waiting"
        PROVE  Len(queue') <= Cardinality(Popping')
    <3>1. consumer[c] = "waiting" /\ Cardinality(Popping') = Cardinality(Popping) + 1
      BY <2>1, <2>7, ConsumerNotified
    <3>2. Len(queue) <= Cardinality(Popping)
      BY <3>1 DEF WakeInv
    <3> QED
      BY <1>k, <2>2, <3>1, <3>2
  <2> QED
    BY <2>3, <2>6, <2>7 DEF WakeInv
<1>5. ASSUME NEW p \in Producers, EndInput(p) PROVE WakeInv'
  <2>1. /\ UNCHANGED <<producer, pushed>>
        /\ consumer' \in NotifyOneOf(consumer, "pop")
    BY <1>5 DEF EndInput, PushAndNotify
  <2>2. Len(queue') = Len(queue) + 1
    BY <1>5, QueueLengths, AppendProperties DEF EndInput, PushAndNotify
  <2>3. Cardinality(Trying') = Cardinality(Trying)
    <3>1. Trying' = Trying
      BY <2>1 DEF Trying
    <3> QED
      BY <3>1
  <2>4. Cardinality(Telling') = Cardinality(Telling)
    <3>1. Telling' = Telling
      BY <2>1, ConsumerNotified
    <3> QED
      BY <3>1
  <2>5. ASSUME NEW q \in Producers, producer'[q] = "waiting"
        PROVE  /\ pushed'[q] < Items
               /\ Len(queue') + Cardinality(Telling') + Cardinality(Trying') > Capacity
    <3>1. /\ pushed[q] < Items
          /\ Len(queue) + Cardinality(Telling) + Cardinality(Trying) > Capacity
      BY <2>1, <2>5 DEF WakeInv
    <3> QED
      BY <1>k, <2>1, <2>2, <2>3, <2>4, <3>1
  <2>6. ASSUME NEW q \in Producers, producer'[q] = "full"
        PROVE  Len(queue') + Cardinality(Telling') > Capacity
    <3>1. Len(queue) + Cardinality(Telling) > Capacity
      BY <2>1, <2>6 DEF WakeInv
    <3> QED
      BY <1>k, <2>2, <2>4, <3>1
  <2>7. ASSUME NEW c \in Consumers, consumer'[c] = "waiting"
        PROVE  Len(queue') <= Cardinality(Popping')
    <3>1. consumer[c] = "waiting" /\ Cardinality(Popping') = Cardinality(Popping) + 1
      BY <2>1, <2>7, ConsumerNotified
    <3>2. Len(queue) <= Cardinality(Popping)
      BY <3>1 DEF WakeInv
    <3> QED
      BY <1>k, <2>2, <3>1, <3>2
  <2> QED
    BY <2>5, <2>6, <2>7 DEF WakeInv
<1>6. ASSUME NEW c \in Consumers, TakeFront(c) PROVE WakeInv'
  <2>0. consumer[c] = "pop" /\ UNCHANGED <<producer, pushed>>
    BY <1>6 DEF TakeFront
  <2>1. Cardinality(Trying') = Cardinality(Trying)
    <3>1. Trying' = Trying
      BY <2>0 DEF Trying
    <3> QED
      BY <3>1
  <2>2. CASE queue = <<>>
    <3>1. queue' = <<>> /\ consumer' = [consumer EXCEPT ![c] = "waiting"]
      BY <1>6, <2>2 DEF TakeFront
    <3>2. Telling' = Telling
      BY <1>0, <2>0, <3>1 DEF Telling
    <3>3. Len(queue') = 0 /\ Len(queue) = 0 /\ Cardinality(Telling') = Cardinality(Telling)
      BY <2>2, <3>1, <3>2
    <3> QED
      BY <1>k, <2>0, <2>1, <3>3 DEF WakeInv
  <2>3. CASE queue # <<>>
    <3>1. /\ queue' = Tail(queue)
          /\ consumer' = [consumer EXCEPT ![c] =
                            IF Head(queue).nr = 0 THEN "tell and exit" ELSE "tell"]
      BY <1>6, <2>3 DEF TakeFront
    <3>2. Len(queue') = Len(queue) - 1
      BY <2>3, <3>1, QueueLengths, HeadTailProperties
    <3>3. Cardinality(Telling') = Cardinality(Telling) + 1
      <4>1. Telling' = Telling \cup {c} /\ c \notin Telling
        BY <1>0, <2>0, <3>1 DEF Telling
      <4> QED
        BY <4>1, OneMore, ThreadCounts
    <3>4. Cardinality(Popping') = Cardinality(Popping) - 1
      <4>1. Popping' = Popping \ {c} /\ c \in Popping
        BY <1>0, <2>0, <3>1 DEF Popping
      <4> QED
        BY <4>1, OneLess, ThreadCounts
    <3>5. ASSUME NEW d \in Consumers, consumer'[d] = "waiting"
          PROVE  Len(queue') <= Cardinality(Popping')
      <4>1. consumer[d] = "waiting"
        BY <1>0, <3>1, <3>5
      <4>2. Len(queue) <= Cardinality(Popping)
        BY <4>1 DEF WakeInv
      <4> QED
        BY <1>k, <3>2, <3>4, <4>2
    <3>6. Len(queue') + Cardinality(Telling') = Len(queue) + Cardinality(Telling)
      BY <1>k, <3>2, <3>3
    <3> QED
      BY <2>0, <2>1, <3>5, <3>6 DEF WakeInv
  <2> QED
    BY <2>2, <2>3
<1>7. ASSUME NEW c \in Consumers, NotifyProducer(c) PROVE WakeInv'
  <2>1. /\ consumer[c] \in {"tell", "tell and exit"} /\ ~Locked
        /\ producer' \in NotifyOneOf(producer, "push")
        /\ consumer' = [consumer EXCEPT ![c] = IF @ = "tell" THEN "pop" ELSE "exited"]
        /\ UNCHANGED <<queue, pushed>>
    BY <1>7 DEF NotifyProducer
  <2>2. \A q \in Producers : producer'[q] # "full"
    BY <2>1, NotifiedProducer DEF Locked
  <2>3. Cardinality(Telling') = Cardinality(Telling) - 1
    <3>1. Telling' = Telling \ {c} /\ c \in Telling
      BY <1>0, <2>1 DEF Telling
    <3> QED
      BY <3>1, OneLess, ThreadCounts
  <2>4. Cardinality(Popping') >= Cardinality(Popping)
    <3>1. Popping' = Popping \/ (Popping' = Popping \cup {c} /\ c \notin Popping)
      BY <1>0, <2>1 DEF Popping
    <3>2. c \notin Popping => Cardinality(Popping \cup {c}) = Cardinality(Popping) + 1
      BY OneMore, ThreadCounts
    <3>3. Cardinality(Popping') = Cardinality(Popping)
             \/ Cardinality(Popping') = Cardinality(Popping) + 1
      BY <3>1, <3>2
    <3> QED
      BY <1>k, <3>3
  <2>5. ASSUME NEW q \in Producers, producer'[q] = "waiting"
        PROVE  /\ pushed'[q] < Items
               /\ Len(queue') + Cardinality(Telling') + Cardinality(Trying') > Capacity
    <3>1. producer[q] = "waiting" /\ Cardinality(Trying') = Cardinality(Trying) + 1
      BY <2>1, <2>5, ProducerNotified
    <3>2. /\ pushed[q] < Items
          /\ Len(queue) + Cardinality(Telling) + Cardinality(Trying) > Capacity
      BY <3>1 DEF WakeInv
    <3>3. Len(queue') = Len(queue) /\ pushed'[q] = pushed[q]
      BY <2>1
    <3>4. Cardinality(Trying') = Cardinality(Trying) + 1
      BY <3>1
    <3>5. Len(queue') + Cardinality(Telling') + Cardinality(Trying')
             = Len(queue) + Cardinality(Telling) + Cardinality(Trying)
      BY <1>k, <2>3, <3>3, <3>4
    <3> QED
      BY <3>2, <3>3, <3>5
  <2>6. ASSUME NEW d \in Consumers, consumer'[d] = "waiting"
        PROVE  Len(queue') <= Cardinality(Popping')
    <3>1. consumer[d] = "waiting"
      BY <1>0, <2>1, <2>6
    <3>2. Len(queue) <= Cardinality(Popping) /\ Len(queue') = Len(queue)
      BY <2>1, <3>1 DEF WakeInv
    <3> QED
      BY <1>k, <2>4, <3>2
  <2> QED
    BY <2>2, <2>5, <2>6 DEF WakeInv
<1>8. ASSUME NEW p \in Producers, producer[p] = "waiting",
             producer' = [producer EXCEPT ![p] = "push"],
             UNCHANGED <<queue, pushed, consumer>>
      PROVE  WakeInv'
  <2>1. pushed[p] < Items
    BY <1>8 DEF WakeInv
  <2>2. Trying' = Trying \cup {p} /\ p \notin Trying
    BY <1>0, <1>8, <2>1 DEF Trying
  <2>3. Cardinality(Trying') = Cardinality(Trying) + 1
    BY <2>2, OneMore, ThreadCounts
  <2>4. Telling' = Telling /\ Popping' = Popping
    BY <1>8 DEF Telling, Popping
  <2>5. /\ Len(queue') = Len(queue) /\ Cardinality(Telling') = Cardinality(Telling)
        /\ Cardinality(Popping') = Cardinality(Popping)
    BY <1>8, <2>4
  <2>6. \A q \in Producers : /\ producer'[q] = "waiting" => producer[q] = "waiting"
                             /\ producer'[q] = "full" => producer[q] = "full"
    BY <1>0, <1>8
  <2> QED
    BY <1>k, <1>8, <2>3, <2>5, <2>6 DEF WakeInv
<1>9. ASSUME NEW c \in Consumers, consumer[c] = "waiting",
             consumer' = [consumer EXCEPT ![c] = "pop"],
             UNCHANGED <<queue, producer, pushed>>
      PROVE  WakeInv'
  <2>1. Popping' = Popping \cup {c} /\ c \notin Popping
    BY <1>0, <1>9 DEF Popping
  <2>2. Cardinality(Popping') = Cardinality(Popping) + 1
    BY <2>1, OneMore, ThreadCounts
  <2>3. Telling' = Telling /\ Trying' = Trying
    BY <1>0, <1>9 DEF Telling, Trying
  <2>4. /\ Len(queue') = Len(queue) /\ Cardinality(Telling') = Cardinality(Telling)
        /\ Cardinality(Trying') = Cardinality(Trying)
    BY <1>9, <2>3
  <2>5. \A d \in Consumers : consumer'[d] = "waiting" => consumer[d] = "waiting"
    BY <1>0, <1>9
  <2> QED
    BY <1>k, <1>9, <2>2, <2>4, <2>5 DEF WakeInv
<1> QED
  BY <1>1, <1>2, <1>3, <1>4, <1>5, <1>6, <1>7, <1>8, <1>9
     DEF QueueNext, ProducerStep, ConsumerStep, WakeSpuriously

LEMMA EmptiesCount ==
    ASSUME NEW s \in Seq(Elements)
    PROVE  IsFiniteSet(EmptiesIn(s)) /\ Cardinality(EmptiesIn(s)) \in Nat
<1>1. DOMAIN s = 1 .. Len(s) /\ Len(s) \in Nat
  BY LenProperties
<1>2. IsFiniteSet(1 .. Len(s)) /\ EmptiesIn(s) \in SUBSET (1 .. Len(s))
  BY <1>1, FS_Interval DEF EmptiesIn
<1> QED
  BY <1>2, FS_Subset, FS_CardinalityType

LEMMA EmptiesAppended ==
    ASSUME NEW s \in Seq(Elements), NEW v \in Elements
    PROVE  Cardinality(EmptiesIn(Append(s, v)))
              = Cardinality(EmptiesIn(s)) + (IF v.nr = 0 THEN 1 ELSE 0)
<1> PICK t : t = Append(s, v)
  OBVIOUS
<1>1. /\ DOMAIN s = 1 .. Len(s) /\ Len(s) \in Nat
      /\ DOMAIN t = 1 .. Len(s) + 1
      /\ \A i \in 1 .. Len(s) : t[i] = s[i]
      /\ t[Len(s) + 1] = v
  BY LenProperties, AppendProperties
<1> PICK last : last = Len(s) + 1
  OBVIOUS
<1>2. 1 .. last = (1 .. Len(s)) \cup {last} /\ last \notin 1 .. Len(s)
  BY <1>1
<1>3. EmptiesIn(t) = IF v.nr = 0 THEN EmptiesIn(s) \cup {last} ELSE EmptiesIn(s)
  BY <1>1, <1>2 DEF EmptiesIn
<1>4. last \notin EmptiesIn(s)
  BY <1>1, <1>2 DEF EmptiesIn
<1>5. CASE v.nr = 0
  BY <1>3, <1>4, <1>5, OneMore, EmptiesCount
<1>6. CASE v.nr # 0
  <2>1. Cardinality(EmptiesIn(t)) = Cardinality(EmptiesIn(s))
    BY <1>3, <1>6
  <2> QED
    BY <1>6, <2>1, EmptiesCount
<1> QED
  BY <1>5, <1>6

LEMMA EmptiesTaken ==
    ASSUME NEW s \in Seq(Elements), s # <<>>
    PROVE  Cardinality(EmptiesIn(s))
              = Cardinality(EmptiesIn(Tail(s))) + (IF Head(s).nr = 0 THEN 1 ELSE 0)
<1>1. /\ Tail(s) \in Seq(Elements)
      /\ Len(s) \in Nat /\ Len(s) > 0
      /\ DOMAIN s = 1 .. Len(s) /\ DOMAIN Tail(s) = 1 .. Len(s) - 1
      /\ \A i \in 1 .. Len(s) - 1 : Tail(s)[i] = s[i + 1]
      /\ Head(s) = s[1]
  BY HeadTailProperties, LenProperties
<1> DEFINE f == [i \in EmptiesIn(Tail(s)) |-> i + 1]
           Rest == EmptiesIn(s) \ {1}
<1>2. \A i \in EmptiesIn(Tail(s)) : i \in 1 .. Len(s) - 1 /\ i + 1 \in Rest
  BY <1>1 DEF EmptiesIn
<1>3. \A j \in Rest : j - 1 \in EmptiesIn(Tail(s)) /\ f[j - 1] = j
  <2> TAKE j \in Rest
  <2>1. j \in 2 .. Len(s) /\ s[j].nr = 0
    BY <1>1 DEF EmptiesIn
  <2>2. j - 1 \in 1 .. Len(s) - 1 /\ Tail(s)[j - 1] = s[j]
    BY <1>1, <2>1
  <2>3. j - 1 \in EmptiesIn(Tail(s))
    BY <1>1, <2>1, <2>2 DEF EmptiesIn
  <2> QED
    BY <2>1, <2>3
<1>4. f \in Bijection(EmptiesIn(Tail(s)), Rest)
  <2>1. f \in Injection(EmptiesIn(Tail(s)), Rest)
    BY <1>2 DEF Injection, IsInjective
  <2>2. f \in Surjection(EmptiesIn(Tail(s)), Rest)
    BY <1>2, <1>3 DEF Surjection
  <2> QED
    BY <2>1, <2>2 DEF Bijection
<1> HIDE DEF f
<1>5. Cardinality(Rest) = Cardinality(EmptiesIn(Tail(s)))
  BY <1>1, <1>4, EmptiesCount, FS_Bijection DEF ExistsBijection
<1>6. 1 \in EmptiesIn(s) <=> Head(s).nr = 0
  BY <1>1 DEF EmptiesIn
<1>7. Cardinality(Rest) = IF Head(s).nr = 0 THEN Cardinality(EmptiesIn(s)) - 1
                                           ELSE Cardinality(EmptiesIn(s))
  BY <1>6, EmptiesCount, FS_RemoveElement
<1> QED
  BY <1>5, <1>7, EmptiesCount

LEMMA AllTicketsCount ==
    /\ IsFiniteSet(AllTickets)
    /\ Cardinality(AllTickets) = Cardinality(Consumers)
    /\ IsFiniteSet(Consumers) /\ Cardinality(Consumers) \in Nat
    /\ Tickets \in SUBSET AllTickets
<1>1. /\ IsFiniteSet(1 .. Empties) /\ Cardinality(1 .. Empties) = Empties
      /\ Empties \in Nat
  BY Numbers, FS_Interval
<1>2. /\ IsFiniteSet(Producers) /\ Cardinality(Producers) \in Nat
      /\ IsFiniteSet(Consumers) /\ Cardinality(Consumers) \in Nat
      /\ Cardinality(Consumers) = Empties * Cardinality(Producers)
  BY WorkQueueAssumption, FS_CardinalityType
<1>3. /\ IsFiniteSet(AllTickets)
      /\ Cardinality(AllTickets) = Cardinality(Producers) * Empties
  <2> PICK numbers : numbers = 1 .. Empties
    OBVIOUS
  <2>1. /\ IsFiniteSet(Producers \X numbers)
        /\ Cardinality(Producers \X numbers) = Cardinality(Producers) * Cardinality(numbers)
    BY <1>1, <1>2, FS_Product
  <2> QED
    BY <1>1, <2>1 DEF AllTickets
<1>4. \A m, n \in Nat : m * n = n * m
  OBVIOUS
<1> QED
  BY <1>1, <1>2, <1>3, <1>4 DEF Tickets

LEMMA AddUpStep ==
    ASSUME QueueTypeOK, Stages, EmptiesAddUp, [QueueNext]_queueVars
    PROVE  EmptiesAddUp'
<1>0. /\ queue \in Seq(Elements)
      /\ ended \in [Producers -> 0 .. Empties]
      /\ consumer \in [Consumers -> {"pop", "waiting", "tell", "tell and exit", "exited"}]
  BY QueueTypes
<1>k. Cardinality(Leaving) \in Nat /\ Cardinality(EmptiesIn(queue)) \in Nat
  BY <1>0, ThreadCounts, EmptiesCount
<1>a. ASSUME Leaving' = Leaving, queue' = queue, ended' = ended PROVE EmptiesAddUp'
  <2>1. EmptiesIn(queue)' = EmptiesIn(queue) /\ Tickets' = Tickets
    BY <1>a DEF EmptiesIn, Tickets
  <2> QED
    BY <1>a, <2>1 DEF EmptiesAddUp
<1>1. CASE UNCHANGED queueVars
  BY <1>1, <1>a DEF queueVars, Leaving
<1>2. ASSUME NEW p \in Producers, TestSize(p) \/ WaitForRoom(p) PROVE EmptiesAddUp'
  BY <1>2, <1>a DEF TestSize, WaitForRoom, Leaving
<1>3. ASSUME NEW p \in Producers, Put(p) PROVE EmptiesAddUp'
  <2>1. /\ queue' = Append(queue, Item(p, pushed[p] + 1))
        /\ Leaving' = Leaving /\ ended' = ended
    BY <1>3, ConsumerNotified DEF Put, PushAndNotify
  <2>2. Item(p, pushed[p] + 1) \in Elements /\ Item(p, pushed[p] + 1).nr # 0
    <3>1. pushed[p] \in 0 .. Items /\ pushed[p] < Items /\ Items \in Nat
      BY <1>3, QueueTypes, Numbers DEF Put, Stages
    <3>2. pushed[p] + 1 \in 0 .. Items /\ pushed[p] + 1 # 0
      BY <3>1
    <3> QED
      BY <3>2, Pushable
  <2>3. Cardinality(EmptiesIn(queue')) = Cardinality(EmptiesIn(queue)) + 0
    BY <1>0, <2>1, <2>2, EmptiesAppended
  <2>4. Cardinality(EmptiesIn(queue')) = Cardinality(EmptiesIn(queue))
    BY <1>k, <2>3
  <2>5. Tickets' = Tickets
    BY <2>1 DEF Tickets
  <2> QED
    BY <2>1, <2>4, <2>5 DEF EmptiesAddUp
<1>4. ASSUME NEW p \in Producers, EndInput(p) PROVE EmptiesAddUp'
  <2>1. /\ queue' = Append(queue, Empty(p)) /\ Leaving' = Leaving
        /\ ended' = [ended EXCEPT ![p] = @ + 1] /\ ended[p] < Empties
    BY <1>4, ConsumerNotified DEF EndInput, PushAndNotify
  <2>2. Cardinality(EmptiesIn(queue')) = Cardinality(EmptiesIn(queue)) + 1
    BY <1>0, <2>1, Pushable, EmptiesAppended
  <2>3. Cardinality(Tickets') = Cardinality(Tickets) + 1
    <3> PICK n : n = ended[p] + 1
      OBVIOUS
    <3>1. ended[p] \in 0 .. Empties /\ Empties \in Nat /\ n \in 1 .. Empties
      <4>1. ended[p] \in 0 .. Empties
        BY <1>0
      <4> QED
        BY <2>1, <4>1, Numbers
    <3>2. ASSUME NEW q \in Producers, NEW i \in 1 .. Empties
          PROVE  <<q, i>> \in Tickets' <=> <<q, i>> \in Tickets \/ <<q, i>> = <<p, n>>
      <4>1. CASE q = p
        <5>1. i <= n <=> i <= ended[p] \/ i = n
          BY <3>1
        <5>2. ended'[q] = n
          BY <1>0, <2>1, <4>1
        <5> QED
          BY <4>1, <5>1, <5>2 DEF Tickets, AllTickets
      <4>2. CASE q # p
        BY <1>0, <2>1, <4>2 DEF Tickets, AllTickets
      <4> QED
        BY <4>1, <4>2
    <3>3. /\ <<p, n>> \in AllTickets /\ <<p, n>> \notin Tickets
          /\ Tickets \subseteq AllTickets /\ Tickets' \subseteq AllTickets
      BY <3>1 DEF AllTickets, Tickets
    <3>4. Tickets' = Tickets \cup {<<p, n>>}
      BY <3>2, <3>3 DEF AllTickets
    <3>5. IsFiniteSet(Tickets)
      BY AllTicketsCount, FS_Subset
    <3> QED
      BY <3>3, <3>4, <3>5, OneMore
  <2> QED
    BY <1>k, <2>1, <2>2, <2>3 DEF EmptiesAddUp
<1>5. ASSUME NEW c \in Consumers, TakeFront(c) PROVE EmptiesAddUp'
  <2>1. consumer[c] = "pop" /\ ended' = ended
    BY <1>5 DEF TakeFront
  <2>2. CASE queue = <<>>
    <3>1. queue' = queue /\ consumer' = [consumer EXCEPT ![c] = "waiting"]
      BY <1>5, <2>2 DEF TakeFront
    <3>2. Leaving' = Leaving
      BY <1>0, <2>1, <3>1 DEF Leaving
    <3> QED
      BY <1>a, <2>1, <3>1, <3>2
  <2>3. CASE queue # <<>>
    <3>1. /\ queue' = Tail(queue)
          /\ consumer' = [consumer EXCEPT ![c] =
                            IF Head(queue).nr = 0 THEN "tell and exit" ELSE "tell"]
      BY <1>5, <2>3 DEF TakeFront
    <3>2. /\ Tail(queue) \in Seq(Elements)
          /\ Cardinality(EmptiesIn(queue))
                = Cardinality(EmptiesIn(queue')) + (IF Head(queue).nr = 0 THEN 1 ELSE 0)
      BY <1>0, <2>3, <3>1, EmptiesTaken, HeadTailProperties
    <3>3. Cardinality(EmptiesIn(queue')) \in Nat
      BY <3>1, <3>2, EmptiesCount
    <3>4. Tickets' = Tickets
      BY <2>1 DEF Tickets
    <3>5. CASE Head(queue).nr = 0
      <4>1. Leaving' = Leaving \cup {c} /\ c \notin Leaving
        BY <1>0, <2>1, <3>1, <3>5 DEF Leaving
      <4>2. Cardinality(Leaving') = Cardinality(Leaving) + 1
        BY <4>1, OneMore, ThreadCounts
      <4>3. Cardinality(EmptiesIn(queue)) = Cardinality(EmptiesIn(queue')) + 1
        BY <3>2, <3>5
      <4> QED
        BY <1>k, <3>3, <3>4, <4>2, <4>3 DEF EmptiesAddUp
    <3>6. CASE Head(queue).nr # 0
      <4>1. Leaving' = Leaving
        BY <1>0, <2>1, <3>1, <3>6 DEF Leaving
      <4>2. Cardinality(EmptiesIn(queue)) = Cardinality(EmptiesIn(queue'))
        BY <3>2, <3>3, <3>6
      <4> QED
        BY <3>4, <4>1, <4>2 DEF EmptiesAddUp
    <3> QED
      BY <3>5, <3>6
  <2> QED
    BY <2>2, <2>3
<1>6. ASSUME NEW c \in Consumers, NotifyProducer(c) PROVE EmptiesAddUp'
  <2>1. /\ consumer[c] \in {"tell", "tell and exit"}
        /\ consumer' = [consumer EXCEPT ![c] = IF @ = "tell" THEN "pop" ELSE "exited"]
        /\ UNCHANGED <<queue, ended>>
    BY <1>6 DEF NotifyProducer
  <2>2. Leaving' = Leaving
    BY <1>0, <2>1 DEF Leaving
  <2> QED
    BY <1>a, <2>1, <2>2
<1>7. ASSUME NEW p \in Producers, UNCHANGED <<queue, ended, consumer>> PROVE EmptiesAddUp'
  BY <1>7, <1>a DEF Leaving
<1>8. ASSUME NEW c \in Consumers, consumer[c] = "waiting",
             consumer' = [consumer EXCEPT ![c] = "pop"], UNCHANGED <<queue, ended>>
      PROVE  EmptiesAddUp'
  <2>1. Leaving' = Leaving
    BY <1>0, <1>8 DEF Leaving
  <2> QED
    BY <1>8, <1>a, <2>1
<1> QED
  BY <1>1, <1>2, <1>3, <1>4, <1>5, <1>6, <1>7, <1>8
     DEF QueueNext, ProducerStep, ConsumerStep, WakeSpuriously

LEMMA BehindStep ==
    ASSUME QueueTypeOK, Stages, EmptiesBehind, [QueueNext]_queueVars
    PROVE  EmptiesBehind'
<1>0. /\ queue \in Seq(Elements)
      /\ DOMAIN queue = 1 .. Len(queue) /\ Len(queue) \in Nat
      /\ ended \in [Producers -> 0 .. Empties]
      /\ \A i \in DOMAIN queue : queue[i].from \in Producers
  <2>1. queue \in Seq(Elements) /\ ended \in [Producers -> 0 .. Empties]
    BY QueueTypes
  <2>2. \A i \in 1 .. Len(queue) : queue[i] \in Elements
    BY <2>1, ElementOfSeq
  <2>3. \A v \in Elements : v.from \in Producers
    BY DEF Elements
  <2> QED
    BY <2>1, <2>2, <2>3, LenProperties
<1>a. ASSUME queue' = queue, ended' = ended PROVE EmptiesBehind'
  BY <1>a DEF EmptiesBehind, Empty, Item
<1>1. CASE UNCHANGED queueVars
  BY <1>1, <1>a DEF queueVars
<1>2. ASSUME NEW p \in Producers, TestSize(p) \/ WaitForRoom(p) PROVE EmptiesBehind'
  BY <1>2, <1>a DEF TestSize, WaitForRoom
<1>3. ASSUME NEW p \in Producers, NEW v, v.from = p, queue' = Append(queue, v),
             \/ ended' = ended /\ ~(ended[p] > 0)
             \/ v = Empty(p) /\ ended' = [ended EXCEPT ![p] = @ + 1]
      PROVE  EmptiesBehind'
  <2>1. /\ DOMAIN queue' = 1 .. Len(queue) + 1
        /\ \A i \in 1 .. Len(queue) : queue'[i] = queue[i]
        /\ queue'[Len(queue) + 1] = v
    BY <1>0, <1>3
  <2> SUFFICES ASSUME NEW i \in 1 .. Len(queue) + 1, ended'[queue'[i].from] > 0
               PROVE  \E j \in 1 .. Len(queue) + 1 : j >= i /\ queue'[j] = Empty(queue'[i].from)
    BY <2>1 DEF EmptiesBehind, Empty, Item
  <2>2. CASE queue'[i].from = p
    <3>1. v = Empty(p)
      BY <1>3, <2>2
    <3>2. Len(queue) + 1 \in 1 .. Len(queue) + 1 /\ Len(queue) + 1 >= i
      BY <1>0
    <3> QED
      BY <2>1, <2>2, <3>1, <3>2
  <2>3. CASE queue'[i].from # p
    <3>1. i # Len(queue) + 1
      BY <1>3, <2>1, <2>3
    <3>2. i \in 1 .. Len(queue)
      BY <1>0, <3>1
    <3>3. queue'[i] = queue[i] /\ queue[i].from \in Producers
      BY <1>0, <2>1, <3>2
    <3>4. ended[queue[i].from] > 0
      BY <1>0, <1>3, <2>3, <3>3
    <3>5. PICK j \in 1 .. Len(queue) : j >= i /\ queue[j] = Empty(queue[i].from)
      BY <1>0, <3>2, <3>4 DEF EmptiesBehind
    <3>6. j \in 1 .. Len(queue) + 1 /\ queue'[j] = queue[j]
      BY <1>0, <2>1
    <3> QED
      BY <3>3, <3>5, <3>6
  <2> QED
    BY <2>2, <2>3
<1>4. ASSUME NEW p \in Producers, Put(p) PROVE EmptiesBehind'
  <2>1. ~(ended[p] > 0)
    <3>1. pushed[p] # Items
      <4>1. pushed[p] \in 0 .. Items /\ pushed[p] < Items /\ Items \in Nat
        BY <1>4, QueueTypes, Numbers DEF Put, Stages
      <4> QED
        BY <4>1
    <3> QED
      BY <3>1 DEF Stages
  <2>2. PICK v : v = Item(p, pushed[p] + 1)
    OBVIOUS
  <2>3. v.from = p
    BY <2>2 DEF Item
  <2> QED
    BY <1>3, <1>4, <2>1, <2>2, <2>3 DEF Put, PushAndNotify
<1>5. ASSUME NEW p \in Producers, EndInput(p) PROVE EmptiesBehind'
  <2>1. Empty(p).from = p
    BY Pushable
  <2> QED
    BY <1>3, <1>5, <2>1 DEF EndInput, PushAndNotify
<1>6. ASSUME NEW c \in Consumers, TakeFront(c) PROVE EmptiesBehind'
  <2>1. CASE queue = <<>>
    BY <1>6, <1>a, <2>1 DEF TakeFront
  <2>2. CASE queue # <<>>
    <3>1. queue' = Tail(queue) /\ ended' = ended
      BY <1>6, <2>2 DEF TakeFront
    <3>2. /\ Len(queue) > 0
          /\ DOMAIN queue' = 1 .. Len(queue) - 1
          /\ \A i \in 1 .. Len(queue) - 1 : queue'[i] = queue[i + 1]
      BY <1>0, <2>2, <3>1, HeadTailProperties
    <3> SUFFICES ASSUME NEW i \in 1 .. Len(queue) - 1, ended[queue'[i].from] > 0
                 PROVE  \E j \in 1 .. Len(queue) - 1 : j >= i
                                                       /\ queue'[j] = Empty(queue'[i].from)
      BY <3>1, <3>2 DEF EmptiesBehind, Empty, Item
    <3>3. i + 1 \in 1 .. Len(queue) /\ queue'[i] = queue[i + 1]
      BY <1>0, <3>2
    <3>4. PICK j \in 1 .. Len(queue) : j >= i + 1 /\ queue[j] = Empty(queue[i + 1].from)
      BY <1>0, <3>3 DEF EmptiesBehind
    <3>5. j - 1 \in 1 .. Len(queue) - 1 /\ j - 1 >= i /\ (j - 1) + 1 = j
      BY <1>0, <3>4
    <3>6. queue'[j - 1] = queue[j]
      BY <3>2, <3>5
    <3> QED
      BY <3>3, <3>4, <3>5, <3>6
  <2> QED
    BY <2>1, <2>2
<1>7. ASSUME NEW c \in Consumers, NotifyProducer(c) PROVE EmptiesBehind'
  BY <1>7, <1>a DEF NotifyProducer
<1>8. CASE WakeSpuriously
  BY <1>8, <1>a DEF WakeSpuriously
<1> QED
  BY <1>1, <1>2, <1>4, <1>5, <1>6, <1>7, <1>8 DEF QueueNext, ProducerStep, ConsumerStep

DrainInv == WakeInv /\ EmptiesAddUp /\ EmptiesBehind

LEMMA DrainInitially == QueueInit => DrainInv
<1> SUFFICES ASSUME QueueInit PROVE DrainInv
  OBVIOUS
<1>1. /\ \A p \in Producers : producer[p] = "push" /\ ended[p] = 0
      /\ \A c \in Consumers : consumer[c] = "pop"
      /\ queue = <<>>
  BY DEF QueueInit
<1>2. Leaving = {} /\ EmptiesIn(queue) = {} /\ Tickets = {}
  <2>1. Leaving = {}
    BY <1>1 DEF Leaving
  <2>2. EmptiesIn(queue) = {}
    BY <1>1 DEF EmptiesIn
  <2>3. ASSUME NEW x \in AllTickets PROVE x \notin Tickets
    <3>1. x[1] \in Producers /\ x[2] \in 1 .. Empties /\ Empties \in Nat
      BY Numbers DEF AllTickets
    <3>2. ended[x[1]] = 0 /\ x[2] > 0
      BY <1>1, <3>1
    <3> QED
      BY <3>1, <3>2 DEF Tickets
  <2> QED
    BY <2>1, <2>2, <2>3 DEF Tickets
<1>3. EmptiesAddUp
  BY <1>2, FS_EmptySet DEF EmptiesAddUp
<1> QED
  BY <1>1, <1>3 DEF DrainInv, WakeInv, EmptiesBehind

(***************************************************************************)
(* Nobody who waits in the queue is forgotten by the notifications of push *)
(* and wait_and_pop, and the empty values of end_input are as many as have *)
(* made a consumer exit or are still queued (queue.h:57-62, 98-110).       *)
(***************************************************************************)
THEOREM DrainInvariant == QueueSpec => []DrainInv
<1>1. QueueInv /\ DrainInv /\ [QueueNext]_queueVars => DrainInv'
  BY WakeStep, AddUpStep, BehindStep DEF QueueInv, DrainInv
<1> QED
  BY <1>1, DrainInitially, QueueInductiveInvariant, PTL DEF QueueSpec

\* A thread has a step to take, and needs nobody to wake it.
ProducerGoesOn(p) ==
    \/ producer[p] \in {"put", "full"}
    \/ producer[p] = "push" /\ pushed[p] < Items /\ ~Locked
    \/ producer[p] = "push" /\ pushed[p] = Items /\ ended[p] < Empties

ConsumerGoesOn(c) ==
    \/ consumer[c] = "pop"
    \/ consumer[c] \in {"tell", "tell and exit"} /\ ~Locked

ThreadsGoOn ==
    \/ \E p \in Producers : ProducerGoesOn(p)
    \/ \E c \in Consumers : ConsumerGoesOn(c)

Drained ==
    /\ queue = <<>>
    /\ \A p \in Producers : pushed[p] = Items /\ ended[p] = Empties
    /\ \A c \in Consumers : consumer[c] = "exited"

\* When all consumers have left, all empty values have been pushed and taken.
LEMMA TicketsUsed ==
    ASSUME QueueTypeOK, EmptiesAddUp, \A c \in Consumers : c \in Leaving
    PROVE  EmptiesIn(queue) = {} /\ \A p \in Producers : ended[p] = Empties
<1>1. Leaving = Consumers
  BY DEF Leaving
<1>2. queue \in Seq(Elements) /\ ended \in [Producers -> 0 .. Empties]
  BY QueueTypes
<1>3. /\ IsFiniteSet(EmptiesIn(queue)) /\ Cardinality(EmptiesIn(queue)) \in Nat
      /\ Cardinality(Tickets) \in Nat
      /\ Cardinality(Tickets) <= Cardinality(Consumers)
      /\ Cardinality(Tickets) = Cardinality(Consumers) => AllTickets = Tickets
      /\ Cardinality(Consumers) \in Nat
  BY <1>2, AllTicketsCount, EmptiesCount, FS_Subset, FS_CardinalityType
<1>4. Cardinality(Consumers) + Cardinality(EmptiesIn(queue)) = Cardinality(Tickets)
  BY <1>1 DEF EmptiesAddUp
<1>5. Cardinality(EmptiesIn(queue)) = 0 /\ Cardinality(Tickets) = Cardinality(Consumers)
  BY <1>3, <1>4
<1>6. ASSUME NEW p \in Producers PROVE ended[p] = Empties
  <2>1. Empties \in 1 .. Empties /\ Empties \in Nat
    BY WorkQueueAssumption
  <2>2. <<p, Empties>> \in Tickets
    BY <1>3, <1>5, <2>1 DEF AllTickets
  <2>3. Empties <= ended[p]
    BY <2>2 DEF Tickets
  <2>4. ended[p] \in 0 .. Empties
    BY <1>2
  <2> QED
    BY <2>1, <2>3, <2>4
<1> QED
  BY <1>3, <1>5, <1>6, FS_EmptySet

LEMMA NobodyForgotten ==
    ASSUME QueueInv, DrainInv, ~ThreadsGoOn
    PROVE  Drained
<1>s. queue \in Seq(Elements) /\ Len(queue) \in Nat /\ DOMAIN queue = 1 .. Len(queue)
  BY QueueTypes, LenProperties DEF QueueInv
<1>0. /\ producer \in [Producers -> {"push", "put", "full", "waiting"}]
      /\ pushed \in [Producers -> 0 .. Items]
      /\ ended \in [Producers -> 0 .. Empties]
      /\ consumer \in [Consumers -> {"pop", "waiting", "tell", "tell and exit", "exited"}]
  BY QueueTypes DEF QueueInv
<1>a. QueueTypeOK
  BY DEF QueueInv
<1>1. ~Locked
  BY DEF Locked, ProducerGoesOn, ThreadsGoOn
<1>2. ASSUME NEW p \in Producers
      PROVE  \/ producer[p] = "waiting"
             \/ producer[p] = "push" /\ pushed[p] = Items /\ ended[p] = Empties
  <2>1. pushed[p] \in 0 .. Items /\ ended[p] \in 0 .. Empties
        /\ Items \in Nat /\ Empties \in Nat
    BY <1>0, Numbers
  <2>2. producer[p] = "waiting" \/ producer[p] = "push"
    BY <1>0 DEF ProducerGoesOn, ThreadsGoOn
  <2>3. producer[p] = "push" => ~(pushed[p] < Items) /\ (pushed[p] = Items => ~(ended[p] < Empties))
    BY <1>1 DEF ProducerGoesOn, ThreadsGoOn
  <2> QED
    BY <2>1, <2>2, <2>3
<1>3. \A c \in Consumers : consumer[c] \in {"waiting", "exited"}
  BY <1>0, <1>1 DEF ConsumerGoesOn, ThreadsGoOn
<1>4. Telling = {} /\ Popping = {}
  BY <1>3 DEF Telling, Popping
<1>5. Trying = {}
  <2>1. \A p \in Producers : producer[p] # "waiting" => ~(pushed[p] < Items)
    BY <1>2, Numbers
  <2> QED
    BY <2>1 DEF Trying
<1>6. Cardinality(Telling) = 0 /\ Cardinality(Popping) = 0 /\ Cardinality(Trying) = 0
  BY <1>4, <1>5, FS_EmptySet
<1>7. ASSUME NEW p \in Producers, producer[p] = "waiting" PROVE Len(queue) > 0
  <2>1. Len(queue) + Cardinality(Telling) + Cardinality(Trying) > Capacity
    BY <1>7 DEF DrainInv, WakeInv
  <2> QED
    BY <1>s, <1>6, <2>1, Numbers
<1>8. ASSUME NEW c \in Consumers, consumer[c] = "waiting" PROVE Len(queue) = 0
  <2>1. Len(queue) <= Cardinality(Popping)
    BY <1>8 DEF DrainInv, WakeInv
  <2> QED
    BY <1>s, <1>6, <2>1
<1>9. ASSUME \A c \in Consumers : consumer[c] = "exited"
      PROVE  EmptiesIn(queue) = {} /\ \A p \in Producers : ended[p] = Empties
  BY <1>a, <1>9, TicketsUsed DEF Leaving, DrainInv
<1>10. ASSUME NEW p \in Producers PROVE producer[p] # "waiting"
  <2> SUFFICES ASSUME producer[p] = "waiting" PROVE FALSE
    OBVIOUS
  <2>1. \A c \in Consumers : consumer[c] = "exited"
    BY <1>3, <1>7, <1>8
  <2>2. ended[p] > 0
    BY <1>9, <2>1, WorkQueueAssumption
  <2>3. pushed[p] = Items /\ pushed[p] < Items
    BY <2>2 DEF QueueInv, Stages, DrainInv, WakeInv
  <2> QED
    BY <2>3, Numbers
<1>11. \A p \in Producers : pushed[p] = Items /\ ended[p] = Empties
  BY <1>2, <1>10
<1>12. ASSUME NEW c \in Consumers PROVE consumer[c] = "exited"
  <2> SUFFICES ASSUME consumer[c] = "waiting" PROVE FALSE
    BY <1>3
  <2>1. EmptiesIn(queue) = {}
    BY <1>s, <1>8 DEF EmptiesIn
  <2>2. Tickets = AllTickets
    <3>1. \A p \in Producers : \A i \in 1 .. Empties : i <= ended[p]
      BY <1>11, Numbers
    <3> QED
      BY <3>1 DEF Tickets, AllTickets
  <2>3. Cardinality(Leaving) = Cardinality(Consumers)
    <3>1. Cardinality(EmptiesIn(queue)) = 0
      BY <2>1, FS_EmptySet
    <3>2. Cardinality(Leaving) + Cardinality(EmptiesIn(queue)) = Cardinality(Consumers)
      BY <2>2, AllTicketsCount DEF DrainInv, EmptiesAddUp
    <3> QED
      BY <3>1, <3>2, ThreadCounts
  <2>4. Leaving \in SUBSET Consumers /\ c \notin Leaving
    BY DEF Leaving
  <2>5. Consumers = Leaving
    BY <2>3, <2>4, AllTicketsCount, FS_Subset
  <2> QED
    BY <2>4, <2>5
<1>13. Len(queue) = 0
  <2> SUFFICES ASSUME Len(queue) # 0 PROVE FALSE
    OBVIOUS
  <2>1. 1 \in DOMAIN queue
    BY <1>s
  <2>2. queue[1].from \in Producers
    <3>1. queue[1] \in Elements
      BY <1>s, <2>1, ElementOfSeq
    <3> QED
      BY <3>1 DEF Elements
  <2>3. ended[queue[1].from] > 0
    BY <1>11, <2>2, WorkQueueAssumption
  <2>4. PICK j \in DOMAIN queue : queue[j] = Empty(queue[1].from)
    BY <2>1, <2>3 DEF DrainInv, EmptiesBehind
  <2>5. j \in EmptiesIn(queue)
    BY <2>2, <2>4, Pushable DEF EmptiesIn
  <2> QED
    BY <1>9, <1>12, <2>5
<1>14. queue = <<>>
  BY <1>s, <1>13
<1> QED
  BY <1>11, <1>12, <1>14 DEF Drained

(***************************************************************************)
(* For any number of producers, consumers and items, and any capacity, the *)
(* threads of a queue never all wait: until everything is taken and all    *)
(* consumers have exited, a thread has a step to take without a spurious   *)
(* wake-up.  Each pop tells one producer, and each push one consumer       *)
(* (queue.h:61, 101), which is enough although a notification that        *)
(* nobody waits for is lost.                                               *)
(***************************************************************************)
THEOREM QueueNeverStandsStill == QueueSpec => [](Drained \/ ThreadsGoOn)
<1>1. QueueInv /\ DrainInv => Drained \/ ThreadsGoOn
  BY NobodyForgotten
<1> QED
  BY <1>1, QueueInductiveInvariant, DrainInvariant, PTL

-----------------------------------------------------------------------------
(* The buffers: the heap.                                                  *)

Cells == (Buffers \X Nat) \cup {Junk}

BlockOf(b) == buffer[b].start.block

\* The members of a buffer in block k of `size` values, n of them read.
Members(k, n, size, capacity) ==
    [start |-> Pointer(k, 0), cursor |-> Pointer(k, n), end |-> Pointer(k, size),
     capacity |-> capacity]

\* Block k holds the values d.
Holds(h, k, d) ==
    /\ k \in DOMAIN h
    /\ h[k] \in Seq(Cells)
    /\ Len(h[k]) > 0
    /\ Len(d) <= Len(h[k])
    /\ \A i \in 1 .. Len(d) : h[k][i] = d[i]

\* An object, given as its members and the values it should hold.
Sound(h, l, buf, d, n) ==
    /\ d \in Seq(Cells)
    /\ Len(d) <= MaxData
    /\ n \in 0 .. Len(d)
    /\ buf.capacity \in Nat
    /\ l = "alive" => /\ Holds(h, buf.start.block, d)
                      /\ buf = Members(buf.start.block, n, Len(d), Len(h[buf.start.block]))
    /\ l # "alive" => d = <<>> /\ buf = Members(NoBlock, 0, 0, buf.capacity)

\* Who owns which block.
Owned ==
    /\ DOMAIN heap \subseteq Blocks
    /\ \A k : k \in DOMAIN heap <=> k # NoBlock /\ \E b \in Buffers : BlockOf(b) = k
    /\ \A a, b \in Buffers : a # b /\ BlockOf(a) # NoBlock => BlockOf(a) # BlockOf(b)

BufferInv ==
    /\ life \in [Buffers -> {"none", "alive", "moved"}]
    /\ DOMAIN buffer = Buffers /\ DOMAIN data = Buffers /\ DOMAIN nread = Buffers
    /\ fault \in {"no", "read finished", "empty content"}
    /\ \A b \in Buffers : Sound(heap, life[b], buffer[b], data[b], nread[b])
    /\ Owned

\* With one block for each object at most there is a block left.
LEMMA BlockLeft ==
    ASSUME NEW h, NEW f, \A k \in DOMAIN h : \E b \in Buffers : f[b] = k
    PROVE  NewBlock(h) \in Blocks /\ NewBlock(h) \notin DOMAIN h
<1>1. SUFFICES ASSUME Blocks \subseteq DOMAIN h PROVE FALSE
  BY <1>1 DEF NewBlock
<1> DEFINE B == {b \in Buffers : f[b] \in Blocks}
<1> DEFINE g == [b \in B |-> f[b]]
<1>2. g \in Surjection(B, Blocks)
  <2>1. \A k \in Blocks : \E b \in B : g[b] = k
    BY <1>1
  <2>2. g \in [B -> Blocks]
    OBVIOUS
  <2> HIDE DEF g, B
  <2> QED
    BY <2>1, <2>2 DEF Surjection
<1>3. IsFiniteSet(Buffers) /\ Cardinality(Blocks) > Cardinality(Buffers)
  BY BufferAssumption
<1>4. IsFiniteSet(B) /\ Cardinality(B) <= Cardinality(Buffers)
  BY <1>3, FS_Subset
<1> HIDE DEF g
<1>5. IsFiniteSet(Blocks) /\ Cardinality(Blocks) <= Cardinality(B)
  BY <1>2, <1>4, FS_Surjection
<1>6. Cardinality(B) \in Nat /\ Cardinality(Blocks) \in Nat /\ Cardinality(Buffers) \in Nat
  BY <1>3, <1>4, <1>5, FS_CardinalityType
<1> QED
  BY <1>3, <1>4, <1>5, <1>6

\* The heap with one block more.
LEMMA WithBlock ==
    ASSUME NEW h, NEW k, NEW cells
    PROVE  /\ DOMAIN With(h, k, cells) = DOMAIN h \cup {k}
           /\ With(h, k, cells)[k] = cells
           /\ \A x \in DOMAIN h : x # k => With(h, k, cells)[x] = h[x]
  BY DEF With

LEMMA WithoutBlock ==
    ASSUME NEW h, NEW k
    PROVE  /\ DOMAIN Without(h, k) = DOMAIN h \ {k}
           /\ \A x \in DOMAIN h : x # k => Without(h, k)[x] = h[x]
  BY DEF Without

LEMMA JunkProperties ==
    ASSUME NEW n \in Nat
    PROVE  JunkCells(n) \in Seq(Cells) /\ Len(JunkCells(n)) = n
<1>1. Junk \in Cells
  BY DEF Cells
<1>2. JunkCells(n) \in [1 .. n -> Cells]
  BY <1>1 DEF JunkCells
<1> QED
  BY <1>2

\* What reserve makes of the memory of a buffer: a larger block with the
\* same content, in which the buffer is where it was.
LEMMA Reserved ==
    ASSUME NEW h, NEW k, NEW d, NEW size, d \in Seq(Cells), size = Len(d), Holds(h, k, d),
           NEW n, NEW cap, NEW more, NEW new, NEW m,
           n \in 0 .. size, more \in Nat, more >= size, more > 0,
           new = NewBlock(h), new \notin DOMAIN h,
           m = Members(k, n, size, cap),
           NEW r, r = Reserve(h, m, more)
    PROVE  /\ r.buf = Members(new, n, size, more)
           /\ DOMAIN r.heap = (DOMAIN h \ {k}) \cup {new}
           /\ \A x \in DOMAIN h : x # k => r.heap[x] = h[x]
           /\ Holds(r.heap, new, d)
           /\ Len(r.heap[new]) = more
<1>1. size \in Nat /\ n - 0 = n /\ size - 0 = size /\ more - size \in Nat
  BY LenProperties
<1> DEFINE kept == SubSeq(h[k], 1, size)
<1>2. /\ kept \in Seq(Cells)
      /\ Len(kept) = size
      /\ \A i \in 1 .. size : kept[i] = h[k][i]
  <2>1. \A i \in 1 .. size : h[k][i] \in Cells
    <3>1. h[k] \in Seq(Cells) /\ size <= Len(h[k])
      BY DEF Holds
    <3>2. \A i \in 1 .. size : i \in 1 .. Len(h[k])
      BY <1>1, <3>1, LenProperties
    <3> QED
      BY <3>1, <3>2, ElementOfSeq
  <2> HIDE DEF kept
  <2>2. size \in Int /\ 1 \in Int
    BY <1>1
  <2>3. /\ kept \in Seq(Cells)
        /\ Len(kept) = IF 1 <= size THEN size - 1 + 1 ELSE 0
        /\ \A i \in 1 .. size - 1 + 1 : kept[i] = h[k][1 + i - 1]
    BY <2>1, <2>2, SubSeqProperties DEF kept
  <2>4. size - 1 + 1 = size /\ \A i \in 1 .. size : 1 + i - 1 = i
    BY <1>1
  <2>5. Len(kept) = size
    BY <1>1, <2>3, <2>4
  <2> QED
    BY <2>3, <2>4, <2>5
<1> HIDE DEF kept
<1> DEFINE cells == kept \o JunkCells(more - size)
<1>3. /\ cells \in Seq(Cells) /\ Len(cells) = more
      /\ \A i \in 1 .. size : cells[i] = h[k][i]
  <2> PICK rest, junk : rest = more - size /\ junk = JunkCells(rest)
    OBVIOUS
  <2>1. junk \in Seq(Cells) /\ Len(junk) = rest
    BY <1>1, JunkProperties
  <2>5. cells = kept \o junk
    OBVIOUS
  <2>2. /\ cells \in Seq(Cells) /\ Len(cells) = size + (more - size)
        /\ \A i \in 1 .. size + (more - size) :
              cells[i] = IF i <= size THEN kept[i] ELSE junk[i - size]
    BY <1>2, <2>1, <2>5, ConcatProperties
  <2>3. size + (more - size) = more
    BY <1>1
  <2>4. ASSUME NEW i \in 1 .. size PROVE cells[i] = h[k][i]
    <3>1. i \in 1 .. more /\ i <= size
      BY <1>1
    <3> HIDE DEF cells
    <3> QED
      BY <1>2, <2>2, <2>3, <3>1
  <2> HIDE DEF cells
  <2> QED
    BY <2>2, <2>3, <2>4
<1>4. /\ r.buf = Members(new, n, size, more)
      /\ r.heap = With(Without(h, k), new, cells)
  <2>1. Size(Members(k, n, size, cap)) = size
    BY <1>1 DEF Size, Members, Pointer
  <2>2. r = Reserve(h, Members(k, n, size, cap), more)
    OBVIOUS
  <2> QED
    BY <1>1, <1>2, <2>1, <2>2 DEF Reserve, Members, Pointer, kept
<1> HIDE DEF cells
<1>5. /\ DOMAIN r.heap = (DOMAIN h \ {k}) \cup {new}
      /\ r.heap[new] = cells
      /\ \A x \in DOMAIN h : x # k => r.heap[x] = h[x]
  <2> DEFINE without == Without(h, k)
  <2>1. /\ DOMAIN without = DOMAIN h \ {k}
        /\ \A x \in DOMAIN h : x # k => without[x] = h[x]
    BY WithoutBlock
  <2> HIDE DEF without
  <2>2. /\ DOMAIN With(without, new, cells) = DOMAIN without \cup {new}
        /\ With(without, new, cells)[new] = cells
        /\ \A x \in DOMAIN without : x # new =>
               With(without, new, cells)[x] = without[x]
    BY DEF With
  <2>3. r.heap = With(without, new, cells)
    BY <1>4 DEF without
  <2> QED
    BY <2>1, <2>2, <2>3
<1>6. Holds(r.heap, new, d)
  BY <1>3, <1>5 DEF Holds
<1> QED
  BY <1>3, <1>4, <1>5, <1>6

\* The invariant follows when one object has changed and is sound, in the
\* block it had or in one nobody had.
LEMMA OneObject ==
    ASSUME BufferInv, NEW b \in Buffers,
           life' \in [Buffers -> {"none", "alive", "moved"}],
           DOMAIN buffer' = Buffers, DOMAIN data' = Buffers, DOMAIN nread' = Buffers,
           fault' \in {"no", "read finished", "empty content"},
           \A a \in Buffers \ {b} : /\ life'[a] = life[a] /\ buffer'[a] = buffer[a]
                                    /\ data'[a] = data[a] /\ nread'[a] = nread[a],
           Sound(heap', life'[b], buffer'[b], data'[b], nread'[b]),
           BlockOf(b)' = BlockOf(b)
              \/ BlockOf(b)' = NoBlock
              \/ BlockOf(b)' \in Blocks \ DOMAIN heap,
           DOMAIN heap' = (DOMAIN heap \ {BlockOf(b)}) \cup ({BlockOf(b)'} \ {NoBlock}),
           \A k \in DOMAIN heap : k # BlockOf(b) => heap'[k] = heap[k]
    PROVE  BufferInv'
<1>1. \A a \in Buffers \ {b} : BlockOf(a)' = BlockOf(a)
  BY DEF BlockOf
<1>2. \A a \in Buffers : BlockOf(a) # NoBlock => BlockOf(a) \in DOMAIN heap
  BY DEF BufferInv, Owned
<1>3. \A a \in Buffers \ {b} : BlockOf(a) # NoBlock => BlockOf(a) # BlockOf(b)
  BY DEF BufferInv, Owned
<1>4. NoBlock \notin Blocks /\ DOMAIN heap \subseteq Blocks
  BY BufferAssumption DEF BufferInv, Owned
<1>5. Owned'
  <2>1. DOMAIN heap' \subseteq Blocks
    BY <1>2, <1>4
  <2>2. ASSUME NEW k PROVE k \in DOMAIN heap' <=> k # NoBlock /\ \E a \in Buffers : BlockOf(a)' = k
    <3>1. k \in DOMAIN heap' => k # NoBlock /\ \E a \in Buffers : BlockOf(a)' = k
      <4>1. CASE k = BlockOf(b)'
        BY <1>4, <2>1, <4>1
      <4>2. CASE k \in DOMAIN heap /\ k # BlockOf(b)
        <5>1. PICK a \in Buffers : BlockOf(a) = k
          BY <4>2 DEF BufferInv, Owned
        <5> QED
          BY <1>1, <1>4, <4>2, <5>1
      <4> QED
        BY <4>1, <4>2
    <3>2. ASSUME k # NoBlock, NEW a \in Buffers, BlockOf(a)' = k PROVE k \in DOMAIN heap'
      <4>1. CASE a = b
        BY <3>2, <4>1
      <4>2. CASE a # b
        <5>1. BlockOf(a) = k /\ k \in DOMAIN heap /\ k # BlockOf(b)
          BY <1>1, <1>2, <1>3, <3>2, <4>2
        <5> QED
          BY <5>1
      <4> QED
        BY <4>1, <4>2
    <3> QED
      BY <3>1, <3>2
  <2>3. ASSUME NEW a \in Buffers, NEW c \in Buffers, a # c, BlockOf(a)' # NoBlock
        PROVE  BlockOf(a)' # BlockOf(c)'
    <3>1. CASE a # b /\ c # b
      <4>1. BlockOf(a) # NoBlock /\ BlockOf(a) # BlockOf(c)
        BY <1>1, <2>3, <3>1 DEF BufferInv, Owned
      <4> QED
        BY <1>1, <3>1, <4>1
    <3>2. ASSUME NEW x \in Buffers, x # b, BlockOf(x)' # NoBlock, BlockOf(x)' = BlockOf(b)'
          PROVE  FALSE
      <4>1. BlockOf(x) # NoBlock /\ BlockOf(x) = BlockOf(b)'
        BY <1>1, <3>2
      <4>2. BlockOf(x) \in DOMAIN heap /\ BlockOf(x) # BlockOf(b)
        BY <1>2, <1>3, <3>2, <4>1
      <4> QED
        BY <4>1, <4>2
    <3> QED
      BY <2>3, <3>1, <3>2
  <2> QED
    BY <2>1, <2>2, <2>3 DEF Owned, BlockOf
<1>6. ASSUME NEW a \in Buffers \ {b}
      PROVE  Sound(heap', life'[a], buffer'[a], data'[a], nread'[a])
  <2>1. Sound(heap, life[a], buffer[a], data[a], nread[a])
    BY DEF BufferInv
  <2>2. CASE life[a] # "alive"
    BY <2>1, <2>2 DEF Sound
  <2>3. CASE life[a] = "alive"
    <3>1. BlockOf(a) \in DOMAIN heap /\ BlockOf(a) # NoBlock
      BY <1>4, <2>1, <2>3 DEF Sound, Holds, BlockOf
    <3>2. heap'[BlockOf(a)] = heap[BlockOf(a)] /\ BlockOf(a) \in DOMAIN heap'
      BY <1>3, <3>1
    <3>3. \A d : Holds(heap, BlockOf(a), d) => Holds(heap', BlockOf(a), d)
      BY <3>2 DEF Holds
    <3>4. Sound(heap', life[a], buffer[a], data[a], nread[a])
      BY <2>1, <2>3, <3>2, <3>3 DEF Sound, BlockOf
    <3> QED
      BY <3>4
  <2> QED
    BY <2>2, <2>3
<1> QED
  BY <1>5, <1>6 DEF BufferInv

-----------------------------------------------------------------------------
(* The buffers: the steps.                                                 *)

\* What the invariant says of one object.
LEMMA OfObject ==
    ASSUME BufferInv, NEW b \in Buffers
    PROVE  /\ life[b] \in {"none", "alive", "moved"}
           /\ data[b] \in Seq(Cells) /\ Len(data[b]) \in Nat /\ Len(data[b]) <= MaxData
           /\ nread[b] \in 0 .. Len(data[b]) /\ nread[b] \in Nat
           /\ life[b] = "alive" =>
                /\ Holds(heap, BlockOf(b), data[b])
                /\ buffer[b] = Members(BlockOf(b), nread[b], Len(data[b]), Len(heap[BlockOf(b)]))
                /\ Len(heap[BlockOf(b)]) \in Nat \ {0}
                /\ BlockOf(b) \in Blocks /\ BlockOf(b) # NoBlock
                /\ BlockOf(b) \in DOMAIN heap
           /\ life[b] # "alive" => data[b] = <<>> /\ BlockOf(b) = NoBlock
<1>1. Sound(heap, life[b], buffer[b], data[b], nread[b])
  BY DEF BufferInv
<1>2. /\ life[b] \in {"none", "alive", "moved"}
      /\ data[b] \in Seq(Cells) /\ Len(data[b]) \in Nat /\ Len(data[b]) <= MaxData
      /\ nread[b] \in 0 .. Len(data[b])
  BY <1>1, LenProperties DEF Sound, BufferInv
<1>3. nread[b] \in Nat
  BY <1>2
<1>4. life[b] # "alive" => data[b] = <<>> /\ BlockOf(b) = NoBlock
  BY <1>1 DEF Sound, BlockOf, Members, Pointer
<1>5. ASSUME life[b] = "alive"
      PROVE  /\ Holds(heap, BlockOf(b), data[b])
             /\ buffer[b] = Members(BlockOf(b), nread[b], Len(data[b]), Len(heap[BlockOf(b)]))
             /\ Len(heap[BlockOf(b)]) \in Nat \ {0}
             /\ BlockOf(b) \in Blocks /\ BlockOf(b) # NoBlock
             /\ BlockOf(b) \in DOMAIN heap
  <2>1. /\ Holds(heap, BlockOf(b), data[b])
        /\ buffer[b] = Members(BlockOf(b), nread[b], Len(data[b]), Len(heap[BlockOf(b)]))
    BY <1>1, <1>5 DEF Sound, BlockOf
  <2>2. heap[BlockOf(b)] \in Seq(Cells) /\ Len(heap[BlockOf(b)]) > 0 /\ BlockOf(b) \in DOMAIN heap
    BY <2>1 DEF Holds
  <2>3. Len(heap[BlockOf(b)]) \in Nat \ {0}
    <3>1. Len(heap[BlockOf(b)]) \in Nat
      BY <2>2, LenProperties
    <3> QED
      BY <2>2, <3>1
  <2>4. BlockOf(b) \in Blocks /\ NoBlock \notin Blocks
    BY <2>2, BufferAssumption DEF BufferInv, Owned
  <2> QED
    BY <2>1, <2>2, <2>3, <2>4
<1> QED
  BY <1>2, <1>3, <1>4, <1>5

LEMMA NewBlockLeft ==
    ASSUME BufferInv
    PROVE  /\ NewBlock(heap) \in Blocks \ DOMAIN heap
           /\ NewBlock(heap) # NoBlock
<1> DEFINE f == [b \in Buffers |-> BlockOf(b)]
<1>1. \A k \in DOMAIN heap : \E b \in Buffers : f[b] = k
  BY DEF BufferInv, Owned
<1> HIDE DEF f
<1> QED
  BY <1>1, BlockLeft, BufferAssumption

LEMMA MembersAre ==
    ASSUME NEW m, NEW k, NEW n, NEW size, NEW cap, m = Members(k, n, size, cap)
    PROVE  /\ m.start = Pointer(k, 0) /\ m.cursor = Pointer(k, n) /\ m.end = Pointer(k, size)
           /\ m.capacity = cap
           /\ m.start.block = k /\ m.start.at = 0
           /\ m.cursor.block = k /\ m.cursor.at = n
           /\ m.end.block = k /\ m.end.at = size
  BY DEF Members, Pointer

LEMMA CursorMoved ==
    ASSUME NEW m, NEW k, NEW n, NEW size, NEW cap, m = Members(k, n, size, cap), NEW i
    PROVE  [m EXCEPT !.cursor.at = i] = Members(k, i, size, cap)
<1>1. [m EXCEPT !.cursor.at = i] = [m EXCEPT !.cursor = [m.cursor EXCEPT !.at = i]]
  BY DEF Members
<1>2. [m.cursor EXCEPT !.at = i] = Pointer(k, i)
  BY DEF Members, Pointer
<1> QED
  BY <1>1, <1>2 DEF Members

LEMMA EndMoved ==
    ASSUME NEW m, NEW k, NEW n, NEW size, NEW cap, m = Members(k, n, size, cap), NEW i
    PROVE  [m EXCEPT !.end.at = i] = Members(k, n, i, cap)
<1>1. [m EXCEPT !.end.at = i] = [m EXCEPT !.end = [m.end EXCEPT !.at = i]]
  BY DEF Members
<1>2. [m.end EXCEPT !.at = i] = Pointer(k, i)
  BY DEF Members, Pointer
<1> QED
  BY <1>1, <1>2 DEF Members

LEMMA ConstructStep ==
    ASSUME BufferInv, fault = "no", NEW b \in Buffers, Construct(b)
    PROVE  BufferInv'
<1> PICK k : k = NewBlock(heap)
  OBVIOUS
<1>1. k \in Blocks \ DOMAIN heap /\ k # NoBlock
  BY NewBlockLeft
<1> PICK cells : cells = JunkCells(InitialCapacity)
  OBVIOUS
<1>2. cells \in Seq(Cells) /\ Len(cells) = InitialCapacity /\ InitialCapacity \in Nat \ {0}
  BY JunkProperties, BufferAssumption
<1>3. heap' = With(heap, k, cells)
  BY DEF Construct
<1>4. /\ DOMAIN heap' = DOMAIN heap \cup {k} /\ heap'[k] = cells
      /\ \A x \in DOMAIN heap : x # k => heap'[x] = heap[x]
  BY <1>3 DEF With
<1>5. /\ life' \in [Buffers -> {"none", "alive", "moved"}]
      /\ DOMAIN buffer' = Buffers /\ data' = data /\ nread' = nread /\ fault' = fault
      /\ DOMAIN data' = Buffers /\ DOMAIN nread' = Buffers
      /\ life'[b] = "alive"
      /\ buffer'[b] = Members(k, 0, 0, InitialCapacity)
      /\ \A a \in Buffers \ {b} : life'[a] = life[a] /\ buffer'[a] = buffer[a]
  BY DEF Construct, Constructed, Members, BufferInv
<1>6. data[b] = <<>> /\ nread[b] = 0 /\ BlockOf(b) = NoBlock /\ Len(<<>>) = 0 /\ <<>> \in Seq(Cells)
  <2>1. data[b] = <<>> /\ BlockOf(b) = NoBlock /\ nread[b] \in 0 .. Len(data[b])
    BY OfObject DEF Construct
  <2> QED
    BY <2>1
<1>7. BlockOf(b)' = k
  <2>1. buffer'[b].start.block = k
    BY <1>5, MembersAre
  <2> QED
    BY <2>1 DEF BlockOf
<1>8. Sound(heap', life'[b], buffer'[b], data'[b], nread'[b])
  <2>1. Holds(heap', k, <<>>)
    BY <1>2, <1>4, <1>6 DEF Holds
  <2>2. buffer'[b].start.block = k /\ buffer'[b].capacity = InitialCapacity
    BY <1>5, MembersAre
  <2>3. 0 <= MaxData /\ 0 \in 0 .. 0
    BY BufferAssumption
  <2> QED
    BY <1>2, <1>4, <1>5, <1>6, <2>1, <2>2, <2>3 DEF Sound
<1>9. NoBlock \notin DOMAIN heap
  BY DEF BufferInv, Owned
<1>10. DOMAIN heap' = (DOMAIN heap \ {BlockOf(b)}) \cup ({BlockOf(b)'} \ {NoBlock})
  BY <1>1, <1>4, <1>6, <1>7, <1>9
<1>11. \A x \in DOMAIN heap : x # BlockOf(b) => heap'[x] = heap[x]
  BY <1>1, <1>4
<1> QED
  BY <1>1, <1>5, <1>7, <1>8, <1>10, <1>11, OneObject

LEMMA GetRawStep ==
    ASSUME BufferInv, fault = "no", NEW b \in Buffers, GetRaw(b)
    PROVE  BufferInv'
<1> PICK k, n, size, cap : /\ k = BlockOf(b) /\ n = nread[b] /\ size = Len(data[b])
                           /\ cap = Len(heap[BlockOf(b)])
  OBVIOUS
<1>1. /\ life[b] = "alive" /\ n \in Nat /\ size \in Nat /\ n <= size /\ cap \in Nat
      /\ Holds(heap, k, data[b])
      /\ buffer[b] = Members(k, n, size, cap)
      /\ k # NoBlock /\ k \in DOMAIN heap
  <2>1. life[b] = "alive" /\ n \in 0 .. size /\ size \in Nat
    BY OfObject DEF GetRaw
  <2>2. n \in Nat /\ n <= size
    BY <2>1
  <2> QED
    BY <2>1, <2>2, OfObject
<1>2. CASE buffer[b].cursor = buffer[b].end
  BY <1>2 DEF GetRaw, Fault, BufferInv, Owned, BlockOf
<1>3. CASE buffer[b].cursor # buffer[b].end
  <2>1. n # size
    <3>1. buffer[b].cursor = Pointer(k, n) /\ buffer[b].end = Pointer(k, size)
      BY <1>1, MembersAre
    <3> QED
      BY <1>3, <3>1
  <2>2. n + 1 \in 0 .. size
    BY <1>1, <2>1
  <2>3. buffer' = [buffer EXCEPT ![b].cursor.at = @ + 1]
    BY <1>3 DEF GetRaw
  <2>4. buffer'[b] = Members(k, n + 1, size, cap)
    <3>1. buffer[b].cursor.at = n
      BY <1>1, MembersAre
    <3>2. buffer'[b] = [buffer[b] EXCEPT !.cursor.at = n + 1]
      BY <2>3, <3>1 DEF BufferInv
    <3> QED
      BY <1>1, <3>2, CursorMoved
  <2>5. /\ heap' = heap /\ life' = life /\ data' = data /\ fault' = fault
        /\ nread'[b] = n + 1 /\ DOMAIN nread' = Buffers /\ DOMAIN buffer' = Buffers
        /\ \A a \in Buffers \ {b} : buffer'[a] = buffer[a] /\ nread'[a] = nread[a]
    BY <1>3 DEF GetRaw, BufferInv
  <2>6. BlockOf(b)' = k
    <3>1. buffer'[b].start.block = k
      BY <2>4, MembersAre
    <3> QED
      BY <3>1 DEF BlockOf
  <2>7. Sound(heap', life'[b], buffer'[b], data'[b], nread'[b])
    <3>2. buffer'[b].capacity = cap /\ buffer'[b].start.block = k
      BY <2>4, MembersAre
    <3>3. data[b] \in Seq(Cells) /\ Len(data[b]) = size /\ size <= MaxData /\ Len(heap[k]) = cap
      BY OfObject
    <3> QED
      BY <1>1, <2>2, <2>4, <2>5, <3>2, <3>3 DEF Sound
  <2> QED
    BY <1>1, <2>5, <2>6, <2>7, OneObject DEF BufferInv
<1> QED
  BY <1>2, <1>3

LEMMA ClearStep ==
    ASSUME BufferInv, fault = "no", NEW b \in Buffers, ClearBuffer(b)
    PROVE  BufferInv'
<1> PICK k, n, size, cap : /\ k = BlockOf(b) /\ n = nread[b] /\ size = Len(data[b])
                           /\ cap = Len(heap[BlockOf(b)])
  OBVIOUS
<1>1. /\ life[b] = "alive" /\ cap \in Nat
      /\ buffer[b] = Members(k, n, size, cap)
      /\ k # NoBlock /\ k \in DOMAIN heap /\ Holds(heap, k, data[b])
  BY OfObject DEF ClearBuffer
<1>2. buffer'[b] = Members(k, 0, 0, cap)
  <2>1. buffer'[b] = [buffer[b] EXCEPT !.cursor = buffer[b].start, !.end = buffer[b].start]
    BY DEF ClearBuffer, BufferInv
  <2> PICK start : start = buffer[b].start
    OBVIOUS
  <2>2. start = Pointer(k, 0)
    BY <1>1, MembersAre
  <2> PICK m : m = buffer[b]
    OBVIOUS
  <2>3. DOMAIN m = {"start", "cursor", "end", "capacity"} /\ m.capacity = cap
    BY <1>1 DEF Members
  <2>4. buffer'[b] = [f \in DOMAIN m |-> IF f \in {"cursor", "end"} THEN start ELSE m[f]]
    BY <2>1, <2>3
  <2>5. buffer'[b] = [start |-> start, cursor |-> start, end |-> start, capacity |-> cap]
    BY <2>3, <2>4
  <2> QED
    BY <2>2, <2>5 DEF Members
<1>3. /\ heap' = heap /\ life' = life /\ fault' = fault
      /\ data'[b] = <<>> /\ nread'[b] = 0
      /\ DOMAIN nread' = Buffers /\ DOMAIN buffer' = Buffers /\ DOMAIN data' = Buffers
      /\ \A a \in Buffers \ {b} : /\ buffer'[a] = buffer[a] /\ nread'[a] = nread[a]
                                 /\ data'[a] = data[a]
  BY DEF ClearBuffer, BufferInv
<1>4. BlockOf(b)' = k
  <2>1. buffer'[b].start.block = k
    BY <1>2, MembersAre
  <2> QED
    BY <2>1 DEF BlockOf
<1>5. Sound(heap', life'[b], buffer'[b], data'[b], nread'[b])
  <2>1. /\ buffer'[b].capacity = cap /\ buffer'[b].start.block = k
        /\ Len(heap[k]) = cap /\ Len(<<>>) = 0 /\ <<>> \in Seq(Cells)
        /\ 0 <= MaxData /\ 0 \in 0 .. 0
    <3>1. buffer'[b].capacity = cap /\ buffer'[b].start.block = k
      BY <1>2, MembersAre
    <3> QED
      BY <3>1, BufferAssumption
  <2>2. Holds(heap, k, <<>>)
    <3>1. Len(heap[k]) > 0 /\ 0 <= cap
      BY <1>1 DEF Holds
    <3> QED
      BY <1>1, <2>1, <3>1 DEF Holds
  <2> QED
    BY <1>1, <1>2, <1>3, <2>1, <2>2 DEF Sound
<1> QED
  BY <1>1, <1>3, <1>4, <1>5, OneObject DEF BufferInv

\* The memory operator<< puts a value in, larger when it has to be.
Grown(h, buf) == IF Size(buf) + 1 > buf.capacity
                 THEN Reserve(h, buf, 2 * buf.capacity)
                 ELSE [buf |-> buf, heap |-> h]

LEMMA GrownHasRoom ==
    ASSUME BufferInv, NEW b \in Buffers, life[b] = "alive",
           NEW g, g = Grown(heap, buffer[b])
    PROVE  \E k, more :
              /\ g.buf = Members(k, nread[b], Len(data[b]), more)
              /\ more \in Nat /\ Len(data[b]) < more
              /\ Holds(g.heap, k, data[b]) /\ Len(g.heap[k]) = more
              /\ DOMAIN g.heap = (DOMAIN heap \ {BlockOf(b)}) \cup {k}
              /\ \A x \in DOMAIN heap : x # BlockOf(b) => g.heap[x] = heap[x]
              /\ k = BlockOf(b) \/ k \in Blocks \ DOMAIN heap
              /\ k # NoBlock
<1> PICK k, n, size, cap : /\ k = BlockOf(b) /\ n = nread[b] /\ size = Len(data[b])
                           /\ cap = Len(heap[BlockOf(b)])
  OBVIOUS
<1>1. /\ n \in 0 .. size /\ size \in Nat /\ data[b] \in Seq(Cells)
      /\ Holds(heap, k, data[b]) /\ buffer[b] = Members(k, n, size, cap)
      /\ cap \in Nat \ {0} /\ k # NoBlock /\ k \in DOMAIN heap
  BY OfObject
<1>2. Size(buffer[b]) = size /\ buffer[b].capacity = cap
  <2>1. buffer[b].end.at = size /\ buffer[b].start.at = 0 /\ buffer[b].capacity = cap
    BY <1>1, MembersAre
  <2>2. size - 0 = size
    BY <1>1
  <2> QED
    BY <2>1, <2>2 DEF Size
<1>3. CASE size + 1 > cap
  <2>1. g = Reserve(heap, Members(k, n, size, cap), 2 * cap)
    BY <1>1, <1>2, <1>3 DEF Grown
  <2>2. 2 * cap \in Nat /\ 2 * cap >= size /\ 2 * cap > 0 /\ size < 2 * cap /\ cap \in Nat
    <3>1. size <= cap
      BY <1>1 DEF Holds
    <3> QED
      BY <1>1, <3>1
  <2> PICK k2, more : k2 = NewBlock(heap) /\ more = 2 * cap
    OBVIOUS
  <2>3. k2 \in Blocks \ DOMAIN heap /\ k2 # NoBlock
    BY NewBlockLeft
  <2>4. /\ g.buf = Members(k2, n, size, more)
        /\ DOMAIN g.heap = (DOMAIN heap \ {k}) \cup {k2}
        /\ \A x \in DOMAIN heap : x # k => g.heap[x] = heap[x]
        /\ Holds(g.heap, k2, data[b])
        /\ Len(g.heap[k2]) = more
    <3> PICK d, m : d = data[b] /\ m = buffer[b]
      OBVIOUS
    <3>1. d \in Seq(Cells) /\ size = Len(d) /\ Holds(heap, k, d) /\ n \in 0 .. size
      BY <1>1
    <3>2. more \in Nat /\ more >= size /\ more > 0 /\ k2 = NewBlock(heap) /\ k2 \notin DOMAIN heap
      BY <2>2, <2>3
    <3>3. m = Members(k, n, size, cap) /\ g = Reserve(heap, m, more)
      BY <1>1, <2>1
    <3>4. /\ g.buf = Members(k2, n, size, more)
          /\ DOMAIN g.heap = (DOMAIN heap \ {k}) \cup {k2}
          /\ \A x \in DOMAIN heap : x # k => g.heap[x] = heap[x]
          /\ Holds(g.heap, k2, d)
          /\ Len(g.heap[k2]) = more
      BY <3>1, <3>2, <3>3, Reserved
    <3> QED
      BY <3>4
  <2> QED
    BY <2>2, <2>3, <2>4
<1>4. CASE ~(size + 1 > cap)
  <2>1. g = [buf |-> buffer[b], heap |-> heap]
    BY <1>2, <1>4 DEF Grown
  <2>2. size < cap /\ cap \in Nat
    BY <1>1, <1>4
  <2>3. g.buf = Members(k, n, size, cap) /\ g.heap = heap
    BY <1>1, <2>1
  <2>4. DOMAIN g.heap = (DOMAIN heap \ {k}) \cup {k}
    BY <1>1, <2>3
  <2> QED
    BY <1>1, <2>2, <2>3, <2>4
<1> QED
  BY <1>3, <1>4

LEMMA PutRawStep ==
    ASSUME BufferInv, fault = "no", NEW b \in Buffers, PutRaw(b)
    PROVE  BufferInv'
<1> PICK n, size, d : n = nread[b] /\ size = Len(data[b]) /\ d = data[b]
  OBVIOUS
<1> PICK g : g = Grown(heap, buffer[b])
  OBVIOUS
<1> PICK value : value = <<b, size + 1>>
  OBVIOUS
<1>1. /\ life[b] = "alive" /\ size < MaxData
      /\ heap' = [g.heap EXCEPT ![g.buf.end.block][g.buf.end.at + 1] = value]
      /\ buffer' = [buffer EXCEPT ![b] = [g.buf EXCEPT !.end.at = @ + 1]]
      /\ data' = [data EXCEPT ![b] = Append(@, value)]
      /\ life' = life /\ nread' = nread /\ fault' = fault
  BY DEF PutRaw, Grown
<1>2. PICK k, more :
              /\ g.buf = Members(k, n, size, more)
              /\ more \in Nat /\ size < more
              /\ Holds(g.heap, k, d) /\ Len(g.heap[k]) = more
              /\ DOMAIN g.heap = (DOMAIN heap \ {BlockOf(b)}) \cup {k}
              /\ \A x \in DOMAIN heap : x # BlockOf(b) => g.heap[x] = heap[x]
              /\ k = BlockOf(b) \/ k \in Blocks \ DOMAIN heap
              /\ k # NoBlock
  BY <1>1, GrownHasRoom
<1>3. n \in 0 .. size /\ size \in Nat /\ d \in Seq(Cells) /\ size = Len(d)
  BY OfObject
<1>4. value \in Cells
  <2>1. size + 1 \in Nat
    BY <1>3
  <2> QED
    BY <2>1 DEF Cells
<1> PICK cells : cells = [g.heap[k] EXCEPT ![size + 1] = value]
  OBVIOUS
<1>5. /\ DOMAIN heap' = DOMAIN g.heap /\ heap'[k] = cells
      /\ \A x \in DOMAIN g.heap : x # k => heap'[x] = g.heap[x]
  <2>1. g.buf.end.block = k /\ g.buf.end.at = size
    BY <1>2, MembersAre
  <2>2. heap' = [g.heap EXCEPT ![k][size + 1] = value]
    BY <1>1, <2>1
  <2>3. k \in DOMAIN g.heap
    BY <1>2 DEF Holds
  <2> QED
    BY <2>2, <2>3
<1>6. /\ cells \in Seq(Cells) /\ Len(cells) = more
      /\ \A i \in 1 .. more : cells[i] = IF i = size + 1 THEN value ELSE g.heap[k][i]
  <2>1. g.heap[k] \in Seq(Cells) /\ size + 1 \in 1 .. more /\ Len(g.heap[k]) = more
    BY <1>2, <1>3 DEF Holds
  <2> QED
    BY <1>4, <2>1, ExceptSeq
<1> PICK e : e = Append(d, value)
  OBVIOUS
<1>7. /\ e \in Seq(Cells) /\ Len(e) = size + 1
      /\ \A i \in 1 .. size + 1 : e[i] = IF i = size + 1 THEN value ELSE d[i]
  BY <1>3, <1>4, AppendProperties
<1>8. Holds(heap', k, e)
  <2>1. size + 1 <= more /\ more > 0 /\ \A i \in 1 .. size + 1 : i \in 1 .. more
    BY <1>2, <1>3
  <2>2. \A i \in 1 .. size : g.heap[k][i] = d[i]
    BY <1>3, <1>2 DEF Holds
  <2>3. ASSUME NEW i \in 1 .. size + 1 PROVE cells[i] = e[i]
    <3>1. i = size + 1 \/ i \in 1 .. size
      BY <1>3
    <3> QED
      BY <1>6, <1>7, <2>1, <2>2, <3>1
  <2>4. k \in DOMAIN heap'
    BY <1>2, <1>5
  <2> QED
    BY <1>5, <1>6, <1>7, <2>1, <2>3, <2>4 DEF Holds
<1>9. buffer'[b] = Members(k, n, size + 1, more)
  <2>1. buffer'[b] = [g.buf EXCEPT !.end.at = @ + 1] /\ g.buf.end.at = size
    BY <1>1, <1>2, MembersAre DEF BufferInv
  <2> PICK m : m = g.buf
    OBVIOUS
  <2>2. buffer'[b] = [m EXCEPT !.end.at = size + 1]
    BY <2>1
  <2>3. m = Members(k, n, size, more)
    BY <1>2
  <2>4. [m EXCEPT !.end.at = size + 1] = Members(k, n, size + 1, more)
    BY <2>3, EndMoved
  <2> QED
    BY <2>2, <2>4
<1>10. buffer'[b].start.block = k /\ buffer'[b].capacity = more /\ BlockOf(b)' = k
  <2>1. buffer'[b].start.block = k /\ buffer'[b].capacity = more
    BY <1>9, MembersAre
  <2> QED
    BY <2>1 DEF BlockOf
<1>11. /\ DOMAIN buffer' = Buffers /\ DOMAIN data' = Buffers /\ data'[b] = e
       /\ \A a \in Buffers \ {b} : buffer'[a] = buffer[a] /\ data'[a] = data[a]
  BY <1>1 DEF BufferInv
<1>12. Sound(heap', life'[b], buffer'[b], data'[b], nread'[b])
  <2>1. size + 1 <= MaxData /\ n \in 0 .. size + 1
    BY <1>1, <1>3, BufferAssumption
  <2>2. /\ life'[b] = "alive" /\ nread'[b] = n /\ data'[b] = e
        /\ e \in Seq(Cells) /\ Len(e) = size + 1 /\ more \in Nat
        /\ Len(heap'[k]) = more
    BY <1>1, <1>2, <1>5, <1>6, <1>7, <1>11
  <2> QED
    BY <1>8, <1>9, <1>10, <2>1, <2>2 DEF Sound
<1>13. DOMAIN heap' = (DOMAIN heap \ {BlockOf(b)}) \cup ({BlockOf(b)'} \ {NoBlock})
  BY <1>2, <1>5, <1>10
<1>14. \A x \in DOMAIN heap : x # BlockOf(b) => heap'[x] = heap[x]
  <2>1. ASSUME NEW x \in DOMAIN heap, x # BlockOf(b) PROVE heap'[x] = heap[x]
    <3>1. x # k /\ x \in DOMAIN g.heap
      BY <1>2, <2>1
    <3> QED
      BY <1>2, <1>5, <2>1, <3>1
  <2> QED
    BY <2>1
<1>15. BlockOf(b)' = BlockOf(b) \/ BlockOf(b)' \in Blocks \ DOMAIN heap
  BY <1>2, <1>10
<1> QED
  BY <1>1, <1>11, <1>12, <1>13, <1>14, <1>15, OneObject DEF BufferInv

LEMMA DestroyStep ==
    ASSUME BufferInv, fault = "no", NEW b \in Buffers, Destroy(b)
    PROVE  BufferInv'
<1>1. BlockOf(b) # NoBlock => BlockOf(b) \in DOMAIN heap
  BY DEF BufferInv, Owned
<1>2. /\ heap' = Without(heap, BlockOf(b))
      /\ life' = [life EXCEPT ![b] = "none"]
      /\ buffer' = [buffer EXCEPT ![b] = NoBuffer]
      /\ data' = [data EXCEPT ![b] = <<>>]
      /\ nread' = [nread EXCEPT ![b] = 0]
      /\ fault' = fault
  BY <1>1 DEF Destroy, BlockOf
<1>3. /\ DOMAIN heap' = DOMAIN heap \ {BlockOf(b)}
      /\ \A x \in DOMAIN heap : x # BlockOf(b) => heap'[x] = heap[x]
  BY <1>2, WithoutBlock
<1>4. /\ life' \in [Buffers -> {"none", "alive", "moved"}]
      /\ DOMAIN buffer' = Buffers /\ DOMAIN data' = Buffers /\ DOMAIN nread' = Buffers
      /\ life'[b] = "none" /\ buffer'[b] = NoBuffer /\ data'[b] = <<>> /\ nread'[b] = 0
      /\ \A a \in Buffers \ {b} : /\ life'[a] = life[a] /\ buffer'[a] = buffer[a]
                                 /\ data'[a] = data[a] /\ nread'[a] = nread[a]
  BY <1>2 DEF BufferInv
<1>5. NoBuffer = Members(NoBlock, 0, 0, 0) /\ NoBuffer.capacity = 0
  BY DEF NoBuffer, Members, Null
<1>6. BlockOf(b)' = NoBlock
  <2>1. buffer'[b].start.block = NoBlock
    BY <1>4, <1>5, MembersAre
  <2> QED
    BY <2>1 DEF BlockOf
<1>7. Sound(heap', life'[b], buffer'[b], data'[b], nread'[b])
  <2>1. <<>> \in Seq(Cells) /\ Len(<<>>) = 0 /\ 0 <= MaxData /\ 0 \in 0 .. 0
    BY BufferAssumption
  <2> QED
    BY <1>4, <1>5, <2>1 DEF Sound
<1>8. DOMAIN heap' = (DOMAIN heap \ {BlockOf(b)}) \cup ({BlockOf(b)'} \ {NoBlock})
  BY <1>3, <1>6
<1> QED
  BY <1>2, <1>3, <1>4, <1>6, <1>7, <1>8, OneObject DEF BufferInv

\* The buffer a message is received into: a new one, enlarged to the size
\* of the content when it has to be.
Made == [buf |-> Constructed(heap),
         heap |-> With(heap, NewBlock(heap), JunkCells(InitialCapacity))]

Room(size) == IF size > InitialCapacity THEN Reserve(Made.heap, Made.buf, size) ELSE Made

LEMMA MadeHasRoom ==
    ASSUME BufferInv, NEW b \in Buffers, BlockOf(b) = NoBlock,
           NEW size \in Nat, size > 0, NEW g, g = Room(size)
    PROVE  \E k, more :
              /\ g.buf = Members(k, 0, 0, more)
              /\ more \in Nat /\ more >= size
              /\ g.heap[k] \in Seq(Cells) /\ Len(g.heap[k]) = more
              /\ DOMAIN g.heap = DOMAIN heap \cup {k}
              /\ \A x \in DOMAIN heap : g.heap[x] = heap[x]
              /\ k \in Blocks \ DOMAIN heap
              /\ k # NoBlock
<1> PICK k, cap, cells, m, h :
        /\ k = NewBlock(heap) /\ cap = InitialCapacity /\ cells = JunkCells(cap)
        /\ m = Made.buf /\ h = Made.heap
  OBVIOUS
<1>1. k \in Blocks \ DOMAIN heap /\ k # NoBlock
  BY NewBlockLeft
<1>2. cap \in Nat /\ cap > 0 /\ cells \in Seq(Cells) /\ Len(cells) = cap
  BY JunkProperties, BufferAssumption
<1>3. m = Members(k, 0, 0, cap) /\ h = With(heap, k, cells)
  BY DEF Made, Constructed, Members
<1>4. /\ DOMAIN h = DOMAIN heap \cup {k} /\ h[k] = cells
      /\ \A x \in DOMAIN heap : h[x] = heap[x]
  BY <1>1, <1>3 DEF With
<1>5. CASE size > InitialCapacity
  <2> PICK k2 : k2 = NewBlock(h)
    OBVIOUS
  <2>1. k2 \in Blocks /\ k2 \notin DOMAIN h
    <3> DEFINE f == [x \in Buffers |-> IF x = b THEN k ELSE BlockOf(x)]
    <3>1. ASSUME NEW y \in DOMAIN h PROVE \E x \in Buffers : f[x] = y
      <4>1. CASE y = k
        BY <4>1
      <4>2. CASE y \in DOMAIN heap
        <5>1. PICK x \in Buffers : BlockOf(x) = y /\ y # NoBlock
          BY <4>2 DEF BufferInv, Owned
        <5>2. x # b
          BY <5>1
        <5> QED
          BY <5>1, <5>2
      <4> QED
        BY <1>4, <4>1, <4>2
    <3> HIDE DEF f
    <3> QED
      BY <3>1, BlockLeft
  <2>8. PICK d, none : d = <<>> /\ none = 0
    OBVIOUS
  <2>2. d \in Seq(Cells) /\ none = Len(d) /\ Holds(h, k, d)
    BY <1>2, <1>4, <2>8 DEF Holds
  <2>3. g = Reserve(h, m, size) /\ none \in 0 .. none /\ size >= none /\ m = Members(k, none, none, cap)
    BY <1>3, <1>5, <2>8 DEF Room
  <2>4. /\ g.buf = Members(k2, none, none, size)
        /\ DOMAIN g.heap = (DOMAIN h \ {k}) \cup {k2}
        /\ \A x \in DOMAIN h : x # k => g.heap[x] = h[x]
        /\ Holds(g.heap, k2, d)
        /\ Len(g.heap[k2]) = size
    <3>1. k2 = NewBlock(h) /\ size > 0 /\ size \in Nat
      OBVIOUS
    <3> QED
      BY <2>1, <2>2, <2>3, <3>1, Reserved
  <2>5. DOMAIN g.heap = DOMAIN heap \cup {k2} /\ k2 \notin DOMAIN heap
    BY <1>1, <1>4, <2>1, <2>4
  <2>6. \A x \in DOMAIN heap : g.heap[x] = heap[x]
    BY <1>1, <1>4, <2>4
  <2>7. g.heap[k2] \in Seq(Cells) /\ k2 # NoBlock /\ size >= size
    BY <2>1, <2>4, BufferAssumption DEF Holds
  <2> QED
    BY <2>1, <2>4, <2>5, <2>6, <2>7, <2>8
<1>6. CASE ~(size > InitialCapacity)
  <2>1. g.buf = m /\ g.heap = h /\ cap >= size
    BY <1>2, <1>6 DEF Room
  <2> QED
    BY <1>1, <1>2, <1>3, <1>4, <2>1
<1> QED
  BY <1>5, <1>6

LEMMA ReceiveStep ==
    ASSUME BufferInv, fault = "no", NEW a \in Buffers, NEW b \in Buffers, Receive(a, b)
    PROVE  BufferInv'
<1> PICK from, size, d : from = BlockOf(a) /\ size = Len(data[a]) /\ d = data[a]
  OBVIOUS
<1>1. /\ size \in Nat /\ size <= MaxData /\ d \in Seq(Cells) /\ size = Len(d)
      /\ Holds(heap, from, d) /\ from \in DOMAIN heap
      /\ buffer[a] = Members(from, nread[a], size, Len(heap[from]))
  BY OfObject DEF Receive
<1>2. Size(buffer[a]) = size /\ buffer[a].start.block = from
  <2>1. buffer[a].end.at = size /\ buffer[a].start.at = 0 /\ buffer[a].start.block = from
    BY <1>1, MembersAre
  <2>2. size - 0 = size
    BY <1>1
  <2> QED
    BY <2>1, <2>2 DEF Size
<1>3. CASE size = 0
  <2>1. fault' = "empty content" /\ UNCHANGED <<heap, life, buffer, data, nread>>
    BY <1>2, <1>3 DEF Receive, Fault
  <2> QED
    BY <2>1 DEF BufferInv, Owned, BlockOf
<1>4. CASE size # 0
  <2> PICK g : g = Room(size)
    OBVIOUS
  <2>1. data[b] = <<>> /\ BlockOf(b) = NoBlock /\ nread[b] = 0
    <3>1. data[b] = <<>> /\ BlockOf(b) = NoBlock /\ nread[b] \in 0 .. Len(data[b])
      BY OfObject DEF Receive
    <3> QED
      BY <3>1
  <2>2. PICK k, more :
              /\ g.buf = Members(k, 0, 0, more)
              /\ more \in Nat /\ more >= size
              /\ g.heap[k] \in Seq(Cells) /\ Len(g.heap[k]) = more
              /\ DOMAIN g.heap = DOMAIN heap \cup {k}
              /\ \A x \in DOMAIN heap : g.heap[x] = heap[x]
              /\ k \in Blocks \ DOMAIN heap
              /\ k # NoBlock
    <3>1. size > 0
      BY <1>1, <1>4
    <3> QED
      BY <1>1, <2>1, <3>1, MadeHasRoom
  <2>3. g.buf.start.block = k /\ DOMAIN g.buf = {"start", "cursor", "end", "capacity"}
        /\ g.buf.start = Pointer(k, 0) /\ g.buf.capacity = more
    <3>1. DOMAIN g.buf = {"start", "cursor", "end", "capacity"}
      BY <2>2 DEF Members
    <3> QED
      BY <2>2, <3>1, MembersAre
  <2>4. /\ heap' = [g.heap EXCEPT ![k] = [i \in DOMAIN @ |-> IF i <= size THEN heap[from][i] ELSE @[i]]]
        /\ buffer' = [buffer EXCEPT ![b] = [g.buf EXCEPT !.cursor = Pointer(k, 0), !.end = Pointer(k, size)]]
        /\ life' = [life EXCEPT ![b] = "alive"]
        /\ data' = [data EXCEPT ![b] = d]
        /\ nread' = nread /\ fault' = fault
    <3>1. g = Room(Size(buffer[a])) /\ Size(buffer[a]) # 0
      BY <1>2, <1>4
    <3> PICK room : room = Room(Size(buffer[a]))
      OBVIOUS
    <3>4. heap' = [room.heap EXCEPT ![room.buf.start.block] =
                        [i \in DOMAIN @ |-> IF i <= Size(buffer[a])
                                           THEN heap[buffer[a].start.block][i] ELSE @[i]]]
      <4>1. heap' = [Room(Size(buffer[a])).heap EXCEPT ![Room(Size(buffer[a])).buf.start.block] =
                        [i \in DOMAIN @ |-> IF i <= Size(buffer[a])
                                           THEN heap[buffer[a].start.block][i] ELSE @[i]]]
        BY <3>1, ZenonT(60) DEF Receive, Room, Made
      <4> QED
        BY <4>1
    <3>5. buffer' = [buffer EXCEPT ![b] =
                          [room.buf EXCEPT !.cursor = Pointer(room.buf.start.block, 0),
                                        !.end = Pointer(room.buf.start.block, Size(buffer[a]))]]
      BY <3>1 DEF Receive, Room, Made
    <3>2. /\ heap' = [g.heap EXCEPT ![g.buf.start.block] =
                        [i \in DOMAIN @ |-> IF i <= Size(buffer[a])
                                           THEN heap[buffer[a].start.block][i] ELSE @[i]]]
          /\ buffer' = [buffer EXCEPT ![b] =
                          [g.buf EXCEPT !.cursor = Pointer(g.buf.start.block, 0),
                                        !.end = Pointer(g.buf.start.block, Size(buffer[a]))]]
      BY <3>1, <3>4, <3>5
    <3>3. /\ life' = [life EXCEPT ![b] = "alive"]
          /\ data' = [data EXCEPT ![b] = d]
          /\ nread' = nread /\ fault' = fault
      BY <3>1 DEF Receive
    <3> QED
      BY <1>2, <2>3, <3>2, <3>3
  <2> PICK cells : cells = [i \in 1 .. more |-> IF i <= size THEN heap[from][i] ELSE g.heap[k][i]]
    OBVIOUS
  <2>5. DOMAIN g.heap[k] = 1 .. more
    BY <2>2, LenProperties
  <2>6. /\ DOMAIN heap' = DOMAIN heap \cup {k} /\ heap'[k] = cells
        /\ \A x \in DOMAIN heap : heap'[x] = heap[x]
    BY <2>2, <2>4, <2>5
  <2>7. \A i \in 1 .. size : heap[from][i] = d[i] /\ d[i] \in Cells
    <3>1. \A i \in 1 .. size : heap[from][i] = d[i]
      BY <1>1 DEF Holds
    <3>2. \A i \in 1 .. size : d[i] \in Cells
      BY <1>1, ElementOfSeq
    <3> QED
      BY <3>1, <3>2
  <2>8. cells \in Seq(Cells) /\ Len(cells) = more
    <3>1. ASSUME NEW i \in 1 .. more PROVE cells[i] \in Cells
      <4>1. g.heap[k][i] \in Cells
        BY <2>2, ElementOfSeq
      <4>2. i <= size => i \in 1 .. size
        BY <1>1
      <4> QED
        BY <2>7, <4>1, <4>2
    <3>2. cells \in [1 .. more -> Cells]
      BY <3>1
    <3> QED
      BY <2>2, <3>2
  <2>9. Holds(heap', k, d)
    <3>1. \A i \in 1 .. size : i \in 1 .. more /\ i <= size
      BY <1>1, <2>2
    <3>2. \A i \in 1 .. size : cells[i] = d[i]
      BY <2>7, <3>1
    <3>3. more > 0 /\ size <= more
      BY <1>1, <1>4, <2>2
    <3> QED
      BY <1>1, <2>6, <2>8, <3>2, <3>3 DEF Holds
  <2>10. buffer'[b] = Members(k, 0, size, more)
    <3> PICK m, c, e : m = g.buf /\ c = Pointer(k, 0) /\ e = Pointer(k, size)
      OBVIOUS
    <3>1. buffer'[b] = [m EXCEPT !.cursor = c, !.end = e]
      BY <2>4 DEF BufferInv
    <3>2. /\ DOMAIN m = {"start", "cursor", "end", "capacity"} /\ m.capacity = more
          /\ m.start = Pointer(k, 0)
      BY <2>3
    <3>3. buffer'[b] = [f \in DOMAIN m |-> IF f = "end" THEN e ELSE IF f = "cursor" THEN c ELSE m[f]]
      BY <3>1, <3>2
    <3>4. buffer'[b] = [start |-> m.start, cursor |-> c, end |-> e, capacity |-> more]
      BY <3>2, <3>3
    <3> QED
      BY <3>2, <3>4 DEF Members
  <2>11. buffer'[b].start.block = k /\ buffer'[b].capacity = more /\ BlockOf(b)' = k
    <3>1. buffer'[b].start.block = k /\ buffer'[b].capacity = more
      BY <2>10, MembersAre
    <3> QED
      BY <3>1 DEF BlockOf
  <2>12. /\ life' \in [Buffers -> {"none", "alive", "moved"}]
         /\ DOMAIN buffer' = Buffers /\ DOMAIN data' = Buffers /\ DOMAIN nread' = Buffers
         /\ life'[b] = "alive" /\ data'[b] = d /\ nread'[b] = 0
         /\ \A x \in Buffers \ {b} : /\ life'[x] = life[x] /\ buffer'[x] = buffer[x]
                                    /\ data'[x] = data[x] /\ nread'[x] = nread[x]
    BY <2>1, <2>4 DEF BufferInv
  <2>13. Sound(heap', life'[b], buffer'[b], data'[b], nread'[b])
    <3>1. 0 \in 0 .. size /\ Len(heap'[k]) = more /\ more \in Nat
      BY <1>1, <2>2, <2>6, <2>8
    <3> QED
      BY <1>1, <2>9, <2>10, <2>11, <2>12, <3>1 DEF Sound
  <2>14. NoBlock \notin DOMAIN heap
    BY DEF BufferInv, Owned
  <2>15. DOMAIN heap' = (DOMAIN heap \ {BlockOf(b)}) \cup ({BlockOf(b)'} \ {NoBlock})
    BY <2>1, <2>2, <2>6, <2>11, <2>14
  <2> QED
    BY <2>2, <2>4, <2>6, <2>11, <2>12, <2>13, <2>15, OneObject DEF BufferInv
<1> QED
  BY <1>3, <1>4

LEMMA MoveStep ==
    ASSUME BufferInv, fault = "no", NEW a \in Buffers, NEW b \in Buffers, MoveConstruct(a, b)
    PROVE  BufferInv'
<1> PICK moved : moved = [NoBuffer EXCEPT !.capacity = buffer[a].capacity]
  OBVIOUS
<1>1. /\ a # b /\ life[a] = "alive" /\ life[b] = "none"
      /\ heap' = heap /\ fault' = fault
      /\ life' \in [Buffers -> {"none", "alive", "moved"}]
      /\ DOMAIN buffer' = Buffers /\ DOMAIN data' = Buffers /\ DOMAIN nread' = Buffers
      /\ life'[b] = "alive" /\ buffer'[b] = buffer[a] /\ data'[b] = data[a] /\ nread'[b] = nread[a]
      /\ life'[a] = "moved" /\ buffer'[a] = moved /\ data'[a] = <<>> /\ nread'[a] = 0
      /\ \A x \in Buffers \ {a, b} : /\ life'[x] = life[x] /\ buffer'[x] = buffer[x]
                                    /\ data'[x] = data[x] /\ nread'[x] = nread[x]
  BY DEF MoveConstruct, BufferInv
<1>2. moved = Members(NoBlock, 0, 0, buffer[a].capacity)
  BY DEF NoBuffer, Members, Null
<1>3. moved.capacity = buffer[a].capacity /\ moved.start.block = NoBlock
  <2> PICK cap : cap = buffer[a].capacity
    OBVIOUS
  <2>1. moved = Members(NoBlock, 0, 0, cap)
    BY <1>2
  <2>2. moved.capacity = cap /\ moved.start.block = NoBlock
    BY <2>1 DEF Members, Pointer
  <2> QED
    BY <2>2
<1>4. BlockOf(b) = NoBlock
  BY <1>1, OfObject
<1>5. /\ BlockOf(a)' = NoBlock /\ BlockOf(b)' = BlockOf(a)
      /\ \A x \in Buffers \ {a, b} : BlockOf(x)' = BlockOf(x)
  BY <1>1, <1>3 DEF BlockOf
<1>6. Owned'
  <2>1. DOMAIN heap' \subseteq Blocks
    BY <1>1 DEF BufferInv, Owned
  <2>2. ASSUME NEW k, k # NoBlock
        PROVE  (\E x \in Buffers : BlockOf(x)' = k) <=> \E x \in Buffers : BlockOf(x) = k
    BY <1>4, <1>5, <2>2
  <2>3. \A k : k \in DOMAIN heap <=> k # NoBlock /\ \E x \in Buffers : BlockOf(x) = k
    BY DEF BufferInv, Owned
  <2>4. \A k : k \in DOMAIN heap' <=> k # NoBlock /\ \E x \in Buffers : BlockOf(x)' = k
    BY <1>1, <2>2, <2>3
  <2>5. ASSUME NEW x \in Buffers, NEW y \in Buffers, x # y, BlockOf(x)' # NoBlock
        PROVE  BlockOf(x)' # BlockOf(y)'
    <3>1. \A u, v \in Buffers : u # v /\ BlockOf(u) # NoBlock => BlockOf(u) # BlockOf(v)
      BY DEF BufferInv, Owned
    <3>2. x # a
      BY <1>5, <2>5
    <3>3. CASE y = a
      BY <1>5, <2>5, <3>3
    <3>4. CASE y # a /\ x = b
      BY <1>1, <1>5, <2>5, <3>1, <3>4
    <3>5. CASE y # a /\ x # b /\ y = b
      BY <1>1, <1>5, <2>5, <3>1, <3>2, <3>5
    <3>6. CASE y # a /\ x # b /\ y # b
      BY <1>5, <2>5, <3>1, <3>2, <3>6
    <3> QED
      BY <3>3, <3>4, <3>5, <3>6
  <2> QED
    BY <2>1, <2>4, <2>5 DEF Owned, BlockOf
<1>7. \A x \in Buffers : Sound(heap, life[x], buffer[x], data[x], nread[x])
  BY DEF BufferInv
<1>8. ASSUME NEW x \in Buffers PROVE Sound(heap', life'[x], buffer'[x], data'[x], nread'[x])
  <2>1. CASE x = a
    <3>1. buffer[a].capacity \in Nat
      BY <1>7 DEF Sound
    <3>2. <<>> \in Seq(Cells) /\ Len(<<>>) = 0 /\ 0 <= MaxData /\ 0 \in 0 .. 0
      BY BufferAssumption
    <3> QED
      BY <1>1, <1>2, <1>3, <2>1, <3>1, <3>2 DEF Sound
  <2>2. CASE x = b
    BY <1>1, <1>7, <2>2
  <2>3. CASE x \notin {a, b}
    BY <1>1, <1>7, <2>3
  <2> QED
    BY <2>1, <2>2, <2>3
<1> QED
  BY <1>1, <1>6, <1>8 DEF BufferInv

-----------------------------------------------------------------------------
(* The buffers: the theorems.                                              *)

LEMMA BufferInitially == BufferInit => BufferInv
<1> SUFFICES ASSUME BufferInit PROVE BufferInv
  OBVIOUS
<1>1. NoBuffer = Members(NoBlock, 0, 0, 0)
  BY DEF NoBuffer, Members, Null
<1>2. NoBuffer.capacity = 0 /\ NoBuffer.start.block = NoBlock
  BY DEF NoBuffer, Null, Pointer
<1>3. \A b \in Buffers : /\ life[b] = "none" /\ buffer[b] = NoBuffer /\ data[b] = <<>>
                         /\ nread[b] = 0 /\ BlockOf(b) = NoBlock
  BY <1>2 DEF BufferInit, BlockOf
<1>4. <<>> \in Seq(Cells) /\ Len(<<>>) = 0 /\ 0 <= MaxData /\ 0 \in 0 .. 0
  BY BufferAssumption
<1>5. \A b \in Buffers : Sound(heap, life[b], buffer[b], data[b], nread[b])
  <2>1. Sound(heap, "none", NoBuffer, <<>>, 0)
    BY <1>1, <1>2, <1>4 DEF Sound
  <2> QED
    BY <1>3, <2>1
<1>6. DOMAIN heap = {}
  BY DEF BufferInit
<1>7. Owned
  BY <1>3, <1>6 DEF Owned
<1> QED
  BY <1>5, <1>7 DEF BufferInit, BufferInv

LEMMA BufferInvNext == BufferInv /\ [BufferNext]_bufferVars => BufferInv'
<1> SUFFICES ASSUME BufferInv, [BufferNext]_bufferVars PROVE BufferInv'
  OBVIOUS
<1>1. CASE UNCHANGED bufferVars
  BY <1>1 DEF bufferVars, BufferInv, Owned, BlockOf
<1>2. ASSUME fault = "no", NEW b \in Buffers, BufferStep(b) PROVE BufferInv'
  BY <1>2, ConstructStep, PutRawStep, GetRawStep, ClearStep, DestroyStep, ReceiveStep, MoveStep
     DEF BufferStep
<1> QED
  BY <1>1, <1>2 DEF BufferNext

(***************************************************************************)
(* Whatever is done with the buffers of a process, each living one has a   *)
(* block of its own that holds what was put into it, and its three         *)
(* pointers are there; one moved from has none (Buffer.h:23-62, 112-142).  *)
(* That blocks have one owner is what makes the content inductive: what is *)
(* written through one buffer is not read through another.                 *)
(***************************************************************************)
THEOREM BufferInductiveInvariant == BufferSpec => []BufferInv
  BY BufferInitially, BufferInvNext, PTL DEF BufferSpec

(***************************************************************************)
(* For any number of buffers, any capacity and any amount of data, what a  *)
(* buffer holds is what was put into it, and it goes on being read where   *)
(* it was read to (put_raw, get_raw, reserve, set, the move constructor,   *)
(* Buffer.h:23-142).                                                       *)
(***************************************************************************)
THEOREM ContentsReadBack == BufferSpec => []BufferReadsBack
<1>1. ASSUME BufferInv PROVE BufferReadsBack
  <2> SUFFICES ASSUME NEW b \in Buffers, life[b] = "alive"
               PROVE  LET buf == buffer[b] IN
                      /\ buf.start.block \in DOMAIN heap
                      /\ buf.cursor = Pointer(buf.start.block, nread[b])
                      /\ buf.end = Pointer(buf.start.block, Len(data[b]))
                      /\ Len(data[b]) <= buf.capacity
                      /\ buf.capacity = Len(heap[buf.start.block])
                      /\ SubSeq(heap[buf.start.block], 1, Len(data[b])) = data[b]
    BY DEF BufferReadsBack
  <2> PICK k, n, size, cap, d : /\ k = BlockOf(b) /\ n = nread[b] /\ size = Len(data[b])
                                /\ cap = Len(heap[BlockOf(b)]) /\ d = data[b]
    OBVIOUS
  <2>1. /\ size \in Nat /\ d \in Seq(Cells) /\ size = Len(d)
        /\ Holds(heap, k, d) /\ k \in DOMAIN heap
        /\ buffer[b] = Members(k, n, size, cap)
    BY <1>1, OfObject
  <2>2. /\ buffer[b].start.block = k /\ buffer[b].cursor = Pointer(k, n)
        /\ buffer[b].end = Pointer(k, size) /\ buffer[b].capacity = cap
    BY <2>1, MembersAre
  <2>3. size <= cap /\ heap[k] \in Seq(Cells) /\ \A i \in 1 .. size : heap[k][i] = d[i]
    BY <2>1 DEF Holds
  <2>4. SubSeq(heap[k], 1, size) = d
    <3> PICK t : t = SubSeq(heap[k], 1, size)
      OBVIOUS
    <3>1. \A i \in 1 .. size : heap[k][i] \in Cells
      BY <2>1, <2>3, ElementOfSeq
    <3>2. size \in Int /\ 1 \in Int
      BY <2>1
    <3>3. /\ t \in Seq(Cells)
          /\ Len(t) = IF 1 <= size THEN size - 1 + 1 ELSE 0
          /\ \A i \in 1 .. size - 1 + 1 : t[i] = heap[k][1 + i - 1]
      BY <3>1, <3>2, SubSeqProperties
    <3>4. size - 1 + 1 = size /\ \A i \in 1 .. size : 1 + i - 1 = i
      BY <2>1
    <3>5. Len(t) = size
      BY <2>1, <3>3, <3>4
    <3>6. \A i \in 1 .. size : t[i] = d[i]
      BY <2>3, <3>3, <3>4
    <3> QED
      BY <2>1, <3>3, <3>5, <3>6, SeqEqual
  <2> QED
    BY <2>1, <2>2, <2>3, <2>4
<1> QED
  BY <1>1, BufferInductiveInvariant, PTL

(***************************************************************************)
(* For any number of buffers no two of them share memory, none is freed    *)
(* twice and none is lost (the destructor, the move constructor and        *)
(* reserve, Buffer.h:23-62, 112-142).                                      *)
(***************************************************************************)
THEOREM BuffersKeepApart == BufferSpec => []BuffersApart
<1>1. ASSUME BufferInv PROVE BuffersApart
  <2>1. fault # "double free"
    BY <1>1 DEF BufferInv
  <2>2. DOMAIN heap = {buffer[b].start.block : b \in Buffers} \ {NoBlock}
    <3>1. \A k : k \in DOMAIN heap <=> k # NoBlock /\ \E b \in Buffers : buffer[b].start.block = k
      BY <1>1 DEF BufferInv, Owned, BlockOf
    <3>2. \A k : k \in DOMAIN heap <=> k \in {buffer[b].start.block : b \in Buffers} \ {NoBlock}
      BY <3>1
    <3> QED
      BY <3>2
  <2>3. ASSUME NEW a \in Buffers, NEW b \in Buffers, a # b, buffer[a].start # Null
        PROVE  buffer[a].start.block # buffer[b].start.block
    <3>1. life[a] = "alive"
      <4>1. CASE life[a] # "alive"
        <5> PICK cap : cap = buffer[a].capacity
          OBVIOUS
        <5>1. buffer[a] = Members(NoBlock, 0, 0, cap)
          BY <1>1, <4>1 DEF BufferInv, Sound
        <5>2. buffer[a].start = Null
          BY <5>1, MembersAre DEF Null
        <5> QED
          BY <2>3, <5>2
      <4> QED
        BY <4>1
    <3>2. BlockOf(a) # NoBlock
      BY <1>1, <3>1, OfObject
    <3> QED
      BY <1>1, <2>3, <3>2 DEF BufferInv, Owned, BlockOf
  <2> QED
    BY <2>1, <2>2, <2>3 DEF BuffersApart
<1> QED
  BY <1>1, BufferInductiveInvariant, PTL

LEMMA BufferTypesFollow ==
    ASSUME BufferInv
    PROVE  BufferTypeOK
<1>1. ASSUME NEW b \in Buffers
      PROVE  /\ buffer[b].start.block \in Blocks \cup {NoBlock}
             /\ buffer[b].capacity \in Nat
             /\ nread[b] \in 0 .. Len(data[b])
             /\ Len(data[b]) <= MaxData
  <2>1. /\ buffer[b].capacity \in Nat /\ nread[b] \in 0 .. Len(data[b])
        /\ Len(data[b]) <= MaxData
    BY DEF BufferInv, Sound
  <2>2. BlockOf(b) # NoBlock => BlockOf(b) \in Blocks
    BY DEF BufferInv, Owned
  <2> QED
    BY <2>1, <2>2 DEF BlockOf
<1> QED
  BY <1>1 DEF BufferInv, Owned, BufferTypeOK

(***************************************************************************)
(* For any number of buffers the members of a buffer have their types, and *)
(* nothing is read beyond what was put (BasicBuffer, Buffer.h:15-181).     *)
(***************************************************************************)
THEOREM BuffersTyped == BufferSpec => []BufferTypeOK
  BY BufferTypesFollow, BufferInductiveInvariant, PTL

-----------------------------------------------------------------------------
(* The configuration parser: the places that have been read.               *)

ConfigLines == [path : ConfFiles, line : Nat]

ConfigTypes ==
    /\ content \in [ConfFiles -> Seq(Lines)]
    /\ frames \in Seq(ConfigLines)
    /\ Len(frames) <= MaxDepth
    /\ DOMAIN dic \subseteq ConfKeys
    /\ \A k \in DOMAIN dic : dic[k] \in ConfValues
    /\ verdict \in {"parsing", "parsed", "failed"}

\* Every open file but the outermost has been imported by the line read last
\* of the one around it.
StackInv ==
    /\ frames # <<>> => frames[1].path = Root
    /\ \A i \in DOMAIN frames : frames[i].line <= Len(content[frames[i].path])
    /\ \A i \in 1 .. Len(frames) - 1 :
          /\ frames[i].line > 0
          /\ LineAt(frames[i]) = Import(frames[i + 1].path)
          /\ frames[i + 1].path # frames[i].path

\* The places the open files are not yet ahead of have been read: none of
\* them stops the parser, and what they assign has a value.
ReadInv ==
    \A p \in Places : ~Precedes(frames, p) =>
        /\ Readable(p)
        /\ \A k \in ConfKeys, v \in ConfValues :
              LineOf(p) = Assign(k, v) => k \in DOMAIN dic

DicInv == \A k \in DOMAIN dic : IsFirst(k, dic[k])

\* A call of parse_conf is under way while the process parses, none is when it
\* has parsed, and a CHECK fails at a line that cannot be read.
VerdictInv ==
    /\ verdict = "parsing" => frames # <<>>
    /\ verdict = "parsed" => frames = <<>>
    /\ verdict = "failed" => \E p \in Places : ~Readable(p)

ConfigInv == ConfigTypes /\ StackInv /\ ReadInv /\ DicInv /\ VerdictInv

LEMMA LinesDiffer ==
    /\ Skipped # Malformed
    /\ \A path : /\ Import(path) # Skipped /\ Import(path) # Malformed
                 /\ \A other : Import(path) = Import(other) => path = other
    /\ \A k, v : /\ Assign(k, v) # Skipped /\ Assign(k, v) # Malformed
                 /\ \A path : Assign(k, v) # Import(path)
                 /\ \A l, u : Assign(k, v) = Assign(l, u) => k = l /\ v = u
<1>1. Skipped.kind = "skip" /\ Malformed.kind = "malformed"
  BY DEF Skipped, Malformed
<1>2. \A path : Import(path).kind = "import" /\ Import(path).path = path
  BY DEF Import
<1>3. \A k, v : Assign(k, v).kind = "set" /\ Assign(k, v).key = k /\ Assign(k, v).value = v
  BY DEF Assign
<1>4. Skipped # Malformed
  BY <1>1
<1>5. \A path : /\ Import(path) # Skipped /\ Import(path) # Malformed
                /\ \A other : Import(path) = Import(other) => path = other
  BY <1>1, <1>2
<1>6. \A k, v : /\ Assign(k, v) # Skipped /\ Assign(k, v) # Malformed
                /\ \A path : Assign(k, v) # Import(path)
  BY <1>1, <1>2, <1>3
<1>7. \A k, v, l, u : Assign(k, v) = Assign(l, u) => k = l /\ v = u
  BY <1>3
<1> QED
  BY <1>4, <1>5, <1>6, <1>7

\* An entry is a line of a file.
LEMMA EntryTyped ==
    ASSUME ConfigTypes, NEW e
    PROVE  e \in Entries <=> /\ e \in ConfigLines
                             /\ e.line > 0
                             /\ e.line <= Len(content[e.path])
<1>1. \A f \in ConfFiles : /\ DOMAIN content[f] = 1 .. Len(content[f])
                           /\ Len(content[f]) \in Nat
  BY LenProperties DEF ConfigTypes
<1>2. e \in Entries <=>
        \E f \in ConfFiles : \E n \in 1 .. Len(content[f]) : e = [path |-> f, line |-> n]
  BY <1>1 DEF Entries
<1>3. ASSUME e \in Entries
      PROVE  e \in ConfigLines /\ e.line > 0 /\ e.line <= Len(content[e.path])
  BY <1>1, <1>2, <1>3 DEF ConfigLines
<1>4. ASSUME e \in ConfigLines, e.line > 0, e.line <= Len(content[e.path])
      PROVE  e \in Entries
  <2>1. e.path \in ConfFiles /\ e.line \in 1 .. Len(content[e.path])
    BY <1>1, <1>4 DEF ConfigLines
  <2>2. e = [path |-> e.path, line |-> e.line]
    BY <1>4 DEF ConfigLines
  <2> QED
    BY <1>2, <2>1, <2>2
<1> QED
  BY <1>3, <1>4

LEMMA PlaceTyped ==
    ASSUME ConfigTypes, NEW p \in Places
    PROVE  /\ Len(p) \in 1 .. MaxDepth /\ DOMAIN p = 1 .. Len(p)
           /\ \A i \in 1 .. Len(p) : /\ p[i] \in ConfigLines
                                     /\ p[i].line \in Nat /\ p[i].line > 0
                                     /\ p[i].line <= Len(content[p[i].path])
           /\ IsPlace(p)
<1>1. PICK n \in 1 .. MaxDepth : p \in [1 .. n -> Entries]
  BY DEF Places
<1>2. n \in Nat /\ MaxDepth \in Nat
  BY ConfigAssumption
<1>3. p \in Seq(Entries)
  BY <1>1, <1>2, SeqDef
<1>4. Len(p) \in Nat /\ DOMAIN p = 1 .. Len(p)
  BY <1>3, LenProperties
<1>5. Len(p) = n
  BY <1>1, <1>2, <1>4
<1>6. \A i \in 1 .. Len(p) : p[i] \in Entries
  BY <1>1, <1>5
<1>7. \A i \in 1 .. Len(p) : /\ p[i] \in ConfigLines
                             /\ p[i].line > 0 /\ p[i].line <= Len(content[p[i].path])
  BY <1>6, EntryTyped
<1>8. IsPlace(p)
  BY DEF Places
<1> QED
  BY <1>1, <1>4, <1>5, <1>7, <1>8 DEF ConfigLines

\* The innermost call, in the terms of the sequence.
LEMMA InnermostCall ==
    ASSUME ConfigTypes, frames # <<>>
    PROVE  /\ Len(frames) \in Nat /\ Len(frames) > 0 /\ DOMAIN frames = 1 .. Len(frames)
           /\ \A i \in 1 .. Len(frames) : frames[i] \in ConfigLines /\ frames[i].line \in Nat
           /\ Current = frames[Len(frames)]
<1>1. frames \in Seq(ConfigLines)
  BY DEF ConfigTypes
<1>2. Len(frames) \in Nat /\ Len(frames) # 0 /\ DOMAIN frames = 1 .. Len(frames)
  BY <1>1, EmptySeq, LenProperties
<1>3. \A i \in 1 .. Len(frames) : frames[i] \in ConfigLines
  BY <1>1, ElementOfSeq
<1> QED
  BY <1>2, <1>3 DEF Current, Last, ConfigLines

\* A place that agrees with the open files but for its last line is in the
\* innermost of them.
LEMMA SameFile ==
    ASSUME ConfigTypes, StackInv, frames # <<>>, NEW s \in Places,
           Len(frames) <= Len(s),
           \A j \in 1 .. Len(frames) - 1 : s[j] = frames[j]
    PROVE  s[Len(frames)].path = frames[Len(frames)].path
<1>1. Len(frames) \in Nat /\ Len(frames) > 0
  BY InnermostCall
<1>2. Len(s) \in Nat /\ IsPlace(s)
  BY PlaceTyped, ConfigAssumption
<1>3. CASE Len(frames) = 1
  BY <1>2, <1>3 DEF IsPlace, StackInv
<1>4. CASE Len(frames) # 1
  <2> PICK i : i = Len(frames) - 1
    OBVIOUS
  <2>1. i \in 1 .. Len(frames) - 1 /\ i \in 1 .. Len(s) - 1 /\ i + 1 = Len(frames)
    BY <1>1, <1>2, <1>4
  <2>2. LineAt(s[i]) = Import(s[i + 1].path) /\ LineAt(frames[i]) = Import(frames[i + 1].path)
    BY <1>2, <2>1 DEF IsPlace, StackInv
  <2>3. s[i] = frames[i]
    BY <2>1
  <2> QED
    BY <2>1, <2>2, <2>3, LinesDiffer
<1> QED
  BY <1>3, <1>4

\* The line getline returns, with the lines that import its file, is a place.
LEMMA LineIsRead ==
    ASSUME ConfigTypes, StackInv, frames # <<>>, ~AtEnd
    PROVE  /\ LineRead \in Seq(ConfigLines) /\ LineRead \in Places
           /\ Len(LineRead) = Len(frames) /\ LineRead # <<>>
           /\ \A i \in 1 .. Len(frames) - 1 : LineRead[i] = frames[i]
           /\ LineRead[Len(frames)].path = frames[Len(frames)].path
           /\ LineRead[Len(frames)].line = frames[Len(frames)].line + 1
           /\ LineRead[Len(frames)] \in ConfigLines
           /\ LineRead[Len(frames)].line <= Len(content[frames[Len(frames)].path])
           /\ LineOf(LineRead) = NextLine
<1> PICK n, top : n = Len(frames) /\ top = frames[Len(frames)]
  OBVIOUS
<1>1. /\ n \in Nat /\ n > 0 /\ DOMAIN frames = 1 .. n /\ n \in 1 .. n
      /\ \A i \in 1 .. n : frames[i] \in ConfigLines /\ frames[i].line \in Nat
      /\ Current = top
  BY InnermostCall
<1>2. top \in ConfigLines /\ top.line \in Nat /\ top.path \in ConfFiles
  BY <1>1 DEF ConfigLines
<1> PICK read : read = [top EXCEPT !.line = @ + 1]
  OBVIOUS
<1>3. read \in ConfigLines /\ read.path = top.path /\ read.line = top.line + 1
  BY <1>2 DEF ConfigLines
<1>4. LineRead = [frames EXCEPT ![n] = read]
  BY DEF LineRead
<1>5. LineRead \in Seq(ConfigLines) /\ Len(LineRead) = n
  BY <1>1, <1>3, <1>4, ExceptSeq DEF ConfigTypes
<1>6. LineRead # <<>>
  BY <1>1, <1>5, EmptySeq
<1>7. /\ LineRead[n] = read
      /\ \A i \in 1 .. n - 1 : LineRead[i] = frames[i]
  BY <1>1, <1>4
<1>8. read.line <= Len(content[top.path]) /\ Len(content[top.path]) \in Nat
  <2>1. Len(content[top.path]) \in Nat
    BY <1>2, LenProperties DEF ConfigTypes
  <2>2. top.line <= Len(content[top.path])
    BY <1>1 DEF StackInv
  <2>3. top.line # Len(content[top.path])
    BY <1>1 DEF AtEnd
  <2> QED
    BY <1>2, <1>3, <2>1, <2>2, <2>3
<1>9. LineRead \in [1 .. n -> Entries]
  <2>1. read \in Entries
    <3>1. read.line > 0 /\ read.line <= Len(content[read.path])
      BY <1>2, <1>3, <1>8
    <3> QED
      BY <1>3, <3>1, EntryTyped
  <2>2. ASSUME NEW i \in 1 .. n - 1 PROVE frames[i] \in Entries
    BY <1>1, <2>2, EntryTyped DEF StackInv
  <2>3. \A i \in 1 .. n : LineRead[i] \in Entries
    BY <1>1, <1>7, <2>1, <2>2
  <2>4. DOMAIN LineRead = 1 .. n /\ LineRead = [i \in 1 .. n |-> LineRead[i]]
    BY <1>1, <1>4
  <2> QED
    BY <2>3, <2>4
<1>10. IsPlace(LineRead)
  <2>1. LineRead[1].path = Root
    <3>1. frames[1].path = Root
      BY DEF StackInv
    <3>2. CASE n = 1
      BY <1>3, <1>7, <3>1, <3>2
    <3>3. CASE n # 1
      BY <1>1, <1>7, <3>1, <3>3
    <3> QED
      BY <3>2, <3>3
  <2>2. ASSUME NEW i \in 1 .. n - 1
        PROVE  /\ LineAt(LineRead[i]) = Import(LineRead[i + 1].path)
               /\ LineRead[i + 1].path # LineRead[i].path
    <3>1. LineAt(frames[i]) = Import(frames[i + 1].path) /\ frames[i + 1].path # frames[i].path
      BY DEF StackInv
    <3>2. LineRead[i] = frames[i]
      BY <1>7
    <3>3. LineRead[i + 1].path = frames[i + 1].path
      <4>1. CASE i + 1 = n
        BY <1>3, <1>7, <4>1
      <4>2. CASE i + 1 # n
        <5>1. i + 1 \in 1 .. n - 1
          BY <1>1, <4>2
        <5> QED
          BY <1>7, <5>1
      <4> QED
        BY <4>1, <4>2
    <3> QED
      BY <3>1, <3>2, <3>3
  <2> QED
    BY <1>5, <2>1, <2>2 DEF IsPlace
<1>11. LineRead \in Places
  <2>1. n \in 1 .. MaxDepth
    BY <1>1, ConfigAssumption DEF ConfigTypes
  <2> QED
    BY <1>9, <1>10, <2>1 DEF Places
<1>12. LineOf(LineRead) = NextLine
  BY <1>1, <1>3, <1>5, <1>7 DEF LineOf, LineAt, NextLine
<1> QED
  BY <1>1, <1>3, <1>5, <1>6, <1>7, <1>8, <1>11, <1>12

\* The only places that are ahead of the open files and not of the line read
\* are that line, and the places in the file it imports.
LEMMA Advance ==
    ASSUME ConfigTypes, StackInv, frames # <<>>, ~AtEnd, NEW s \in Places,
           Precedes(frames, s), ~Precedes(LineRead, s)
    PROVE  /\ Len(frames) <= Len(s)
           /\ \A i \in 1 .. Len(frames) : s[i] = LineRead[i]
           /\ s[Len(frames)].path = Current.path
           /\ LineAt(s[Len(frames)]) = NextLine
           /\ Len(s) > Len(frames) => NextLine = Import(s[Len(frames) + 1].path)
           /\ Len(s) = Len(frames) => LineOf(s) = NextLine
<1> PICK n : n = Len(frames)
  OBVIOUS
<1>1. /\ n \in Nat /\ n > 0 /\ DOMAIN frames = 1 .. n /\ Current = frames[n]
      /\ \A i \in 1 .. n : frames[i] \in ConfigLines /\ frames[i].line \in Nat
  BY InnermostCall
<1>2. /\ Len(LineRead) = n /\ LineRead \in Places
      /\ \A i \in 1 .. n - 1 : LineRead[i] = frames[i]
      /\ LineRead[n].path = frames[n].path /\ LineRead[n].line = frames[n].line + 1
      /\ LineRead[n] \in ConfigLines
      /\ LineOf(LineRead) = NextLine
  BY LineIsRead
<1>3. DOMAIN LineRead = 1 .. n
  BY <1>2, PlaceTyped
<1>4. /\ Len(s) \in Nat /\ DOMAIN s = 1 .. Len(s) /\ IsPlace(s)
      /\ \A i \in 1 .. Len(s) : s[i] \in ConfigLines /\ s[i].line \in Nat
  BY PlaceTyped, ConfigAssumption
<1>5. PICK i \in DOMAIN frames \cap DOMAIN s :
         (\A j \in 1 .. i - 1 : frames[j] = s[j]) /\ frames[i].line < s[i].line
  BY DEF Precedes
<1>6. i \in 1 .. n /\ i \in 1 .. Len(s)
  BY <1>1, <1>4, <1>5
<1>7. i = n
  <2>1. SUFFICES ASSUME i # n PROVE FALSE
    OBVIOUS
  <2>2. i \in 1 .. n - 1 /\ \A j \in 1 .. i - 1 : j \in 1 .. n - 1
    BY <1>1, <1>6, <2>1
  <2>3. LineRead[i] = frames[i] /\ \A j \in 1 .. i - 1 : LineRead[j] = s[j]
    BY <1>2, <1>5, <2>2
  <2> QED
    BY <1>3, <1>5, <1>6, <2>3 DEF Precedes
<1>8. \A j \in 1 .. n - 1 : s[j] = frames[j] /\ s[j] = LineRead[j]
  BY <1>2, <1>5, <1>7
<1>9. s[n].line = LineRead[n].line
  <2>1. ~(LineRead[n].line < s[n].line)
    BY <1>3, <1>6, <1>7, <1>8 DEF Precedes
  <2> QED
    BY <1>1, <1>2, <1>4, <1>5, <1>6, <1>7, <2>1
<1>10. n <= Len(s)
  BY <1>4, <1>6, <1>7
<1>11. s[n].path = frames[n].path
  BY <1>8, <1>10, SameFile
<1>12. s[n] = LineRead[n]
  <2>1. s[n] \in ConfigLines /\ LineRead[n] \in ConfigLines
    BY <1>2, <1>4, <1>6, <1>7
  <2> QED
    BY <1>2, <1>9, <1>11, <2>1 DEF ConfigLines
<1>13. LineAt(s[n]) = NextLine
  BY <1>2, <1>12 DEF LineOf
<1>14. Len(s) > n => NextLine = Import(s[n + 1].path)
  <2>1. Len(s) > n => n \in 1 .. Len(s) - 1
    BY <1>1, <1>4
  <2> QED
    BY <1>4, <1>13, <2>1 DEF IsPlace
<1> QED
  BY <1>1, <1>8, <1>10, <1>11, <1>12, <1>13, <1>14 DEF LineOf

\* What the files say changes only with the files.
LEMMA SamePlaces ==
    ASSUME content' = content
    PROVE  /\ Places' = Places
           /\ \A e : LineAt(e)' = LineAt(e)
           /\ \A p : LineOf(p)' = LineOf(p) /\ (Readable(p)' <=> Readable(p))
           /\ \A k, v : IsFirst(k, v)' <=> IsFirst(k, v)
<1>1. \A e : LineAt(e)' = LineAt(e)
  BY DEF LineAt
<1>2. \A p : LineOf(p)' = LineOf(p)
  BY DEF LineOf, LineAt
<1>3. Entries' = Entries
  BY DEF Entries
<1>4. \A p : IsPlace(p)' <=> IsPlace(p)
  BY DEF IsPlace, LineAt
<1>5. Places' = Places
  BY <1>3, <1>4 DEF Places
<1>6. \A p : Readable(p)' <=> Readable(p)
  BY <1>2 DEF Readable
<1>7. \A k, v : IsFirst(k, v)' <=> IsFirst(k, v)
  BY <1>2, <1>5 DEF IsFirst
<1> QED
  BY <1>1, <1>2, <1>5, <1>6, <1>7

LEMMA ConfigInitially == ConfigInit => ConfigInv
<1> SUFFICES ASSUME ConfigInit PROVE ConfigInv
  OBVIOUS
<1>1. content \in [ConfFiles -> Seq(Lines)]
  <2>1. \A n \in 0 .. MaxLines : [1 .. n -> Lines] \subseteq Seq(Lines)
    <3>1. \A n \in 0 .. MaxLines : n \in Nat
      BY ConfigAssumption
    <3> QED
      BY <3>1, SeqDef
  <2>2. UNION {[1 .. n -> Lines] : n \in 0 .. MaxLines} \subseteq Seq(Lines)
    BY <2>1
  <2> QED
    BY <2>2 DEF ConfigInit
<1>2. Frame(Root) \in ConfigLines /\ Frame(Root).line = 0 /\ Frame(Root).path = Root
  BY ConfigAssumption DEF Frame, ConfigLines
<1>3. /\ frames \in Seq(ConfigLines) /\ Len(frames) = 1 /\ frames # <<>>
      /\ frames[1] = Frame(Root) /\ DOMAIN frames = 1 .. 1
  BY <1>2 DEF ConfigInit
<1>4. ConfigTypes
  BY <1>1, <1>3, ConfigAssumption DEF ConfigInit, ConfigTypes
<1>5. StackInv
  <2>1. Len(content[Root]) \in Nat
    BY <1>1, ConfigAssumption, LenProperties
  <2> QED
    BY <1>2, <1>3, <2>1 DEF StackInv
<1>6. ReadInv
  <2>1. ASSUME NEW p \in Places PROVE Precedes(frames, p)
    <3>1. Len(p) \in 1 .. MaxDepth /\ DOMAIN p = 1 .. Len(p)
      BY <1>4, PlaceTyped
    <3>2. 1 \in 1 .. Len(p)
      BY <3>1, ConfigAssumption
    <3>3. p[1].line > 0 /\ 1 \in DOMAIN p
      BY <1>4, <3>1, <3>2, PlaceTyped
    <3>4. frames[1].line = 0 /\ 1 \in DOMAIN frames
      BY <1>2, <1>3
    <3>5. \A j \in 1 .. 1 - 1 : frames[j] = p[j]
      OBVIOUS
    <3>6. frames[1].line < p[1].line
      BY <1>4, <3>2, <3>3, <3>4, PlaceTyped
    <3> QED
      BY <3>3, <3>4, <3>5, <3>6 DEF Precedes
  <2> QED
    BY <2>1 DEF ReadInv
<1>7. DicInv /\ VerdictInv
  BY <1>3 DEF ConfigInit, DicInv, VerdictInv
<1> QED
  BY <1>4, <1>5, <1>6, <1>7 DEF ConfigInv

\* A line that opens no file.
LEMMA NextLineStack ==
    ASSUME ConfigTypes, StackInv, frames # <<>>, ~AtEnd,
           frames' = LineRead, content' = content
    PROVE  StackInv'
<1> PICK n : n = Len(frames)
  OBVIOUS
<1>1. /\ n \in Nat /\ n > 0 /\ DOMAIN frames = 1 .. n
      /\ \A i \in 1 .. n : frames[i] \in ConfigLines
  BY InnermostCall
<1>2. /\ Len(LineRead) = n /\ LineRead \in Places
      /\ \A i \in 1 .. n - 1 : LineRead[i] = frames[i]
      /\ LineRead[n].path = frames[n].path
      /\ LineRead[n].line <= Len(content[frames[n].path])
  BY LineIsRead
<1>3. /\ DOMAIN LineRead = 1 .. n /\ IsPlace(LineRead)
      /\ \A i \in 1 .. n : /\ LineRead[i].line > 0
                           /\ LineRead[i].line <= Len(content[LineRead[i].path])
  BY <1>2, PlaceTyped
<1>4. LineRead[1].path = Root
  BY <1>3 DEF IsPlace
<1>5. \A i \in 1 .. n - 1 : /\ LineAt(LineRead[i]) = Import(LineRead[i + 1].path)
                            /\ LineRead[i + 1].path # LineRead[i].path
  BY <1>2, <1>3 DEF IsPlace
<1>6. \A i \in 1 .. n - 1 : i \in 1 .. n
  BY <1>1
<1> QED
  BY <1>2, <1>3, <1>4, <1>5, <1>6, SamePlaces DEF StackInv

LEMMA SkipStep ==
    ASSUME ConfigInv, verdict = "parsing", ~AtEnd, SkipLine
    PROVE  ConfigInv'
<1>1. /\ frames # <<>> /\ ConfigTypes /\ StackInv
      /\ frames' = LineRead /\ content' = content /\ dic' = dic /\ verdict' = verdict
      /\ NextLine = Skipped
  BY DEF ConfigInv, VerdictInv, SkipLine
<1>2. ConfigTypes' /\ LineRead # <<>>
  BY <1>1, LineIsRead DEF ConfigTypes
<1>3. StackInv'
  BY <1>1, NextLineStack
<1>4. ReadInv'
  <2>1. ASSUME NEW s \in Places, ~Precedes(LineRead, s)
        PROVE  /\ Readable(s)
               /\ \A k \in ConfKeys, v \in ConfValues :
                     LineOf(s) = Assign(k, v) => k \in DOMAIN dic
    <3>1. CASE ~Precedes(frames, s)
      BY <3>1 DEF ConfigInv, ReadInv
    <3>2. CASE Precedes(frames, s)
      <4>1. LineOf(s) = Skipped
        <5>1. /\ Len(frames) <= Len(s)
              /\ Len(s) > Len(frames) => NextLine = Import(s[Len(frames) + 1].path)
              /\ Len(s) = Len(frames) => LineOf(s) = NextLine
          BY <1>1, <2>1, <3>2, Advance
        <5>2. ~(Len(s) > Len(frames))
          BY <1>1, <5>1, LinesDiffer
        <5>3. Len(s) \in Nat /\ Len(frames) \in Nat
          BY <1>1, InnermostCall, PlaceTyped, ConfigAssumption
        <5> QED
          BY <1>1, <5>1, <5>2, <5>3
      <4> QED
        BY <4>1, LinesDiffer DEF Readable
    <3> QED
      BY <3>1, <3>2
  <2> QED
    BY <1>1, <2>1, SamePlaces DEF ReadInv
<1>5. DicInv' /\ VerdictInv'
  BY <1>1, <1>2, SamePlaces DEF ConfigInv, DicInv, VerdictInv
<1> QED
  BY <1>2, <1>3, <1>4, <1>5 DEF ConfigInv

\* What comes before the line that is read has been read.
LEMMA BeforeIsRead ==
    ASSUME ConfigTypes, StackInv, frames # <<>>, ~AtEnd, NEW q \in Places,
           Precedes(q, LineRead)
    PROVE  ~Precedes(frames, q)
<1> PICK n : n = Len(frames)
  OBVIOUS
<1>1. /\ n \in Nat /\ n > 0 /\ DOMAIN frames = 1 .. n
      /\ \A i \in 1 .. n : frames[i].line \in Nat
  BY InnermostCall
<1>2. /\ Len(LineRead) = n /\ LineRead \in Places
      /\ \A i \in 1 .. n - 1 : LineRead[i] = frames[i]
      /\ LineRead[n].line = frames[n].line + 1
  BY LineIsRead
<1>3. /\ DOMAIN q = 1 .. Len(q) /\ Len(q) \in Nat
      /\ \A i \in 1 .. Len(q) : q[i].line \in Nat
  BY PlaceTyped, ConfigAssumption
<1>4. DOMAIN LineRead = 1 .. n
  BY <1>2, PlaceTyped
<1>5. PICK i \in DOMAIN q \cap DOMAIN LineRead :
         (\A j \in 1 .. i - 1 : q[j] = LineRead[j]) /\ q[i].line < LineRead[i].line
  BY DEF Precedes
<1>6. i \in 1 .. n /\ i \in 1 .. Len(q)
  BY <1>3, <1>4, <1>5
<1>7. SUFFICES ASSUME NEW m \in DOMAIN frames \cap DOMAIN q,
                      \A j \in 1 .. m - 1 : frames[j] = q[j],
                      frames[m].line < q[m].line
               PROVE  FALSE
  BY DEF Precedes
<1>8. m \in 1 .. n /\ m \in 1 .. Len(q)
  BY <1>1, <1>3
<1>9. CASE i < m
  <2>1. i \in 1 .. m - 1 /\ i \in 1 .. n - 1
    BY <1>1, <1>6, <1>8, <1>9
  <2>2. q[i] = frames[i] /\ LineRead[i] = frames[i]
    BY <1>2, <1>7, <2>1
  <2> QED
    BY <1>1, <1>5, <1>6, <2>2
<1>10. CASE m < i
  <2>1. m \in 1 .. i - 1 /\ m \in 1 .. n - 1
    BY <1>1, <1>6, <1>8, <1>10
  <2>2. q[m] = frames[m]
    BY <1>2, <1>5, <2>1
  <2> QED
    BY <1>1, <1>7, <1>8, <2>2
<1>11. CASE i = m
  <2>1. CASE i = n
    BY <1>1, <1>2, <1>3, <1>5, <1>6, <1>7, <1>11, <2>1
  <2>2. CASE i # n
    <3>1. i \in 1 .. n - 1
      BY <1>1, <1>6, <2>2
    <3> QED
      BY <1>1, <1>2, <1>3, <1>5, <1>6, <1>7, <1>11, <3>1
  <2> QED
    BY <2>1, <2>2
<1> QED
  BY <1>1, <1>6, <1>8, <1>9, <1>10, <1>11

LEMMA AssignStep ==
    ASSUME ConfigInv, verdict = "parsing", ~AtEnd,
           NEW k \in ConfKeys, NEW v \in ConfValues, AssignKey(k, v)
    PROVE  ConfigInv'
<1>1. /\ frames # <<>> /\ ConfigTypes /\ StackInv
      /\ frames' = LineRead /\ content' = content /\ verdict' = verdict
      /\ NextLine = Assign(k, v)
  BY DEF ConfigInv, VerdictInv, AssignKey
<1>2. /\ DOMAIN dic' = DOMAIN dic \cup {k}
      /\ \A x \in DOMAIN dic : dic'[x] = dic[x]
      /\ k \notin DOMAIN dic => dic'[k] = v
  BY DEF AssignKey, SetConfig
<1>3. ConfigTypes' /\ LineRead # <<>>
  <2>1. \A x \in DOMAIN dic' : dic'[x] \in ConfValues
    BY <1>1, <1>2 DEF ConfigTypes
  <2> QED
    BY <1>1, <1>2, <2>1, LineIsRead DEF ConfigTypes
<1>4. StackInv'
  BY <1>1, NextLineStack
<1>5. ReadInv'
  <2>1. ASSUME NEW s \in Places, ~Precedes(LineRead, s)
        PROVE  /\ Readable(s)
               /\ \A l \in ConfKeys, u \in ConfValues :
                     LineOf(s) = Assign(l, u) => l \in DOMAIN dic'
    <3>1. CASE ~Precedes(frames, s)
      BY <1>2, <3>1 DEF ConfigInv, ReadInv
    <3>2. CASE Precedes(frames, s)
      <4>1. LineOf(s) = Assign(k, v)
        <5>1. /\ Len(frames) <= Len(s)
              /\ Len(s) > Len(frames) => NextLine = Import(s[Len(frames) + 1].path)
              /\ Len(s) = Len(frames) => LineOf(s) = NextLine
          BY <1>1, <2>1, <3>2, Advance
        <5>2. ~(Len(s) > Len(frames))
          BY <1>1, <5>1, LinesDiffer
        <5>3. Len(s) \in Nat /\ Len(frames) \in Nat
          BY <1>1, InnermostCall, PlaceTyped, ConfigAssumption
        <5> QED
          BY <1>1, <5>1, <5>2, <5>3
      <4>2. Readable(s)
        BY <4>1, LinesDiffer DEF Readable
      <4>3. \A l, u : LineOf(s) = Assign(l, u) => l = k
        BY <4>1, LinesDiffer
      <4> QED
        BY <1>2, <4>2, <4>3
    <3> QED
      BY <3>1, <3>2
  <2> QED
    BY <1>1, <2>1, SamePlaces DEF ReadInv
<1>6. DicInv'
  <2>1. ASSUME k \notin DOMAIN dic PROVE IsFirst(k, v)
    <3>1. LineRead \in Places /\ LineOf(LineRead) = Assign(k, v)
      BY <1>1, LineIsRead
    <3>2. ASSUME NEW q \in Places, NEW u \in ConfValues, LineOf(q) = Assign(k, u)
          PROVE  ~Precedes(q, LineRead)
      <4>1. Precedes(q, LineRead) => ~Precedes(frames, q)
        BY <1>1, BeforeIsRead
      <4>2. Precedes(frames, q)
        BY <2>1, <3>2 DEF ConfigInv, ReadInv
      <4> QED
        BY <4>1, <4>2
    <3> QED
      BY <3>1, <3>2 DEF IsFirst
  <2>2. \A x \in DOMAIN dic' : IsFirst(x, dic'[x])
    BY <1>2, <2>1 DEF ConfigInv, DicInv
  <2> QED
    BY <1>1, <2>2, SamePlaces DEF DicInv
<1>7. VerdictInv'
  BY <1>1, <1>3, SamePlaces DEF ConfigInv, VerdictInv
<1> QED
  BY <1>3, <1>4, <1>5, <1>6, <1>7 DEF ConfigInv

\* A CHECK fails at the line read.
LEMMA FailStep ==
    ASSUME ConfigInv, verdict = "parsing", ~AtEnd,
           verdict' = "failed", UNCHANGED <<content, frames, dic>>,
           ~Readable(LineRead)
    PROVE  ConfigInv'
<1>1. LineRead \in Places
  BY LineIsRead DEF ConfigInv, VerdictInv
<1>2. ConfigTypes' /\ VerdictInv'
  BY <1>1, SamePlaces DEF ConfigInv, ConfigTypes, VerdictInv
<1>3. StackInv' /\ ReadInv' /\ DicInv'
  BY SamePlaces DEF ConfigInv, StackInv, ReadInv, DicInv
<1> QED
  BY <1>2, <1>3 DEF ConfigInv

LEMMA ImportStep ==
    ASSUME ConfigInv, verdict = "parsing", ~AtEnd,
           NEW path \in Paths, NextLine = Import(path),
           path # Current.path, CanOpen(path),
           frames' = Append(LineRead, Frame(path)),
           UNCHANGED <<content, dic, verdict>>
    PROVE  ConfigInv'
<1> PICK n : n = Len(frames)
  OBVIOUS
<1>1. frames # <<>> /\ ConfigTypes /\ StackInv
  BY DEF ConfigInv, VerdictInv
<1>2. /\ n \in Nat /\ n > 0 /\ DOMAIN frames = 1 .. n /\ Current = frames[n]
      /\ \A i \in 1 .. n : frames[i] \in ConfigLines
  BY <1>1, InnermostCall
<1>3. /\ LineRead \in Seq(ConfigLines) /\ Len(LineRead) = n /\ LineRead \in Places
      /\ LineRead[n].path = frames[n].path
      /\ LineOf(LineRead) = NextLine
  BY <1>1, LineIsRead
<1>4. /\ DOMAIN LineRead = 1 .. n /\ IsPlace(LineRead)
      /\ \A i \in 1 .. n : /\ LineRead[i].line > 0
                           /\ LineRead[i].line <= Len(content[LineRead[i].path])
  BY <1>1, <1>3, PlaceTyped
<1>5. /\ Frame(path) \in ConfigLines /\ path \in ConfFiles
      /\ Frame(path).path = path /\ Frame(path).line = 0
  BY DEF CanOpen, Frame, ConfigLines
<1>6. /\ frames' \in Seq(ConfigLines) /\ Len(frames') = n + 1
      /\ \A i \in 1 .. n : frames'[i] = LineRead[i]
      /\ frames'[n + 1] = Frame(path)
  BY <1>3, <1>5, AppendProperties
<1>7. n < MaxDepth /\ MaxDepth \in Nat
  BY ConfigAssumption DEF CanOpen
<1>8. frames' # <<>> /\ DOMAIN frames' = 1 .. n + 1
  BY <1>2, <1>6, EmptySeq, LenProperties
<1>9. ConfigTypes'
  BY <1>1, <1>2, <1>6, <1>7 DEF ConfigTypes
<1>10. StackInv'
  <2>1. frames'[1].path = Root
    <3>1. LineRead[1].path = Root /\ 1 \in 1 .. n
      BY <1>2, <1>4 DEF IsPlace
    <3> QED
      BY <1>6, <3>1
  <2>2. ASSUME NEW i \in 1 .. n + 1 PROVE frames'[i].line <= Len(content[frames'[i].path])
    <3>1. CASE i \in 1 .. n
      BY <1>4, <1>6, <3>1
    <3>2. CASE i \notin 1 .. n
      <4>1. i = n + 1
        BY <1>2, <3>2
      <4>2. Len(content[path]) \in Nat
        BY <1>1, <1>5, LenProperties DEF ConfigTypes
      <4> QED
        BY <1>5, <1>6, <4>1, <4>2
    <3> QED
      BY <3>1, <3>2
  <2>3. ASSUME NEW i \in 1 .. (n + 1) - 1
        PROVE  /\ frames'[i].line > 0
               /\ LineAt(frames'[i]) = Import(frames'[i + 1].path)
               /\ frames'[i + 1].path # frames'[i].path
    <3>1. i \in 1 .. n /\ frames'[i] = LineRead[i]
      BY <1>2, <1>6
    <3>2. CASE i = n
      <4>1. LineAt(LineRead[n]) = Import(path)
        BY <1>3 DEF LineOf
      <4> QED
        BY <1>2, <1>3, <1>4, <1>5, <1>6, <3>1, <3>2, <4>1
    <3>3. CASE i # n
      <4>1. i \in 1 .. n - 1 /\ i + 1 \in 1 .. n
        BY <1>2, <3>1, <3>3
      <4>2. /\ LineAt(LineRead[i]) = Import(LineRead[i + 1].path)
            /\ LineRead[i + 1].path # LineRead[i].path
        BY <1>3, <1>4, <4>1 DEF IsPlace
      <4> QED
        BY <1>4, <1>6, <3>1, <4>1, <4>2
    <3> QED
      BY <3>2, <3>3
  <2> QED
    BY <1>6, <1>8, <2>1, <2>2, <2>3, SamePlaces DEF StackInv
<1>11. ReadInv'
  <2>1. ASSUME NEW s \in Places, ~Precedes(frames', s)
        PROVE  /\ Readable(s)
               /\ \A k \in ConfKeys, v \in ConfValues :
                     LineOf(s) = Assign(k, v) => k \in DOMAIN dic
    <3>0. /\ DOMAIN s = 1 .. Len(s) /\ Len(s) \in Nat
          /\ \A i \in 1 .. Len(s) : s[i].line \in Nat /\ s[i].line > 0
      BY <1>1, PlaceTyped, ConfigAssumption
    <3>1. ~Precedes(LineRead, s)
      <4>1. ASSUME NEW i \in DOMAIN LineRead \cap DOMAIN s,
                   \A j \in 1 .. i - 1 : LineRead[j] = s[j],
                   LineRead[i].line < s[i].line
            PROVE  FALSE
        <5>1. i \in DOMAIN frames' \cap DOMAIN s /\ frames'[i] = LineRead[i]
          BY <1>2, <1>4, <1>6, <1>8, <4>1
        <5>2. \A j \in 1 .. i - 1 : frames'[j] = s[j]
          <6>1. \A j \in 1 .. i - 1 : j \in 1 .. n
            BY <1>2, <1>4, <4>1
          <6> QED
            BY <1>6, <4>1, <6>1
        <5> QED
          BY <2>1, <4>1, <5>1, <5>2 DEF Precedes
      <4> QED
        BY <4>1 DEF Precedes
    <3>2. CASE ~Precedes(frames, s)
      BY <3>2 DEF ConfigInv, ReadInv
    <3>3. CASE Precedes(frames, s)
      <4>1. /\ n <= Len(s)
            /\ \A i \in 1 .. n : s[i] = LineRead[i]
            /\ s[n].path = Current.path
            /\ Len(s) = n => LineOf(s) = NextLine
        BY <1>1, <3>1, <3>3, Advance
      <4>2. ~(Len(s) > n)
        <5>1. SUFFICES ASSUME Len(s) > n PROVE FALSE
          OBVIOUS
        <5>2. n + 1 \in 1 .. Len(s)
          BY <1>2, <3>0, <5>1
        <5>3. frames'[n + 1].line < s[n + 1].line
          BY <1>5, <1>6, <3>0, <5>2
        <5>4. \A j \in 1 .. (n + 1) - 1 : frames'[j] = s[j]
          BY <1>2, <1>6, <4>1
        <5>5. n + 1 \in DOMAIN frames' \cap DOMAIN s
          BY <1>2, <1>8, <3>0, <5>2
        <5> QED
          BY <2>1, <5>3, <5>4, <5>5 DEF Precedes
      <4>3. Len(s) = n
        <5>1. n \in Nat /\ Len(s) \in Nat /\ n <= Len(s)
          BY <1>2, <3>0, <4>1
        <5> QED
          BY <4>2, <5>1
      <4>4. LineOf(s) = Import(path)
        BY <4>1, <4>3
      <4>5. Readable(s)
        BY <1>5, <1>7, <4>1, <4>3, <4>4, LinesDiffer DEF Readable
      <4>6. \A k, v : LineOf(s) # Assign(k, v)
        BY <4>4, LinesDiffer
      <4> QED
        BY <4>5, <4>6
    <3> QED
      BY <3>2, <3>3
  <2> QED
    BY <2>1, SamePlaces DEF ReadInv
<1>12. DicInv' /\ VerdictInv'
  BY <1>8, SamePlaces DEF ConfigInv, DicInv, VerdictInv
<1> QED
  BY <1>9, <1>10, <1>11, <1>12 DEF ConfigInv

LEMMA EndStep ==
    ASSUME ConfigInv, EndOfFile
    PROVE  ConfigInv'
<1> PICK n : n = Len(frames)
  OBVIOUS
<1>1. /\ frames # <<>> /\ ConfigTypes /\ StackInv /\ verdict = "parsing" /\ AtEnd
      /\ frames' = Front(frames) /\ content' = content /\ dic' = dic
      /\ verdict' = IF n = 1 THEN "parsed" ELSE verdict
  BY DEF ConfigInv, VerdictInv, EndOfFile
<1>2. /\ n \in Nat /\ n > 0 /\ DOMAIN frames = 1 .. n /\ Current = frames[n]
      /\ \A i \in 1 .. n : frames[i] \in ConfigLines /\ frames[i].line \in Nat
      /\ n <= MaxDepth /\ MaxDepth \in Nat
  BY <1>1, InnermostCall, ConfigAssumption DEF ConfigTypes
<1>3. frames' = SubSeq(frames, 1, n - 1)
  BY <1>1 DEF Front
<1>4. /\ frames' \in Seq(ConfigLines)
      /\ Len(frames') = IF 1 <= n - 1 THEN (n - 1) - 1 + 1 ELSE 0
      /\ \A i \in 1 .. (n - 1) - 1 + 1 : frames'[i] = frames[1 + i - 1]
  <2>1. \A i \in 1 .. n - 1 : frames[i] \in ConfigLines
    BY <1>2
  <2>2. 1 \in Int /\ n - 1 \in Int
    BY <1>2
  <2> QED
    BY <1>3, <2>1, <2>2, SubSeqProperties
<1>5. Len(frames') = n - 1 /\ \A i \in 1 .. n - 1 : frames'[i] = frames[i]
  <2>1. (n - 1) - 1 + 1 = n - 1 /\ \A i \in 1 .. n - 1 : 1 + i - 1 = i
    BY <1>2
  <2> QED
    BY <1>2, <1>4, <2>1
<1>6. DOMAIN frames' = 1 .. n - 1
  BY <1>4, <1>5, LenProperties
<1>7. (frames' = <<>>) <=> (n = 1)
  BY <1>2, <1>4, <1>5, EmptySeq
<1>8. ConfigTypes'
  BY <1>1, <1>2, <1>4, <1>5 DEF ConfigTypes
<1>9. StackInv'
  <2>1. frames' # <<>> => frames'[1].path = Root
    <3>1. frames' # <<>> => 1 \in 1 .. n - 1
      BY <1>2, <1>7
    <3> QED
      BY <1>1, <1>5, <3>1 DEF StackInv
  <2>2. \A i \in 1 .. n - 1 : frames'[i].line <= Len(content[frames'[i].path])
    <3>1. \A i \in 1 .. n - 1 : i \in 1 .. n
      BY <1>2
    <3> QED
      BY <1>1, <1>2, <1>5, <3>1 DEF StackInv
  <2>3. ASSUME NEW i \in 1 .. (n - 1) - 1
        PROVE  /\ frames'[i].line > 0
               /\ LineAt(frames'[i]) = Import(frames'[i + 1].path)
               /\ frames'[i + 1].path # frames'[i].path
    <3>1. i \in 1 .. n - 1 /\ i + 1 \in 1 .. n - 1
      BY <1>2
    <3> QED
      BY <1>1, <1>5, <3>1 DEF StackInv
  <2> QED
    BY <1>1, <1>5, <1>6, <2>1, <2>2, <2>3, SamePlaces DEF StackInv
<1>10. ReadInv'
  <2>1. ASSUME NEW s \in Places, ~Precedes(frames', s), Precedes(frames, s)
        PROVE  FALSE
    <3>1. /\ DOMAIN s = 1 .. Len(s) /\ Len(s) \in Nat
          /\ \A i \in 1 .. Len(s) : /\ s[i] \in ConfigLines /\ s[i].line \in Nat
                                    /\ s[i].line <= Len(content[s[i].path])
      BY <1>1, PlaceTyped, ConfigAssumption
    <3>2. PICK i \in DOMAIN frames \cap DOMAIN s :
             (\A j \in 1 .. i - 1 : frames[j] = s[j]) /\ frames[i].line < s[i].line
      BY <2>1 DEF Precedes
    <3>3. i \in 1 .. n /\ i \in 1 .. Len(s)
      BY <1>2, <3>1, <3>2
    <3>4. i = n
      <4>1. SUFFICES ASSUME i # n PROVE FALSE
        OBVIOUS
      <4>2. i \in 1 .. n - 1 /\ \A j \in 1 .. i - 1 : j \in 1 .. n - 1
        BY <1>2, <3>3, <4>1
      <4>3. frames'[i] = frames[i] /\ \A j \in 1 .. i - 1 : frames'[j] = s[j]
        BY <1>5, <3>2, <4>2
      <4> QED
        BY <1>6, <2>1, <3>2, <4>2, <4>3 DEF Precedes
    <3>5. s[n].path = frames[n].path
      <4>1. n <= Len(s) /\ \A j \in 1 .. n - 1 : s[j] = frames[j]
        BY <1>2, <3>1, <3>2, <3>3, <3>4
      <4> QED
        BY <1>1, <4>1, SameFile
    <3>6. frames[n].line = Len(content[frames[n].path])
      BY <1>1, <1>2 DEF AtEnd
    <3> QED
      BY <1>2, <3>1, <3>2, <3>3, <3>4, <3>5, <3>6
  <2> QED
    BY <1>1, <2>1, SamePlaces DEF ConfigInv, ReadInv
<1>11. DicInv' /\ VerdictInv'
  BY <1>1, <1>7, SamePlaces DEF ConfigInv, DicInv, VerdictInv
<1> QED
  BY <1>8, <1>9, <1>10, <1>11 DEF ConfigInv

LEMMA ConfigStep ==
    ASSUME ConfigInv, [ConfigNext]_configVars
    PROVE  ConfigInv'
<1>1. CASE UNCHANGED configVars
  BY <1>1, SamePlaces DEF configVars, ConfigInv, ConfigTypes, StackInv, ReadInv, DicInv, VerdictInv
<1>2. ASSUME ParseLine PROVE ConfigInv'
  <2>0. /\ verdict = "parsing" /\ ~AtEnd
        /\ frames # <<>> /\ ConfigTypes /\ StackInv
    BY <1>2 DEF ParseLine, ConfigInv, VerdictInv
  <2>1. CASE SkipLine
    BY <2>0, <2>1, SkipStep
  <2>2. CASE FailLine
    <3>1. ~Readable(LineRead)
      BY <2>0, <2>2, LineIsRead DEF FailLine, Readable
    <3> QED
      BY <2>0, <2>2, <3>1, FailStep DEF FailLine
  <2>3. ASSUME NEW path \in Paths, ImportFile(path) PROVE ConfigInv'
    <3>1. CASE path # Current.path /\ CanOpen(path)
      BY <2>0, <2>3, <3>1, ImportStep DEF ImportFile
    <3>2. CASE ~(path # Current.path /\ CanOpen(path))
      <4>1. ~Readable(LineRead)
        <5>1. /\ LineOf(LineRead) = Import(path) /\ Len(LineRead) = Len(frames)
              /\ LineRead[Len(frames)].path = Current.path
          BY <2>0, <2>3, LineIsRead, InnermostCall DEF ImportFile
        <5> QED
          BY <3>2, <5>1 DEF Readable, CanOpen
      <4> QED
        BY <2>0, <2>3, <3>2, <4>1, FailStep DEF ImportFile
    <3> QED
      BY <3>1, <3>2
  <2>4. ASSUME NEW k \in ConfKeys, NEW v \in ConfValues, AssignKey(k, v) PROVE ConfigInv'
    BY <2>0, <2>4, AssignStep
  <2> QED
    BY <1>2, <2>1, <2>2, <2>3, <2>4 DEF ParseLine
<1> QED
  BY <1>1, <1>2, EndStep DEF ConfigNext

(***************************************************************************)
(* Whatever the files say, import and cycle through, the places that the   *)
(* open calls of parse_conf are not ahead of are read, with what they      *)
(* assign in the map, and what the map holds is the first assignment of    *)
(* its key (ConfigParser.h:86-119).                                        *)
(***************************************************************************)
THEOREM ConfigInductiveInvariant == ConfigSpec => []ConfigInv
<1> QED
  BY ConfigInitially, ConfigStep, PTL DEF ConfigSpec

LEMMA ConfigFollows == ConfigInv => ConfigMatchesReference
<1> SUFFICES ASSUME ConfigInv PROVE ConfigMatchesReference
  OBVIOUS
<1>1. ASSUME verdict = "parsed", NEW p \in Places PROVE ~Precedes(frames, p)
  <2>1. DOMAIN frames = {}
    BY <1>1 DEF ConfigInv, VerdictInv
  <2> QED
    BY <2>1 DEF Precedes
<1> QED
  BY <1>1 DEF ConfigInv, ReadInv, DicInv, VerdictInv, ConfigMatchesReference

(***************************************************************************)
(* For any files, of any number of lines, and any number of files that can *)
(* be open: a configuration that is parsed gives every assigned key the    *)
(* value of its first assignment in the order of reading, and parsing      *)
(* fails only for a line that cannot be read (ConfigParser.h:62-119).      *)
(***************************************************************************)
THEOREM ParsedAsWritten == ConfigSpec => []ConfigMatchesReference
  BY ConfigInductiveInvariant, ConfigFollows, PTL

LEMMA ConfigTypesFollow == ConfigInv => ConfigTypeOK
<1> SUFFICES ASSUME ConfigInv PROVE ConfigTypeOK
  OBVIOUS
<1>1. frames \in Seq(ConfigLines) /\ DOMAIN frames = 1 .. Len(frames)
  BY LenProperties DEF ConfigInv, ConfigTypes
<1>2. \A i \in DOMAIN frames : frames[i] \in ConfigLines
  BY <1>1, ElementOfSeq
<1> QED
  BY <1>2 DEF ConfigInv, ConfigTypes, ConfigTypeOK, ConfigLines

-----------------------------------------------------------------------------
(* All the parts together.                                                 *)

PartsInv ==
    /\ part \in Parts
    /\ FragIInv
    /\ IInv
    /\ QueueInv
    /\ BufferInv
    /\ ConfigInv

\* The parts share no state: what one does leaves the others as they are.
LEMMA PartsNext == PartsInv /\ [Next]_vars => PartsInv'
<1> SUFFICES ASSUME PartsInv, [Next]_vars PROVE PartsInv'
  OBVIOUS
<1>1. /\ part' = part
      /\ [FragNext]_fragVars /\ [BarrierNext]_barrierVars /\ [QueueNext]_queueVars
      /\ [BufferNext]_bufferVars /\ [ConfigNext]_configVars
  BY DEF Next, FragPart, BarrierPart, QueuePart, BufferPart, ConfigPart, vars
<1> QED
  BY <1>1, FragInvNext, InvNext, QueueInvNext, BufferInvNext, ConfigStep DEF PartsInv

(***************************************************************************)
(* Whichever of the parts runs, and whatever the constants, the invariant  *)
(* of each of them holds: what the modules of hashfrag.h, Barrier.h,       *)
(* queue.h, Buffer.h and ConfigParser.h keep, they keep side by side.      *)
(***************************************************************************)
THEOREM PartsKeepInvariants == Spec => []PartsInv
<1>1. Init => PartsInv
  BY InitFragIInv, InitIInv, QueueInitially, BufferInitially, ConfigInitially DEF Init, PartsInv
<1> QED
  BY <1>1, PartsNext, PTL DEF Spec

(***************************************************************************)
(* The state of every part has its type, the calls of parse_conf being at  *)
(* most as many as files can be open (ConfigParser.h:62-118), whatever the *)
(* files contain.                                                          *)
(***************************************************************************)
THEOREM PartsTyped == Spec => []TypeOK
<1>1. ASSUME PartsInv PROVE TypeOK
  <2>1. FragTypeOK
    <3>1. /\ master \in FragRecord /\ crashed \subseteq {"master", "node"}
          /\ node = Fresh \/ node = master
      BY <1>1 DEF PartsInv, FragIInv, CopiesAreCurrent
    <3>2. DOMAIN NoTable = 0 .. 0 - 1
      <4>1. DOMAIN NoTable = {}
        BY DEF NoTable
      <4> QED
        BY <4>1
    <3>3. DOMAIN Fresh.map = 0 .. Fresh.num_frags - 1
      BY <3>2 DEF Fresh
    <3>4. DOMAIN master.map = 0 .. master.num_frags - 1
      <4>1. CASE HasTable(master)
        BY <1>1, <4>1 DEF PartsInv, FragIInv, MasterIsComputed, Table
      <4>2. CASE ~HasTable(master)
        BY <1>1, <3>2, <4>2 DEF PartsInv, FragIInv, MasterIsComputed
      <4> QED
        BY <4>1, <4>2
    <3> QED
      BY <3>1, <3>3, <3>4 DEF FragTypeOK, FragRecord
  <2>2. BarrierTypeOK
    BY <1>1 DEF PartsInv, IInv
  <2>3. QueueTypeOK
    BY <1>1 DEF PartsInv, QueueInv
  <2>4. BufferTypeOK
    BY <1>1, BufferTypesFollow DEF PartsInv
  <2>5. ConfigTypeOK
    BY <1>1, ConfigTypesFollow DEF PartsInv
  <2> QED
    BY <1>1, <2>1, <2>2, <2>3, <2>4, <2>5 DEF TypeOK, PartsInv
<1> QED
  BY <1>1, PartsKeepInvariants, PTL
=============================================================================
