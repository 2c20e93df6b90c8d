------------------------ MODULE ParamServerProofs ------------------------
(***************************************************************************)
(* Theorems about ParamServer for any number of workers, servers, threads, *)
(* keys, rounds and training steps: what a round of a worker is owed, what *)
(* it finds in its cache, and what the servers have initialised.           *)
(***************************************************************************)
EXTENDS ParamServer, HashFragProofs, FiniteSetTheorems

-----------------------------------------------------------------------------
(* Types.                                                                  *)

IsMap(f) == DOMAIN f \subseteq Keys /\ \A k \in DOMAIN f : f[k] \subseteq Gradients

Owned(s) == {k \in Keys : NodeOf(k) = s}

IsMessage(m) ==
    /\ m = Message(m.type, m.class, m.worker, m.server, m.items)
    /\ m.type \in {"request", "response"} /\ m.class \in {"pull", "push"}
    /\ m.worker \in Workers /\ m.server \in Servers
    /\ IsMap(m.items) /\ DOMAIN m.items \subseteq Owned(m.server)

\* Where a thread can be, and what it has in its hands there.
IsPlaced(x) ==
    \/ x.at = "next" /\ DOMAIN x = {"at", "req", "done"}
    \/ /\ x.at \in {"counted", "backup", "reply"} /\ DOMAIN x = {"at", "req", "done"}
       /\ x.req.class = "push" /\ Todo(x) = {}
    \/ /\ x.at = "assign" /\ DOMAIN x = {"at", "req", "done", "key"}
       /\ x.req.class = "pull" /\ x.key \in Todo(x)
    \/ /\ x.at = "read" /\ DOMAIN x = {"at", "req", "done", "key", "stale"}
       /\ x.req.class = "push" /\ x.key \in Todo(x) /\ x.stale \in BOOLEAN
    \/ /\ x.at = "write" /\ DOMAIN x = {"at", "req", "done", "key", "stale", "old"}
       /\ x.req.class = "push" /\ x.key \in Todo(x) /\ x.stale \in BOOLEAN
       /\ x.old \subseteq Gradients

IsWork(s, x) ==
    /\ IsMessage(x.req) /\ x.req.type = "request" /\ x.req.server = s
    /\ IsMap(x.done) /\ DOMAIN x.done \subseteq DOMAIN x.req.items
    /\ IsPlaced(x)

ServerTypes ==
    /\ async_exec_num \in 1 .. MaxThreads
    /\ IsMap(table)
    /\ push_counter \in [Servers -> Nat]
    /\ backups \in [Servers -> Seq(Nat)]
    /\ failed \in [Servers -> {"no", "new key", "stray write"}]

WorkTypes ==
    /\ DOMAIN work = Servers
    /\ \A s \in Servers : /\ IsFiniteSet(work[s])
                          /\ Cardinality(work[s]) <= async_exec_num
                          /\ \A x \in work[s] : IsWork(s, x)

MessageTypes ==
    /\ \A m \in msgs \cup stored : IsMessage(m)
    /\ \A m \in stored : m.type = "response" /\ m.class = "pull"

WorkerTypes ==
    /\ pc \in [Workers -> {"ready", "pulling", "pushing"}]
    /\ batch \in [Workers -> SUBSET Keys]
    /\ DOMAIN params = Workers /\ DOMAIN grads = Workers
    /\ \A w \in Workers : /\ IsMap(params[w]) /\ IsMap(grads[w])
                          /\ DOMAIN params[w] = DOMAIN grads[w]
    /\ num_reqs \in [Workers -> 0 .. ServerNum]
    /\ open \in [Workers -> BOOLEAN]
    /\ rounds \in [Workers -> 0 .. MaxRounds]
    /\ steps \in [Workers -> 0 .. MaxSteps]

-----------------------------------------------------------------------------
(***************************************************************************)
(* The inductive invariant.  A call of worker w to server s is in one      *)
(* place: in a message, in a callback, or in the hands of one thread of s. *)
(* The barrier of w counts the servers that still owe it an answer.        *)
(***************************************************************************)
OneCall ==
    /\ \A m, n \in msgs \cup stored : m.worker = n.worker /\ m.server = n.server => m = n
    /\ \A s \in Servers : \A x, y \in work[s] : x.req.worker = y.req.worker => x = y
    /\ \A s \in Servers : \A x \in work[s] : \A m \in msgs \cup stored :
          m.worker = x.req.worker => m.server # s
    /\ msgs \cap stored = {}

Owing(w) ==
    {s \in Servers : \/ \E m \in msgs \cup stored : m.worker = w /\ m.server = s
                     \/ \E x \in work[s] : x.req.worker = w}

BarrierCounts ==
    \A w \in Workers :
       /\ Cardinality(Owing(w)) <= num_reqs[w]
       /\ PushOnlyPulled => num_reqs[w] = Cardinality(Owing(w))
       /\ pc[w] = "ready" \/ open[w] => num_reqs[w] = 0
       /\ pc[w] = "ready" => ~open[w]
       /\ pc[w] # "ready" /\ ~open[w] => num_reqs[w] > 0 \/ batch[w] = {}

\* A call belongs to the round its worker is in, and a pull asks each server
\* for all keys of the round that it owns.
InRound(m) ==
    /\ pc[m.worker] = IF m.class = "pull" THEN "pulling" ELSE "pushing"
    /\ m.class = "pull" => DOMAIN m.items = {k \in batch[m.worker] : NodeOf(k) = m.server}

CallsInRound ==
    /\ \A m \in msgs \cup stored : InRound(m)
    /\ \A s \in Servers : \A x \in work[s] : InRound(x.req)

Cached ==
    /\ \A m \in stored : DOMAIN m.items \subseteq DOMAIN params[m.worker]
    /\ \A w \in Workers : pc[w] = "pulling" =>
          \A k \in batch[w] : k \in DOMAIN params[w] \/ NodeOf(k) \in Owing(w)

\* Only a request to pull names keys that no server may have.
Inited ==
    /\ \A w \in Workers : DOMAIN grads[w] \subseteq DOMAIN table
    /\ \A m \in msgs \cup stored :
          m.type = "response" \/ m.class = "push" => DOMAIN m.items \subseteq DOMAIN table
    /\ \A s \in Servers : \A x \in work[s] :
          /\ x.req.class = "push" => DOMAIN x.req.items \subseteq DOMAIN table
          /\ DOMAIN x.done \subseteq DOMAIN table
    /\ NewKeysAreInited

TypeInv == ServerTypes /\ WorkTypes /\ MessageTypes /\ WorkerTypes

IInv ==
    /\ TypeInv
    /\ OneCall
    /\ BarrierCounts
    /\ CallsInRound
    /\ Cached
    /\ Inited

-----------------------------------------------------------------------------
(* Lemmas about the operators.                                             *)

LEMMA OwnerIsServer == \A k \in Keys : NodeOf(k) \in Servers
<1> SUFFICES ASSUME NEW k \in Keys PROVE NodeOf(k) \in Servers
  OBVIOUS
<1>1. FragNum \in Nat /\ ServerNum \in Nat /\ ServerNum > 0 /\ ServerNum <= FragNum /\ k \in Nat
  BY ParamServerAssumption
<1>2. k % FragNum \in 0 .. FragNum - 1
  BY <1>1
<1>3. NodeOf(k) = OwnerOf(k % FragNum, FragNum, ServerNum)
  BY <1>2 DEF NodeOf, ToNodeId, Table
<1>4. OwnerOf(k % FragNum, FragNum, ServerNum) \in Owners(FragNum, ServerNum)
  BY <1>2 DEF Owners
<1> QED
  BY <1>1, <1>3, <1>4, OwnersAreServers DEF Servers

LEMMA ServersAreFinite ==
    ASSUME NEW S \in SUBSET Servers
    PROVE  IsFiniteSet(S) /\ Cardinality(S) \in 0 .. ServerNum
<1>1. ServerNum \in Nat
  BY ParamServerAssumption
<1>2. IsFiniteSet(Servers) /\ Cardinality(Servers) = ServerNum
  <2>1. Cardinality(1 .. ServerNum) = IF 1 > ServerNum THEN 0 ELSE ServerNum - 1 + 1
    BY <1>1, FS_Interval
  <2>2. IsFiniteSet(1 .. ServerNum)
    BY <1>1, FS_Interval
  <2> QED
    BY <1>1, <2>1, <2>2 DEF Servers
<1> QED
  BY <1>1, <1>2, FS_Subset, FS_CardinalityType

LEMMA OwingIsFinite ==
    ASSUME NEW w
    PROVE  IsFiniteSet(Owing(w)) /\ Cardinality(Owing(w)) \in 0 .. ServerNum
  BY ServersAreFinite DEF Owing

LEMMA ExtendMap ==
    ASSUME NEW f, IsMap(f), NEW k \in Keys, NEW v, v \subseteq Gradients
    PROVE  /\ IsMap(Extend(f, k, v))
           /\ DOMAIN Extend(f, k, v) = DOMAIN f \cup {k}
           /\ Extend(f, k, v)[k] = v
           /\ \A j \in DOMAIN f : j # k => Extend(f, k, v)[j] = f[j]
  BY DEF IsMap, Extend

LEMMA WrittenMap ==
    ASSUME NEW f, IsMap(f), NEW g, IsMap(g)
    PROVE  /\ IsMap(Written(f, g))
           /\ DOMAIN Written(f, g) = DOMAIN f \cup DOMAIN g
  BY DEF IsMap, Written

LEMMA ThreadsType ==
    ASSUME IInv
    PROVE  async_exec_num \in Nat /\ async_exec_num > 0
<1>1. async_exec_num \in 1 .. MaxThreads
  BY DEF IInv, TypeInv, ServerTypes
<1>2. MaxThreads \in Nat
  BY ParamServerAssumption
<1> QED
  BY <1>1, <1>2

\* Nobody owes a worker anything that is not in a round, or may leave it.
LEMMA NothingOwed ==
    ASSUME IInv, NEW w \in Workers, pc[w] = "ready" \/ open[w]
    PROVE  /\ Owing(w) = {}
           /\ \A m \in msgs \cup stored : m.worker # w
           /\ \A s \in Servers : \A x \in work[s] : x.req.worker # w
<1>1. num_reqs[w] = 0 /\ Cardinality(Owing(w)) <= num_reqs[w]
  BY DEF IInv, BarrierCounts
<1>2. Cardinality(Owing(w)) = 0
  BY <1>1, OwingIsFinite, ParamServerAssumption
<1>3. Owing(w) = {}
  BY <1>2, OwingIsFinite, FS_EmptySet
<1>4. \A m \in msgs \cup stored : m.server \in Servers
  BY DEF IInv, TypeInv, MessageTypes, IsMessage
<1> QED
  BY <1>3, <1>4 DEF Owing

LEMMA InitIInv == Init => IInv
<1> SUFFICES ASSUME Init PROVE IInv
  OBVIOUS
<1> USE DEF Init
<1>1. ServerTypes
  BY DEF ServerTypes, IsMap, NoEntries
<1>2. WorkTypes
  BY FS_EmptySet DEF WorkTypes
<1>3. WorkerTypes
  BY ParamServerAssumption DEF WorkerTypes, IsMap, NoEntries
<1>4. \A w \in Workers : Cardinality(Owing(w)) = 0
  BY FS_EmptySet DEF Owing
<1> QED
  BY <1>1, <1>2, <1>3, <1>4
     DEF IInv, TypeInv, MessageTypes, OneCall, BarrierCounts, CallsInRound, Cached,
         Inited, NewKeysAreInited, NoEntries

-----------------------------------------------------------------------------
(***************************************************************************)
(* A step of a pool thread of server s on the request it is carrying out.  *)
(* It may touch what the other threads of s hold: f says what each thread  *)
(* holds after it.                                                         *)
(***************************************************************************)
Carries(s, f) ==
    /\ work' = [work EXCEPT ![s] = {f[z] : z \in work[s]}]
    /\ \A z \in work[s] : /\ f[z].req = z.req /\ IsWork(s, f[z])
                          /\ DOMAIN f[z].done \subseteq DOMAIN table'
    /\ DOMAIN table \subseteq DOMAIN table'
    /\ ServerTypes'
    /\ failed'[s] = "new key" => failed[s] = "new key"
    /\ \A t \in Servers \ {s} : failed'[t] = failed[t]
    /\ UNCHANGED <<async_exec_num, msgs, stored, WorkerSide>>

LEMMA InvCarries ==
    ASSUME IInv, NEW s \in Servers, NEW f, Carries(s, f)
    PROVE  IInv'
<1>1. UNCHANGED <<async_exec_num, msgs, stored, pc, batch, params, grads, num_reqs, open,
                  rounds, steps>>
  BY DEF Carries, WorkerSide, cache, barrier, count
<1>2. DOMAIN work = Servers
  BY DEF IInv, TypeInv, WorkTypes
<1>3. /\ DOMAIN work' = Servers
      /\ work'[s] = {f[z] : z \in work[s]}
      /\ \A t \in Servers : t # s => work'[t] = work[t]
  BY <1>2 DEF Carries
<1>4. \A z \in work[s] : f[z].req = z.req /\ IsWork(s, f[z])
  BY DEF Carries
\* Each thread carries the request of a thread before the step.
<1>5. \A t \in Servers : \A y \in work'[t] : \E z \in work[t] :
         y.req = z.req /\ (t = s => y = f[z]) /\ (t # s => y = z)
  BY <1>3, <1>4
<1>6. \A t \in Servers : \A z \in work[t] : \E y \in work'[t] : y.req = z.req
  BY <1>3, <1>4
<1>7. WorkTypes'
  <2>1. IsFiniteSet(work[s]) /\ Cardinality(work[s]) <= async_exec_num
    BY DEF IInv, TypeInv, WorkTypes
  <2>2. IsFiniteSet(work'[s]) /\ Cardinality(work'[s]) <= async_exec_num
    <3> DEFINE g == [z \in work[s] |-> f[z]]
    <3>1. g \in Surjection(work[s], work'[s])
      BY <1>3 DEF Surjection
    <3>2. IsFiniteSet(work'[s]) /\ Cardinality(work'[s]) <= Cardinality(work[s])
      BY <2>1, <3>1, FS_Surjection
    <3>3. Cardinality(work'[s]) \in Nat /\ Cardinality(work[s]) \in Nat
      BY <2>1, <3>2, FS_CardinalityType
    <3>4. async_exec_num \in Nat
      BY ThreadsType
    <3> QED
      BY <2>1, <3>2, <3>3, <3>4
  <2>3. \A y \in work'[s] : IsWork(s, y)
    BY <1>3, <1>4
  <2>4. ASSUME NEW t \in Servers, t # s
        PROVE  /\ IsFiniteSet(work'[t]) /\ Cardinality(work'[t]) <= async_exec_num
               /\ \A x \in work'[t] : IsWork(t, x)
    BY <1>3, <2>4 DEF IInv, TypeInv, WorkTypes
  <2> QED
    BY <1>1, <1>3, <2>2, <2>3, <2>4 DEF WorkTypes
<1>8. ServerTypes' /\ MessageTypes' /\ WorkerTypes'
  <2>1. ServerTypes'
    BY DEF Carries
  <2>2. MessageTypes'
    BY <1>1 DEF IInv, TypeInv, MessageTypes
  <2>3. WorkerTypes'
    BY <1>1 DEF IInv, TypeInv, WorkerTypes
  <2> QED
    BY <2>1, <2>2, <2>3
<1>9. OneCall'
  <2>1. \A t \in Servers : \A x, y \in work'[t] : x.req.worker = y.req.worker => x = y
    <3> SUFFICES ASSUME NEW t \in Servers, NEW x \in work'[t], NEW y \in work'[t],
                        x.req.worker = y.req.worker
                 PROVE  x = y
      OBVIOUS
    <3>1. PICK a \in work[t] : x.req = a.req /\ (t = s => x = f[a]) /\ (t # s => x = a)
      BY <1>5
    <3>2. PICK b \in work[t] : y.req = b.req /\ (t = s => y = f[b]) /\ (t # s => y = b)
      BY <1>5
    <3>3. a = b
      BY <3>1, <3>2 DEF IInv, OneCall
    <3> QED
      BY <3>1, <3>2, <3>3
  <2>2. \A t \in Servers : \A x \in work'[t] : \A m \in msgs \cup stored :
           m.worker = x.req.worker => m.server # t
    BY <1>5 DEF IInv, OneCall
  <2>3. /\ \A m, n \in msgs \cup stored : m.worker = n.worker /\ m.server = n.server => m = n
        /\ msgs \cap stored = {}
    BY DEF IInv, OneCall
  <2> QED
    BY <1>1, <2>1, <2>2, <2>3 DEF OneCall
<1>10. ASSUME NEW w \in Workers PROVE Owing(w)' = Owing(w)
  BY <1>1, <1>5, <1>6 DEF Owing
<1>11. BarrierCounts'
  BY <1>1, <1>10 DEF IInv, BarrierCounts
<1>12. CallsInRound'
  <2>1. \A m : InRound(m)' = InRound(m)
    BY <1>1 DEF InRound
  <2>2. \A m \in msgs \cup stored : InRound(m)
    BY DEF IInv, CallsInRound
  <2>3. \A t \in Servers : \A x \in work'[t] : InRound(x.req)
    BY <1>5 DEF IInv, CallsInRound
  <2> QED
    BY <1>1, <2>1, <2>2, <2>3 DEF CallsInRound
<1>13. Cached'
  BY <1>1, <1>10 DEF IInv, Cached
<1>14. Inited'
  <2>1. DOMAIN table \subseteq DOMAIN table'
    BY DEF Carries
  <2>2. \A w \in Workers : DOMAIN grads'[w] \subseteq DOMAIN table'
    BY <1>1, <2>1 DEF IInv, Inited
  <2>3. \A m \in msgs' \cup stored' :
           m.type = "response" \/ m.class = "push" => DOMAIN m.items \subseteq DOMAIN table'
    BY <1>1, <2>1 DEF IInv, Inited
  <2>4. ASSUME NEW t \in Servers, NEW y \in work'[t]
        PROVE  /\ y.req.class = "push" => DOMAIN y.req.items \subseteq DOMAIN table'
               /\ DOMAIN y.done \subseteq DOMAIN table'
    <3>1. PICK z \in work[t] : y.req = z.req /\ (t = s => y = f[z]) /\ (t # s => y = z)
      BY <1>5
    <3>2. /\ z.req.class = "push" => DOMAIN z.req.items \subseteq DOMAIN table
          /\ DOMAIN z.done \subseteq DOMAIN table
      BY DEF IInv, Inited
    <3>3. t = s => DOMAIN f[z].done \subseteq DOMAIN table'
      BY DEF Carries
    <3> QED
      BY <2>1, <3>1, <3>2, <3>3
  <2>5. NewKeysAreInited'
    BY DEF Carries, IInv, Inited, NewKeysAreInited
  <2> QED
    BY <2>2, <2>3, <2>4, <2>5 DEF Inited
<1> QED
  BY <1>7, <1>8, <1>9, <1>11, <1>12, <1>13, <1>14 DEF IInv, TypeInv

LEMMA WorkFacts ==
    ASSUME IInv, NEW s \in Servers, NEW x \in work[s]
    PROVE  /\ IsWork(s, x)
           /\ \A k \in Todo(x) : k \in Keys /\ x.req.items[k] \subseteq Gradients
           /\ DOMAIN x.done \subseteq DOMAIN table
           /\ x.req.class = "push" => DOMAIN x.req.items \subseteq DOMAIN table
  BY DEF IInv, TypeInv, WorkTypes, IsWork, Inited, Todo, IsMessage, IsMap

\* A thread that has handled a key goes on with the next one.
LEMMA DoneIsWork ==
    ASSUME NEW s \in Servers, NEW x, IsWork(s, x), NEW k \in Todo(x), k \in Keys,
           NEW v, v \subseteq Gradients
    PROVE  /\ IsWork(s, Done(x, k, v))
           /\ Done(x, k, v).req = x.req
           /\ Done(x, k, v).at = "next"
           /\ DOMAIN Done(x, k, v).done = DOMAIN x.done \cup {k}
<1> DEFINE y == Done(x, k, v)
<1>1. y = [at |-> "next", req |-> x.req, done |-> Extend(x.done, k, v)]
  BY DEF Done
<1>2. y.req = x.req /\ y.done = Extend(x.done, k, v) /\ y.at = "next"
  BY <1>1
<1>3. IsMap(x.done)
  BY DEF IsWork
<1>4. IsMap(y.done) /\ DOMAIN y.done = DOMAIN x.done \cup {k}
  <2>1. IsMap(Extend(x.done, k, v)) /\ DOMAIN Extend(x.done, k, v) = DOMAIN x.done \cup {k}
    BY <1>3, ExtendMap
  <2> HIDE DEF y
  <2> QED
    BY <1>2, <2>1
<1>5. IsPlaced(y)
  BY <1>1, <1>2 DEF IsPlaced
<1> HIDE DEF y
<1>6. IsWork(s, y)
  BY <1>2, <1>4, <1>5 DEF IsWork, Todo
<1> QED
  BY <1>2, <1>4, <1>6 DEF y

LEMMA InvBecome ==
    ASSUME IInv, NEW s \in Servers, NEW x \in work[s], NEW y, Become(s, x, y),
           IsWork(s, y), y.req = x.req,
           DOMAIN y.done \subseteq DOMAIN table',
           DOMAIN table \subseteq DOMAIN table',
           ServerTypes',
           failed'[s] = "new key" => failed[s] = "new key",
           \A t \in Servers \ {s} : failed'[t] = failed[t],
           UNCHANGED <<async_exec_num, msgs, stored, WorkerSide>>
    PROVE  IInv'
<1> DEFINE f == [z \in work[s] |-> IF z = x THEN y ELSE z]
<1>1. {f[z] : z \in work[s]} = (work[s] \ {x}) \cup {y}
  OBVIOUS
<1>2. work' = [work EXCEPT ![s] = {f[z] : z \in work[s]}]
  BY <1>1 DEF Become
<1>3. ASSUME NEW z \in work[s]
      PROVE  /\ f[z].req = z.req /\ IsWork(s, f[z])
             /\ DOMAIN f[z].done \subseteq DOMAIN table'
  <2>1. IsWork(s, z) /\ DOMAIN z.done \subseteq DOMAIN table
    BY WorkFacts
  <2> QED
    BY <2>1
<1> HIDE DEF f
<1>4. Carries(s, f)
  BY <1>2, <1>3 DEF Carries
<1> QED
  BY <1>4, InvCarries

LEMMA InvFindParam ==
    ASSUME IInv, NEW s \in Servers, NEW x \in work[s], NEW k, FindParam(s, x, k)
    PROVE  IInv'
<1>1. IsWork(s, x) /\ k \in Todo(x) /\ k \in Keys /\ x.req.class = "pull"
  BY WorkFacts DEF FindParam
<1>2. /\ DOMAIN x.done \subseteq DOMAIN table
      /\ UNCHANGED <<async_exec_num, msgs, stored, WorkerSide, table, failed>>
      /\ ServerTypes'
  BY WorkFacts DEF FindParam, IInv, TypeInv, ServerTypes, backup
<1>3. CASE k \in DOMAIN table
  <2>1. table[k] \subseteq Gradients
    BY <1>3 DEF IInv, TypeInv, ServerTypes, IsMap
  <2>2. Become(s, x, Done(x, k, table[k]))
    BY <1>3 DEF FindParam
  <2>3. /\ IsWork(s, Done(x, k, table[k])) /\ Done(x, k, table[k]).req = x.req
        /\ DOMAIN Done(x, k, table[k]).done \subseteq DOMAIN table'
    BY <1>1, <1>2, <1>3, <2>1, DoneIsWork
  <2> QED
    BY <1>2, <2>2, <2>3, InvBecome
<1>4. CASE k \notin DOMAIN table
  <2> DEFINE y == [at |-> "assign", req |-> x.req, done |-> x.done, key |-> k]
  <2>1. Become(s, x, y)
    BY <1>4 DEF FindParam
  <2>2. y.req = x.req /\ y.done = x.done /\ y.key = k /\ Todo(y) = Todo(x)
    BY DEF Todo
  <2>3. IsWork(s, y)
    BY <1>1, <2>2 DEF IsWork, IsPlaced
  <2> HIDE DEF y
  <2> QED
    BY <1>2, <2>1, <2>2, <2>3, InvBecome
<1> QED
  BY <1>3, <1>4

LEMMA InvFindPointer ==
    ASSUME IInv, NEW s \in Servers, NEW x \in work[s], NEW k, FindPointer(s, x, k)
    PROVE  IInv'
<1> DEFINE y == [at |-> "read", req |-> x.req, done |-> x.done, key |-> k, stale |-> FALSE]
<1>1. /\ IsWork(s, x) /\ k \in Todo(x) /\ x.req.class = "push"
      /\ DOMAIN x.done \subseteq DOMAIN table
      /\ k \in DOMAIN table
  BY WorkFacts DEF FindPointer, Todo
<1>2. /\ UNCHANGED <<async_exec_num, msgs, stored, WorkerSide, table, failed>>
      /\ ServerTypes'
      /\ Become(s, x, y)
  BY <1>1 DEF FindPointer, IInv, TypeInv, ServerTypes, backup
<1>3. y.req = x.req /\ y.done = x.done /\ y.key = k /\ y.stale = FALSE /\ Todo(y) = Todo(x)
  BY DEF Todo
<1>4. IsWork(s, y)
  BY <1>1, <1>3 DEF IsWork, IsPlaced
<1> HIDE DEF y
<1> QED
  BY <1>1, <1>2, <1>3, <1>4, InvBecome

LEMMA InvReadParam ==
    ASSUME IInv, NEW s \in Servers, NEW x \in work[s], ReadParam(s, x)
    PROVE  IInv'
<1> DEFINE y == [at |-> "write", req |-> x.req, done |-> x.done, key |-> x.key,
                 stale |-> x.stale, old |-> table[x.key]]
<1>1. /\ IsWork(s, x) /\ x.at = "read"
      /\ DOMAIN x.done \subseteq DOMAIN table
      /\ x.req.class = "push" => DOMAIN x.req.items \subseteq DOMAIN table
  BY WorkFacts DEF ReadParam, At
<1>2. x.req.class = "push" /\ x.key \in Todo(x) /\ x.stale \in BOOLEAN
  BY <1>1 DEF IsWork, IsPlaced
<1>3. table[x.key] \subseteq Gradients
  BY <1>1, <1>2 DEF Todo, IInv, TypeInv, ServerTypes, IsMap
<1>4. /\ UNCHANGED <<async_exec_num, msgs, stored, WorkerSide, table, failed>>
      /\ ServerTypes'
      /\ Become(s, x, y)
  BY <1>1 DEF ReadParam, IInv, TypeInv, ServerTypes, backup
<1>5. /\ y.req = x.req /\ y.done = x.done /\ y.key = x.key /\ y.stale = x.stale
      /\ y.old = table[x.key] /\ Todo(y) = Todo(x)
  BY DEF Todo
<1>6. IsWork(s, y)
  BY <1>1, <1>2, <1>3, <1>5 DEF IsWork, IsPlaced
<1> HIDE DEF y
<1> QED
  BY <1>1, <1>4, <1>5, <1>6, InvBecome

LEMMA InvWriteParam ==
    ASSUME IInv, NEW s \in Servers, NEW x \in work[s], WriteParam(s, x)
    PROVE  IInv'
<1> DEFINE y == Done(x, x.key, {})
<1>1. /\ IsWork(s, x) /\ x.at = "write"
      /\ DOMAIN x.done \subseteq DOMAIN table
      /\ x.req.class = "push" => DOMAIN x.req.items \subseteq DOMAIN table
  BY WorkFacts DEF WriteParam, At
<1>2. x.req.class = "push" /\ x.key \in Todo(x) /\ x.old \subseteq Gradients
  BY <1>1 DEF IsWork, IsPlaced
<1>3. x.key \in Keys /\ x.req.items[x.key] \subseteq Gradients /\ x.key \in DOMAIN table
  BY <1>1, <1>2, WorkFacts DEF Todo
<1>4. /\ IsWork(s, y) /\ y.req = x.req
      /\ DOMAIN y.done \subseteq DOMAIN table
  BY <1>1, <1>2, <1>3, DoneIsWork
<1>5. Become(s, x, y) /\ UNCHANGED <<async_exec_num, backup, msgs, stored, WorkerSide>>
  BY DEF WriteParam
<1> HIDE DEF y
<1>6. CASE x.stale
  <2>1. UNCHANGED table /\ failed' \in {failed, [failed EXCEPT ![s] = "stray write"]}
    BY <1>6 DEF WriteParam
  <2>2. failed \in [Servers -> {"no", "new key", "stray write"}]
    BY DEF IInv, TypeInv, ServerTypes
  <2>3. /\ failed' \in [Servers -> {"no", "new key", "stray write"}]
        /\ failed'[s] = "new key" => failed[s] = "new key"
        /\ \A t \in Servers \ {s} : failed'[t] = failed[t]
    BY <2>1, <2>2
  <2>4. ServerTypes'
    BY <1>5, <2>1, <2>3 DEF IInv, TypeInv, ServerTypes, backup
  <2> QED
    BY <1>4, <1>5, <2>1, <2>3, <2>4, InvBecome
<1>7. CASE ~x.stale
  <2>1. table' = [table EXCEPT ![x.key] = x.old \cup x.req.items[x.key]] /\ UNCHANGED failed
    BY <1>7 DEF WriteParam
  <2>2. DOMAIN table' = DOMAIN table
    BY <2>1
  <2>3. IsMap(table')
    BY <1>2, <1>3, <2>1 DEF IInv, TypeInv, ServerTypes, IsMap
  <2>4. ServerTypes'
    BY <1>5, <2>1, <2>3 DEF IInv, TypeInv, ServerTypes, backup
  <2> QED
    BY <1>4, <1>5, <2>1, <2>2, <2>4, InvBecome
<1> QED
  BY <1>6, <1>7

\* What assign makes of another thread z of the shard when it rehashes.
Rehash(x, z) ==
    IF z.at \in {"read", "write"} /\ ShardOf(z.key) = ShardOf(x.key)
    THEN [z EXCEPT !.stale = TRUE] ELSE z

LEMMA RehashFacts ==
    ASSUME NEW s \in Servers, NEW x, NEW z, IsWork(s, z)
    PROVE  /\ IsWork(s, Rehash(x, z))
           /\ Rehash(x, z).req = z.req /\ Rehash(x, z).done = z.done
           /\ Rehash(x, z).at = z.at
           /\ z.at = "write" => Rehash(x, z).key = z.key /\ Rehash(x, z).old = z.old
<1>1. CASE Rehash(x, z) = z
  BY <1>1
<1>2. CASE Rehash(x, z) # z
  <2> DEFINE r == [z EXCEPT !.stale = TRUE]
  <2>1. Rehash(x, z) = r /\ z.at \in {"read", "write"}
    BY <1>2 DEF Rehash
  <2>2. /\ DOMAIN z \in {{"at", "req", "done", "key", "stale"},
                        {"at", "req", "done", "key", "stale", "old"}}
        /\ z.at = "write" => DOMAIN z = {"at", "req", "done", "key", "stale", "old"}
    BY <2>1 DEF IsWork, IsPlaced
  <2>3. /\ DOMAIN r = DOMAIN z /\ r.at = z.at /\ r.req = z.req /\ r.done = z.done
        /\ r.key = z.key /\ r.stale = TRUE /\ Todo(r) = Todo(z)
        /\ z.at = "write" => r.old = z.old
    BY <2>2 DEF Todo
  <2>4. IsWork(s, r)
    BY <2>1, <2>3 DEF IsWork, IsPlaced
  <2> HIDE DEF r
  <2> QED
    BY <2>1, <2>3, <2>4
<1> QED
  BY <1>1, <1>2

\* assign may leave the other threads of the shard with stale pointers.
LEMMA AssignFacts ==
    ASSUME IInv, NEW s \in Servers, NEW x \in work[s], AssignParam(s, x)
    PROVE  /\ IsWork(s, x) /\ x.at = "assign" /\ x.req.class = "pull"
           /\ x.key \in Todo(x) /\ x.key \in Keys
           /\ table' = Extend(table, x.key, {})
           /\ IsMap(table') /\ DOMAIN table' = DOMAIN table \cup {x.key}
           /\ \E rehash \in BOOLEAN :
                 work' = [work EXCEPT ![s] =
                            {Done(x, x.key, {})} \cup
                            IF rehash THEN {Rehash(x, z) : z \in work[s] \ {x}}
                                      ELSE work[s] \ {x}]
<1>1. IsWork(s, x) /\ x.at = "assign"
  BY WorkFacts DEF AssignParam, At
<1>2. x.req.class = "pull" /\ x.key \in Todo(x)
  BY <1>1 DEF IsWork, IsPlaced
<1>3. x.key \in Keys
  BY <1>2, WorkFacts
<1>4. table' = Extend(table, x.key, {})
  BY DEF AssignParam
<1>5. IsMap(table') /\ DOMAIN table' = DOMAIN table \cup {x.key}
  <2>1. IsMap(table) /\ {} \subseteq Gradients
    BY DEF IInv, TypeInv, ServerTypes
  <2>2. /\ IsMap(Extend(table, x.key, {}))
        /\ DOMAIN Extend(table, x.key, {}) = DOMAIN table \cup {x.key}
    BY <1>3, <2>1 DEF Extend, IsMap
  <2> QED
    BY <1>4, <2>2
<1>6. \E rehash \in BOOLEAN :
         work' = [work EXCEPT ![s] =
                    {Done(x, x.key, {})} \cup
                    IF rehash THEN {Rehash(x, z) : z \in work[s] \ {x}}
                              ELSE work[s] \ {x}]
  BY DEF AssignParam, Rehash
<1> QED
  BY <1>1, <1>2, <1>3, <1>4, <1>5, <1>6

LEMMA InvAssignParam ==
    ASSUME IInv, NEW s \in Servers, NEW x \in work[s], AssignParam(s, x)
    PROVE  IInv'
<1> DEFINE y == Done(x, x.key, {})
<1>1. /\ IsWork(s, x) /\ x.key \in Todo(x) /\ x.key \in Keys
      /\ IsMap(table') /\ DOMAIN table' = DOMAIN table \cup {x.key}
  BY AssignFacts
<1>2. UNCHANGED <<async_exec_num, backup, failed, msgs, stored, WorkerSide>>
  BY DEF AssignParam
<1>3. DOMAIN x.done \subseteq DOMAIN table
  BY WorkFacts
<1>4. /\ IsWork(s, y) /\ y.req = x.req
      /\ DOMAIN y.done \subseteq DOMAIN table'
  BY <1>1, <1>3, DoneIsWork
<1>5. PICK rehash \in BOOLEAN :
         work' = [work EXCEPT ![s] =
                    {y} \cup IF rehash THEN {Rehash(x, z) : z \in work[s] \ {x}}
                                      ELSE work[s] \ {x}]
  BY AssignFacts
<1> HIDE DEF y
<1> DEFINE f == [z \in work[s] |-> IF z = x THEN y ELSE IF rehash THEN Rehash(x, z) ELSE z]
<1>6. {f[z] : z \in work[s]}
         = {y} \cup IF rehash THEN {Rehash(x, z) : z \in work[s] \ {x}} ELSE work[s] \ {x}
  OBVIOUS
<1>7. work' = [work EXCEPT ![s] = {f[z] : z \in work[s]}]
  BY <1>5, <1>6
<1>8. ASSUME NEW z \in work[s]
      PROVE  /\ f[z].req = z.req /\ IsWork(s, f[z])
             /\ DOMAIN f[z].done \subseteq DOMAIN table'
  <2>1. IsWork(s, z) /\ DOMAIN z.done \subseteq DOMAIN table
    BY WorkFacts
  <2>2. IsWork(s, Rehash(x, z)) /\ Rehash(x, z).req = z.req /\ Rehash(x, z).done = z.done
    BY <2>1, RehashFacts
  <2> QED
    BY <1>1, <1>4, <2>1, <2>2
<1> HIDE DEF f
<1>9. ServerTypes'
  BY <1>1, <1>2 DEF IInv, TypeInv, ServerTypes, backup
<1>10. Carries(s, f)
  BY <1>1, <1>2, <1>7, <1>8, <1>9 DEF Carries
<1> QED
  BY <1>10, InvCarries

\* The push handler after its gradients are applied.
LEMMA InvMoveOn ==
    ASSUME IInv, NEW s \in Servers, NEW x \in work[s], NEW place,
           Become(s, x, [x EXCEPT !.at = place]), place \in {"counted", "backup", "reply"},
           x.at \in {"next", "counted", "backup"}, x.req.class = "push", Todo(x) = {},
           UNCHANGED <<async_exec_num, table, failed, msgs, stored, WorkerSide>>,
           push_counter' \in [Servers -> Nat], backups' \in [Servers -> Seq(Nat)]
    PROVE  IInv'
<1> DEFINE y == [x EXCEPT !.at = place]
<1>1. IsWork(s, x) /\ DOMAIN x.done \subseteq DOMAIN table
  BY WorkFacts
<1>2. DOMAIN x = {"at", "req", "done"}
  BY <1>1 DEF IsWork, IsPlaced
<1>3. DOMAIN y = {"at", "req", "done"}
  BY <1>2
<1>4. y.at = place /\ y.req = x.req /\ y.done = x.done /\ Todo(y) = {}
  BY <1>2 DEF Todo
<1>5. IsWork(s, y)
  BY <1>1, <1>3, <1>4 DEF IsWork, IsPlaced
<1>6. ServerTypes'
  BY DEF IInv, TypeInv, ServerTypes
<1> HIDE DEF y
<1>7. Become(s, x, y)
  BY DEF y
<1> QED
  BY <1>1, <1>4, <1>5, <1>6, <1>7, InvBecome

LEMMA InvCountPush ==
    ASSUME IInv, NEW s \in Servers, NEW x \in work[s],
           CountPush(s, x) \/ TestBackup(s, x) \/ BackupParam(s, x)
    PROVE  IInv'
<1>1. push_counter \in [Servers -> Nat] /\ backups \in [Servers -> Seq(Nat)] /\ IsWork(s, x)
  BY WorkFacts DEF IInv, TypeInv, ServerTypes
<1>2. CASE CountPush(s, x)
  <2>1. push_counter' \in [Servers -> Nat]
    BY <1>1, <1>2 DEF CountPush
  <2> QED
    BY <1>1, <1>2, <2>1, InvMoveOn DEF CountPush, At
<1>3. CASE TestBackup(s, x)
  <2>1. x.req.class = "push" /\ Todo(x) = {} /\ x.at = "counted"
    BY <1>1, <1>3 DEF TestBackup, At, IsWork, IsPlaced
  <2> QED
    BY <1>1, <1>3, <2>1, InvMoveOn DEF TestBackup, backup
<1>4. CASE BackupParam(s, x)
  <2>1. x.req.class = "push" /\ Todo(x) = {} /\ x.at = "backup"
    BY <1>1, <1>4 DEF BackupParam, At, IsWork, IsPlaced
  <2>2. Append(backups[s], push_counter[s]) \in Seq(Nat)
    BY <1>1
  <2>3. backups' \in [Servers -> Seq(Nat)]
    BY <1>1, <1>4, <2>2 DEF BackupParam
  <2> QED
    BY <1>1, <1>4, <2>1, <2>3, InvMoveOn DEF BackupParam
<1> QED
  BY <1>2, <1>3, <1>4

\* A request goes from the messages into the hands of a thread.
LEMMA InvTakeRequest ==
    ASSUME IInv, NEW s \in Servers, NEW m \in msgs, TakeRequest(s, m)
    PROVE  IInv'
<1> DEFINE x0 == [at |-> "next", req |-> m, done |-> NoEntries]
<1>1. /\ UNCHANGED <<async_exec_num, push_counter, backups, table, failed, stored, pc, batch,
                     params, grads, num_reqs, open, rounds, steps>>
      /\ msgs' = msgs \ {m}
      /\ m.type = "request" /\ m.server = s
      /\ work' = [work EXCEPT ![s] = work[s] \cup {x0}]
      /\ Cardinality(work[s]) < async_exec_num
  BY DEF TakeRequest, WorkerSide, cache, barrier, count, backup
<1>2. x0.req = m /\ x0.done = NoEntries /\ x0.at = "next" /\ DOMAIN x0 = {"at", "req", "done"}
  OBVIOUS
<1> HIDE DEF x0
<1>3. IsMessage(m) /\ m \notin stored
  BY DEF IInv, TypeInv, MessageTypes, OneCall
<1>4. DOMAIN work = Servers
  BY DEF IInv, TypeInv, WorkTypes
<1>5. /\ DOMAIN work' = Servers
      /\ work'[s] = work[s] \cup {x0}
      /\ \A t \in Servers : t # s => work'[t] = work[t]
  BY <1>1, <1>4
<1>6. IsWork(s, x0)
  BY <1>1, <1>2, <1>3 DEF IsWork, IsPlaced, IsMap, NoEntries
<1>7. msgs' \cup stored' = (msgs \cup stored) \ {m}
  BY <1>1, <1>3
<1>8. WorkTypes'
  <2>1. IsFiniteSet(work[s])
    BY DEF IInv, TypeInv, WorkTypes
  <2>2. /\ IsFiniteSet(work'[s])
        /\ Cardinality(work'[s]) = IF x0 \in work[s] THEN Cardinality(work[s])
                                                     ELSE Cardinality(work[s]) + 1
    BY <1>5, <2>1, FS_AddElement
  <2>3. Cardinality(work[s]) \in Nat /\ async_exec_num \in Nat
    BY <2>1, FS_CardinalityType, ThreadsType
  <2>4. Cardinality(work'[s]) <= async_exec_num
    BY <1>1, <2>2, <2>3
  <2>5. ASSUME NEW t \in Servers
        PROVE  /\ IsFiniteSet(work'[t]) /\ Cardinality(work'[t]) <= async_exec_num
               /\ \A x \in work'[t] : IsWork(t, x)
    BY <1>5, <1>6, <2>2, <2>4 DEF IInv, TypeInv, WorkTypes
  <2> QED
    BY <1>1, <1>5, <2>5 DEF WorkTypes
<1>9. ServerTypes' /\ MessageTypes' /\ WorkerTypes'
  <2>1. ServerTypes'
    BY <1>1 DEF IInv, TypeInv, ServerTypes
  <2>2. MessageTypes'
    BY <1>1, <1>7 DEF IInv, TypeInv, MessageTypes
  <2>3. WorkerTypes'
    BY <1>1 DEF IInv, TypeInv, WorkerTypes
  <2> QED
    BY <2>1, <2>2, <2>3
<1>10. OneCall'
  <2>1. \A n \in (msgs \cup stored) \ {m} : n.worker = m.worker => n.server # s
    BY <1>1 DEF IInv, OneCall
  <2>2. \A y \in work[s] : y.req.worker # m.worker
    BY <1>1 DEF IInv, OneCall
  <2>3. \A t \in Servers : \A x, y \in work'[t] : x.req.worker = y.req.worker => x = y
    BY <1>2, <1>5, <2>2 DEF IInv, OneCall
  <2>4. \A t \in Servers : \A x \in work'[t] : \A n \in (msgs \cup stored) \ {m} :
           n.worker = x.req.worker => n.server # t
    BY <1>2, <1>5, <2>1 DEF IInv, OneCall
  <2> QED
    BY <1>1, <1>7, <2>3, <2>4 DEF IInv, OneCall
<1>11. ASSUME NEW w \in Workers PROVE Owing(w)' = Owing(w)
  <2>1. ASSUME NEW t \in Servers
        PROVE  t \in Owing(w)' <=> t \in Owing(w)
    <3>1. CASE t # s
      BY <1>1, <1>5, <1>7, <3>1 DEF Owing
    <3>2. CASE t = s
      BY <1>1, <1>2, <1>5, <1>7, <3>2 DEF Owing
    <3> QED
      BY <3>1, <3>2
  <2> QED
    BY <2>1 DEF Owing
<1>12. BarrierCounts' /\ Cached'
  BY <1>1, <1>11 DEF IInv, BarrierCounts, Cached
<1>13. CallsInRound'
  <2>1. \A n : InRound(n)' = InRound(n)
    BY <1>1 DEF InRound
  <2>2. \A n \in msgs \cup stored : InRound(n)
    BY DEF IInv, CallsInRound
  <2>3. \A t \in Servers : \A x \in work'[t] : InRound(x.req)
    BY <1>2, <1>5, <2>2 DEF IInv, CallsInRound
  <2> QED
    BY <1>7, <2>1, <2>2, <2>3 DEF CallsInRound
<1>14. Inited'
  <2>1. m.class = "push" => DOMAIN m.items \subseteq DOMAIN table
    BY DEF IInv, Inited
  <2>2. DOMAIN x0.done = {}
    BY <1>2 DEF NoEntries
  <2>3. \A t \in Servers : \A x \in work'[t] :
           /\ x.req.class = "push" => DOMAIN x.req.items \subseteq DOMAIN table
           /\ DOMAIN x.done \subseteq DOMAIN table
    BY <1>2, <1>5, <2>1, <2>2 DEF IInv, Inited
  <2> QED
    BY <1>1, <1>7, <2>3 DEF IInv, Inited, NewKeysAreInited
<1> QED
  BY <1>8, <1>9, <1>10, <1>12, <1>13, <1>14 DEF IInv, TypeInv

\* What Reply sends.
LEMMA ReplyFacts ==
    ASSUME IInv, NEW s \in Servers, NEW x \in work[s], Reply(s, x),
           NEW r, r = Message("response", x.req.class, x.req.worker, s, x.done)
    PROVE  /\ IsMessage(r) /\ r.type = "response" /\ r.class = x.req.class
           /\ r.worker = x.req.worker /\ r.server = s
           /\ r.items = x.done
           /\ DOMAIN r.items = DOMAIN x.req.items
<1>1. /\ r.type = "response" /\ r.class = x.req.class
      /\ r.worker = x.req.worker /\ r.server = s /\ r.items = x.done
  BY DEF Message
<1>2. IsWork(s, x) /\ IsMessage(x.req)
  BY WorkFacts DEF IsWork
<1>3. DOMAIN x.done = DOMAIN x.req.items
  BY <1>2 DEF Reply, Todo, IsWork
<1>4. IsMessage(r)
  BY <1>1, <1>2, <1>3 DEF IsMessage, IsWork
<1> QED
  BY <1>1, <1>3, <1>4

\* A request leaves the thread's hands, and its answer is a message.
LEMMA InvReply ==
    ASSUME IInv, NEW s \in Servers, NEW x \in work[s], Reply(s, x)
    PROVE  IInv'
<1> DEFINE r == Message("response", x.req.class, x.req.worker, s, x.done)
<1>1. /\ UNCHANGED <<async_exec_num, push_counter, backups, table, failed, stored, pc, batch,
                     params, grads, num_reqs, open, rounds, steps>>
      /\ msgs' = msgs \cup {r}
      /\ work' = [work EXCEPT ![s] = work[s] \ {x}]
  BY DEF Reply, WorkerSide, cache, barrier, count, backup
<1>2. /\ IsMessage(r) /\ r.type = "response" /\ r.class = x.req.class
      /\ r.worker = x.req.worker /\ r.server = s
      /\ r.items = x.done
      /\ DOMAIN r.items = DOMAIN x.req.items
  BY ReplyFacts
<1> HIDE DEF r
<1>3. DOMAIN work = Servers
  BY DEF IInv, TypeInv, WorkTypes
<1>4. /\ DOMAIN work' = Servers
      /\ work'[s] = work[s] \ {x}
      /\ \A t \in Servers : t # s => work'[t] = work[t]
  BY <1>1, <1>3
<1>5. \A n \in msgs \cup stored : n.worker = r.worker => n.server # s
  BY <1>2 DEF IInv, OneCall
<1>6. msgs' \cup stored' = (msgs \cup stored) \cup {r} /\ r \notin stored
  BY <1>1, <1>2, <1>5
<1>7. \A y \in work'[s] : y.req.worker # r.worker
  BY <1>2, <1>4 DEF IInv, OneCall
<1>8. WorkTypes'
  <2>1. IsFiniteSet(work[s]) /\ Cardinality(work[s]) <= async_exec_num
    BY DEF IInv, TypeInv, WorkTypes
  <2>2. IsFiniteSet(work'[s]) /\ Cardinality(work'[s]) = Cardinality(work[s]) - 1
    BY <1>4, <2>1, FS_RemoveElement
  <2>3. Cardinality(work[s]) \in Nat /\ async_exec_num \in Nat
    BY <2>1, FS_CardinalityType, ThreadsType
  <2>4. Cardinality(work'[s]) <= async_exec_num
    BY <2>1, <2>2, <2>3
  <2> QED
    BY <1>1, <1>4, <2>2, <2>4 DEF IInv, TypeInv, WorkTypes
<1>9. ServerTypes' /\ MessageTypes' /\ WorkerTypes'
  <2>1. ServerTypes'
    BY <1>1 DEF IInv, TypeInv, ServerTypes
  <2>2. MessageTypes'
    BY <1>1, <1>2, <1>6 DEF IInv, TypeInv, MessageTypes
  <2>3. WorkerTypes'
    BY <1>1 DEF IInv, TypeInv, WorkerTypes
  <2> QED
    BY <2>1, <2>2, <2>3
<1>10. OneCall'
  <2>1. \A m, n \in msgs' \cup stored' : m.worker = n.worker /\ m.server = n.server => m = n
    BY <1>2, <1>5, <1>6 DEF IInv, OneCall
  <2>2. \A t \in Servers : \A y, z \in work'[t] : y.req.worker = z.req.worker => y = z
    BY <1>4 DEF IInv, OneCall
  <2>3. \A t \in Servers : \A y \in work'[t] : \A n \in msgs' \cup stored' :
           n.worker = y.req.worker => n.server # t
    BY <1>2, <1>4, <1>6, <1>7 DEF IInv, OneCall
  <2>4. msgs' \cap stored' = {}
    BY <1>1, <1>6 DEF IInv, OneCall
  <2> QED
    BY <2>1, <2>2, <2>3, <2>4 DEF OneCall
<1>11. ASSUME NEW w \in Workers PROVE Owing(w)' = Owing(w)
  <2>1. ASSUME NEW t \in Servers
        PROVE  t \in Owing(w)' <=> t \in Owing(w)
    <3>1. CASE t # s
      BY <1>1, <1>2, <1>4, <1>6, <3>1 DEF Owing
    <3>2. CASE t = s
      BY <1>1, <1>2, <1>4, <1>6, <3>2 DEF Owing
    <3> QED
      BY <3>1, <3>2
  <2> QED
    BY <2>1 DEF Owing
<1>12. BarrierCounts' /\ Cached'
  BY <1>1, <1>11 DEF IInv, BarrierCounts, Cached
<1>13. CallsInRound'
  <2>1. \A n : InRound(n)' = InRound(n)
    BY <1>1 DEF InRound
  <2>2. InRound(x.req)
    BY DEF IInv, CallsInRound
  <2>3. x.req.server = s
    BY WorkFacts DEF IsWork
  <2>4. InRound(r)
    BY <1>2, <2>2, <2>3 DEF InRound
  <2>5. \A t \in Servers : \A y \in work'[t] : InRound(y.req)
    BY <1>4 DEF IInv, CallsInRound
  <2>6. \A n \in msgs \cup stored : InRound(n)
    BY DEF IInv, CallsInRound
  <2> QED
    BY <1>6, <2>1, <2>4, <2>5, <2>6 DEF CallsInRound
<1>14. Inited'
  <2>1. DOMAIN r.items \subseteq DOMAIN table
    BY <1>2, WorkFacts
  <2>2. \A n \in msgs' \cup stored' :
           n.type = "response" \/ n.class = "push" => DOMAIN n.items \subseteq DOMAIN table
    BY <1>6, <2>1 DEF IInv, Inited
  <2>3. \A t \in Servers : \A y \in work'[t] :
           /\ y.req.class = "push" => DOMAIN y.req.items \subseteq DOMAIN table
           /\ DOMAIN y.done \subseteq DOMAIN table
    BY <1>4 DEF IInv, Inited
  <2> QED
    BY <1>1, <2>2, <2>3 DEF IInv, Inited, NewKeysAreInited
<1> QED
  BY <1>8, <1>9, <1>10, <1>12, <1>13, <1>14 DEF IInv, TypeInv

-----------------------------------------------------------------------------
(* The worker's side leaves the servers alone.                             *)

LEMMA ServerSide ==
    ASSUME IInv, UNCHANGED server
    PROVE  ServerTypes' /\ WorkTypes'
  BY DEF server, backup, IInv, TypeInv, ServerTypes, WorkTypes

LEMMA InvStoreParams ==
    ASSUME IInv, NEW m \in msgs, StoreParams(m)
    PROVE  IInv'
<1> DEFINE w0 == m.worker
           fresh == [k \in DOMAIN m.items |-> {}]
<1>1. /\ UNCHANGED <<async_exec_num, push_counter, backups, table, failed, work, pc, batch,
                     num_reqs, open, rounds, steps>>
      /\ m.type = "response" /\ m.class = "pull"
      /\ msgs' = msgs \ {m} /\ stored' = stored \cup {m}
      /\ params' = [params EXCEPT ![w0] = Written(params[w0], m.items)]
      /\ grads' = [grads EXCEPT ![w0] = Written(grads[w0], fresh)]
  BY DEF StoreParams, server, backup, barrier, count
<1>2. IsMessage(m) /\ w0 \in Workers /\ IsMap(m.items)
  BY DEF IInv, TypeInv, MessageTypes, IsMessage
<1>3. IsMap(fresh) /\ DOMAIN fresh = DOMAIN m.items
  BY <1>2 DEF IsMap
<1> HIDE DEF fresh
<1>4. /\ DOMAIN params = Workers /\ DOMAIN grads = Workers
      /\ \A w \in Workers : /\ IsMap(params[w]) /\ IsMap(grads[w])
                            /\ DOMAIN params[w] = DOMAIN grads[w]
  BY DEF IInv, TypeInv, WorkerTypes
<1>5. /\ IsMap(params'[w0]) /\ IsMap(grads'[w0])
      /\ DOMAIN params'[w0] = DOMAIN params[w0] \cup DOMAIN m.items
      /\ DOMAIN grads'[w0] = DOMAIN grads[w0] \cup DOMAIN m.items
  <2>1. params'[w0] = Written(params[w0], m.items) /\ grads'[w0] = Written(grads[w0], fresh)
    BY <1>1, <1>2, <1>4
  <2>2. /\ IsMap(Written(params[w0], m.items))
        /\ DOMAIN Written(params[w0], m.items) = DOMAIN params[w0] \cup DOMAIN m.items
    BY <1>2, <1>4, WrittenMap
  <2>3. /\ IsMap(Written(grads[w0], fresh))
        /\ DOMAIN Written(grads[w0], fresh) = DOMAIN grads[w0] \cup DOMAIN fresh
    BY <1>2, <1>3, <1>4, WrittenMap
  <2> QED
    BY <1>3, <2>1, <2>2, <2>3
<1>6. \A w \in Workers : w # w0 => params'[w] = params[w] /\ grads'[w] = grads[w]
  BY <1>1, <1>4
<1>7. DOMAIN params' = Workers /\ DOMAIN grads' = Workers
  BY <1>1, <1>4
<1>8. msgs' \cup stored' = msgs \cup stored
  BY <1>1
<1>9. ServerTypes' /\ WorkTypes' /\ MessageTypes' /\ WorkerTypes'
  <2>1. ServerTypes' /\ WorkTypes'
    BY <1>1, ServerSide DEF server, backup
  <2>2. MessageTypes'
    BY <1>1, <1>8 DEF IInv, TypeInv, MessageTypes
  <2>3. \A w \in Workers : /\ IsMap(params'[w]) /\ IsMap(grads'[w])
                           /\ DOMAIN params'[w] = DOMAIN grads'[w]
    BY <1>4, <1>5, <1>6
  <2>4. WorkerTypes'
    BY <1>1, <1>7, <2>3 DEF IInv, TypeInv, WorkerTypes
  <2> QED
    BY <2>1, <2>2, <2>4
<1>10. OneCall'
  BY <1>1, <1>8 DEF IInv, OneCall
<1>11. \A w : Owing(w)' = Owing(w)
  BY <1>1, <1>8 DEF Owing
<1>12. BarrierCounts'
  BY <1>1, <1>11 DEF IInv, BarrierCounts
<1>13. CallsInRound'
  BY <1>1, <1>8 DEF IInv, CallsInRound, InRound
<1>14. Cached'
  <2>1. \A w \in Workers : DOMAIN params[w] \subseteq DOMAIN params'[w]
    BY <1>5, <1>6
  <2>2. \A n \in stored' : DOMAIN n.items \subseteq DOMAIN params'[n.worker]
    <3>1. \A n \in stored : n.worker \in Workers /\ DOMAIN n.items \subseteq DOMAIN params[n.worker]
      BY DEF IInv, Cached, TypeInv, MessageTypes, IsMessage
    <3> QED
      BY <1>1, <1>5, <2>1, <3>1
  <2> QED
    BY <1>1, <1>11, <2>1, <2>2 DEF IInv, Cached
<1>15. Inited'
  <2>1. DOMAIN m.items \subseteq DOMAIN table
    BY <1>1 DEF IInv, Inited
  <2>2. \A w \in Workers : DOMAIN grads'[w] \subseteq DOMAIN table
    BY <1>5, <1>6, <2>1 DEF IInv, Inited
  <2> QED
    BY <1>1, <1>8, <2>2 DEF IInv, Inited, NewKeysAreInited
<1> QED
  BY <1>9, <1>10, <1>12, <1>13, <1>14, <1>15 DEF IInv, TypeInv

\* The server whose answer is counted owes the worker nothing any more.
LEMMA CountDownOwing ==
    ASSUME IInv, NEW m \in msgs \cup stored, CountDown(m)
    PROVE  /\ m.worker \in Workers /\ m.server \in Owing(m.worker)
           /\ Owing(m.worker)' = Owing(m.worker) \ {m.server}
           /\ \A w \in Workers : w # m.worker => Owing(w)' = Owing(w)
<1>1. m.worker \in Workers /\ m.server \in Servers
  BY DEF IInv, TypeInv, MessageTypes, IsMessage
<1>2. UNCHANGED work /\ msgs' \cup stored' = (msgs \cup stored) \ {m}
  BY DEF CountDown, server
<1>3. /\ \A n \in (msgs \cup stored) \ {m} : n.worker = m.worker => n.server # m.server
      /\ \A x \in work[m.server] : x.req.worker # m.worker
  BY <1>1 DEF IInv, OneCall
<1>4. ASSUME NEW w \in Workers, NEW t \in Servers
      PROVE  t \in Owing(w)' <=> t \in Owing(w) /\ ~(w = m.worker /\ t = m.server)
  <2>1. CASE w = m.worker /\ t = m.server
    BY <1>2, <1>3, <2>1 DEF Owing
  <2>2. CASE ~(w = m.worker /\ t = m.server)
    BY <1>2, <2>2 DEF Owing
  <2> QED
    BY <2>1, <2>2
<1>5. m.server \in Owing(m.worker)
  BY <1>1 DEF Owing
<1>6. \A w : Owing(w) \subseteq Servers /\ Owing(w)' \subseteq Servers
  BY DEF Owing
<1> QED
  BY <1>1, <1>4, <1>5, <1>6

LEMMA InvCountDown ==
    ASSUME IInv, NEW m \in msgs \cup stored, CountDown(m)
    PROVE  IInv'
<1> DEFINE w0 == m.worker
<1>1. /\ UNCHANGED <<async_exec_num, push_counter, backups, table, failed, work, pc, batch,
                     params, grads, rounds, steps>>
      /\ m \in stored \cup {x \in msgs : x.type = "response" /\ x.class = "push"}
      /\ msgs' = msgs \ {m} /\ stored' = stored \ {m}
      /\ num_reqs' = [num_reqs EXCEPT ![w0] = num_reqs[w0] - 1]
      /\ open' = [open EXCEPT ![w0] = open[w0] \/ num_reqs[w0] = 1]
  BY DEF CountDown, server, backup, cache, count
<1>2. msgs' \cup stored' = (msgs \cup stored) \ {m}
  BY <1>1
<1>3. /\ w0 \in Workers /\ m.server \in Owing(w0)
      /\ Owing(w0)' = Owing(w0) \ {m.server}
      /\ \A w \in Workers : w # w0 => Owing(w)' = Owing(w)
  BY CountDownOwing
<1>4. /\ Cardinality(Owing(w0)) \in Nat /\ Cardinality(Owing(w0)) > 0
      /\ Cardinality(Owing(w0)') = Cardinality(Owing(w0)) - 1
  <2>1. IsFiniteSet(Owing(w0)) /\ Cardinality(Owing(w0)) \in Nat
    BY OwingIsFinite, ParamServerAssumption
  <2>2. Cardinality(Owing(w0)) # 0
    BY <1>3, <2>1, FS_EmptySet
  <2>3. Cardinality(Owing(w0) \ {m.server}) = Cardinality(Owing(w0)) - 1
    BY <1>3, <2>1, FS_RemoveElement
  <2> QED
    BY <1>3, <2>1, <2>2, <2>3
<1>5. /\ num_reqs \in [Workers -> 0 .. ServerNum] /\ open \in [Workers -> BOOLEAN]
      /\ ServerNum \in Nat
  BY ParamServerAssumption DEF IInv, TypeInv, WorkerTypes
<1>6. Cardinality(Owing(w0)) <= num_reqs[w0] /\ num_reqs[w0] \in Nat /\ num_reqs[w0] > 0
  <2>1. Cardinality(Owing(w0)) <= num_reqs[w0]
    BY <1>3 DEF IInv, BarrierCounts
  <2> QED
    BY <1>3, <1>4, <1>5, <2>1
<1>7. pc[w0] # "ready" /\ ~open[w0]
  BY <1>3, NothingOwed
<1>8. ServerTypes' /\ WorkTypes' /\ MessageTypes' /\ WorkerTypes'
  <2>1. ServerTypes' /\ WorkTypes'
    BY <1>1, ServerSide DEF server, backup
  <2>2. MessageTypes'
    BY <1>1, <1>2 DEF IInv, TypeInv, MessageTypes
  <2>3. num_reqs' \in [Workers -> 0 .. ServerNum] /\ open' \in [Workers -> BOOLEAN]
    <3>1. num_reqs[w0] - 1 \in 0 .. ServerNum
      BY <1>3, <1>5, <1>6
    <3>2. (open[w0] \/ num_reqs[w0] = 1) \in BOOLEAN
      OBVIOUS
    <3> QED
      BY <1>1, <1>5, <3>1, <3>2
  <2>4. WorkerTypes'
    BY <1>1, <2>3 DEF IInv, TypeInv, WorkerTypes
  <2> QED
    BY <2>1, <2>2, <2>4
<1>9. OneCall'
  BY <1>1, <1>2 DEF IInv, OneCall
<1>10. BarrierCounts'
  <2>1. num_reqs'[w0] = num_reqs[w0] - 1 /\ (open'[w0] <=> num_reqs[w0] = 1)
    BY <1>1, <1>3, <1>5, <1>7
  <2>2. \A w \in Workers : w # w0 => num_reqs'[w] = num_reqs[w] /\ open'[w] = open[w]
    BY <1>1, <1>5
  <2>3. PushOnlyPulled => num_reqs[w0] = Cardinality(Owing(w0))
    BY <1>3 DEF IInv, BarrierCounts
  <2>4. /\ Cardinality(Owing(w0)') <= num_reqs'[w0]
        /\ PushOnlyPulled => num_reqs'[w0] = Cardinality(Owing(w0)')
        /\ open'[w0] => num_reqs'[w0] = 0
        /\ ~open'[w0] => num_reqs'[w0] > 0
    <3> DEFINE c == Cardinality(Owing(w0))
               n == num_reqs[w0]
    <3>1. /\ c \in Nat /\ c > 0 /\ c <= n /\ n \in Nat /\ (PushOnlyPulled => n = c)
          /\ Cardinality(Owing(w0)') = c - 1 /\ num_reqs'[w0] = n - 1
          /\ open'[w0] <=> n = 1
      BY <1>4, <1>6, <2>1, <2>3
    <3> HIDE DEF c, n
    <3> QED
      BY <3>1
  <2>5. ASSUME NEW w \in Workers, w # w0
        PROVE  /\ Cardinality(Owing(w)') <= num_reqs'[w]
               /\ PushOnlyPulled => num_reqs'[w] = Cardinality(Owing(w)')
               /\ pc'[w] = "ready" \/ open'[w] => num_reqs'[w] = 0
               /\ pc'[w] = "ready" => ~open'[w]
               /\ pc'[w] # "ready" /\ ~open'[w] => num_reqs'[w] > 0 \/ batch'[w] = {}
    <3>1. /\ Cardinality(Owing(w)) <= num_reqs[w]
          /\ PushOnlyPulled => num_reqs[w] = Cardinality(Owing(w))
          /\ pc[w] = "ready" \/ open[w] => num_reqs[w] = 0
          /\ pc[w] = "ready" => ~open[w]
          /\ pc[w] # "ready" /\ ~open[w] => num_reqs[w] > 0 \/ batch[w] = {}
      BY DEF IInv, BarrierCounts
    <3>2. Owing(w)' = Owing(w)
      BY <1>3, <2>5
    <3> QED
      BY <1>1, <2>2, <2>5, <3>1, <3>2
  <2> QED
    BY <1>1, <1>7, <2>4, <2>5 DEF BarrierCounts
<1>11. CallsInRound'
  BY <1>1, <1>2 DEF IInv, CallsInRound, InRound
<1>12. Cached'
  <2>1. ASSUME NEW w \in Workers, pc[w] = "pulling", NEW k \in batch[w],
               k \notin DOMAIN params[w]
        PROVE  NodeOf(k) \in Owing(w)'
    <3>1. NodeOf(k) \in Owing(w)
      BY <2>1 DEF IInv, Cached
    <3>2. CASE w = w0 /\ NodeOf(k) = m.server
      <4>1. InRound(m)
        BY DEF IInv, CallsInRound
      <4>2. m.class = "pull"
        BY <2>1, <3>2, <4>1, <1>1
           DEF InRound, IInv, TypeInv, MessageTypes, IsMessage
      <4>3. m \in stored
        BY <1>1, <4>2
      <4>4. k \in DOMAIN m.items
        BY <2>1, <3>2, <4>1, <4>2 DEF InRound
      <4> QED
        BY <2>1, <3>2, <4>3, <4>4 DEF IInv, Cached
    <3>3. CASE ~(w = w0 /\ NodeOf(k) = m.server)
      BY <1>3, <3>1, <3>3
    <3> QED
      BY <3>2, <3>3
  <2>2. \A n \in stored' : DOMAIN n.items \subseteq DOMAIN params'[n.worker]
    BY <1>1 DEF IInv, Cached
  <2> QED
    BY <1>1, <2>1, <2>2 DEF Cached
<1>13. Inited'
  BY <1>1, <1>2 DEF IInv, Inited, NewKeysAreInited
<1> QED
  BY <1>8, <1>9, <1>10, <1>11, <1>12, <1>13 DEF IInv, TypeInv

(***************************************************************************)
(* A round begins: the messages asked are all w has under way, one to each *)
(* server, and the barrier counts the servers of the batch.                *)
(***************************************************************************)
Asks(w, place, b, asked) ==
    /\ pc[w] = "ready" /\ rounds[w] < MaxRounds
    /\ Begin(w, place, b)
    /\ num_reqs' = [num_reqs EXCEPT ![w] = Cardinality({NodeOf(k) : k \in b})]
    /\ msgs' = msgs \cup asked
    /\ UNCHANGED <<server, stored, params, steps>>
    /\ \A m \in asked :
          /\ IsMessage(m) /\ m.type = "request" /\ m.worker = w
          /\ m.class = IF place = "pulling" THEN "pull" ELSE "push"
          /\ m.server \in {NodeOf(k) : k \in b}
          /\ place = "pulling" => DOMAIN m.items = {k \in b : NodeOf(k) = m.server}
          /\ place = "pushing" => DOMAIN m.items \subseteq DOMAIN table
    /\ \A m, n \in asked : m.server = n.server => m = n
    /\ place = "pulling" \/ PushOnlyPulled => \A k \in b : \E m \in asked : m.server = NodeOf(k)
    /\ DOMAIN grads' = Workers
    /\ \A v \in Workers : IsMap(grads'[v]) /\ DOMAIN grads'[v] = DOMAIN grads[v]

LEMMA InvAsks ==
    ASSUME IInv, NEW w \in Workers, NEW place \in {"pulling", "pushing"},
           NEW b \in SUBSET Keys, NEW asked, Asks(w, place, b, asked)
    PROVE  IInv'
<1> DEFINE servers == {NodeOf(k) : k \in b}
<1>1. /\ UNCHANGED <<async_exec_num, push_counter, backups, table, failed, work, stored,
                     params, steps, open>>
      /\ pc' = [pc EXCEPT ![w] = place] /\ batch' = [batch EXCEPT ![w] = b]
      /\ rounds' = [rounds EXCEPT ![w] = rounds[w] + 1]
      /\ num_reqs' = [num_reqs EXCEPT ![w] = Cardinality(servers)]
      /\ msgs' = msgs \cup asked
      /\ DOMAIN grads' = Workers
      /\ \A v \in Workers : IsMap(grads'[v]) /\ DOMAIN grads'[v] = DOMAIN grads[v]
      /\ pc[w] = "ready"
  BY DEF Asks, Begin, server, backup
<1>2. \A m \in asked :
         /\ IsMessage(m) /\ m.type = "request" /\ m.worker = w
         /\ m.class = IF place = "pulling" THEN "pull" ELSE "push"
         /\ m.server \in servers
         /\ place = "pulling" => DOMAIN m.items = {k \in b : NodeOf(k) = m.server}
         /\ place = "pushing" => DOMAIN m.items \subseteq DOMAIN table
  BY DEF Asks
<1>3. /\ \A m, n \in asked : m.server = n.server => m = n
      /\ place = "pulling" \/ PushOnlyPulled => \A k \in b : \E m \in asked : m.server = NodeOf(k)
  BY DEF Asks
<1>4. /\ \A m \in msgs \cup stored : m.worker # w
      /\ \A s \in Servers : \A x \in work[s] : x.req.worker # w
  BY <1>1, NothingOwed
<1>5. servers \subseteq Servers /\ Cardinality(servers) \in 0 .. ServerNum /\ IsFiniteSet(servers)
  <2>1. servers \in SUBSET Servers
    BY OwnerIsServer
  <2> QED
    BY <2>1, ServersAreFinite
<1>6. servers = {} => b = {}
  OBVIOUS
<1> HIDE DEF servers
<1>7. msgs' \cup stored' = (msgs \cup stored) \cup asked
  BY <1>1
<1>8. /\ pc \in [Workers -> {"ready", "pulling", "pushing"}]
      /\ batch \in [Workers -> SUBSET Keys]
      /\ num_reqs \in [Workers -> 0 .. ServerNum]
      /\ rounds \in [Workers -> 0 .. MaxRounds]
  BY DEF IInv, TypeInv, WorkerTypes
<1>9. /\ pc'[w] = place /\ batch'[w] = b /\ num_reqs'[w] = Cardinality(servers)
      /\ \A v \in Workers : v # w => /\ pc'[v] = pc[v] /\ batch'[v] = batch[v]
                                     /\ num_reqs'[v] = num_reqs[v]
  BY <1>1, <1>8
<1>10. ServerTypes' /\ WorkTypes' /\ MessageTypes' /\ WorkerTypes'
  <2>1. ServerTypes' /\ WorkTypes'
    BY <1>1, ServerSide DEF server, backup
  <2>2. MessageTypes'
    BY <1>1, <1>2, <1>7 DEF IInv, TypeInv, MessageTypes
  <2>3. rounds' \in [Workers -> 0 .. MaxRounds]
    <3>1. MaxRounds \in Nat /\ rounds[w] \in 0 .. MaxRounds /\ rounds[w] < MaxRounds
      BY <1>8, ParamServerAssumption DEF Asks
    <3>2. rounds[w] + 1 \in 0 .. MaxRounds
      BY <3>1
    <3> QED
      BY <1>1, <1>8, <3>2
  <2>4. /\ pc' \in [Workers -> {"ready", "pulling", "pushing"}]
        /\ batch' \in [Workers -> SUBSET Keys]
        /\ num_reqs' \in [Workers -> 0 .. ServerNum]
    BY <1>1, <1>5, <1>8
  <2>5. /\ DOMAIN params = Workers
        /\ \A v \in Workers : IsMap(params[v]) /\ DOMAIN params[v] = DOMAIN grads[v]
        /\ open \in [Workers -> BOOLEAN] /\ steps \in [Workers -> 0 .. MaxSteps]
    BY DEF IInv, TypeInv, WorkerTypes
  <2>6. WorkerTypes'
    BY <1>1, <2>3, <2>4, <2>5 DEF WorkerTypes
  <2> QED
    BY <2>1, <2>2, <2>6
<1>11. OneCall'
  <2>1. \A m, n \in msgs' \cup stored' : m.worker = n.worker /\ m.server = n.server => m = n
    BY <1>2, <1>3, <1>4, <1>7 DEF IInv, OneCall
  <2>2. \A s \in Servers : \A x, y \in work[s] : x.req.worker = y.req.worker => x = y
    BY DEF IInv, OneCall
  <2>3. \A s \in Servers : \A x \in work[s] : \A m \in msgs' \cup stored' :
           m.worker = x.req.worker => m.server # s
    BY <1>2, <1>4, <1>7 DEF IInv, OneCall
  <2>4. msgs' \cap stored' = {}
    BY <1>1, <1>2, <1>4 DEF IInv, OneCall
  <2> QED
    BY <1>1, <2>1, <2>2, <2>3, <2>4 DEF OneCall
<1>12. /\ Owing(w)' = {m.server : m \in asked}
       /\ \A v \in Workers : v # w => Owing(v)' = Owing(v)
  <2>1. ASSUME NEW s \in Servers
        PROVE  s \in Owing(w)' <=> \E m \in asked : m.server = s
    BY <1>1, <1>2, <1>4, <1>7 DEF Owing
  <2>2. \A m \in asked : m.server \in Servers
    BY <1>2 DEF IsMessage
  <2>3. Owing(w)' \subseteq Servers
    BY DEF Owing
  <2>4. ASSUME NEW v \in Workers, v # w, NEW s \in Servers
        PROVE  s \in Owing(v)' <=> s \in Owing(v)
    BY <1>1, <1>2, <1>7, <2>4 DEF Owing
  <2>5. \A v \in Workers : v # w => Owing(v)' = Owing(v)
    BY <2>4 DEF Owing
  <2> QED
    BY <2>1, <2>2, <2>3, <2>5
<1>13. /\ Owing(w)' \subseteq servers
       /\ place = "pulling" \/ PushOnlyPulled => Owing(w)' = servers
  BY <1>2, <1>3, <1>12 DEF servers
<1>14. BarrierCounts'
  <2>1. /\ Cardinality(Owing(w)') <= Cardinality(servers)
        /\ PushOnlyPulled => Cardinality(servers) = Cardinality(Owing(w)')
    BY <1>5, <1>13, FS_Subset
  <2>2. pc'[w] # "ready" /\ ~open'[w]
    BY <1>1, <1>9 DEF IInv, BarrierCounts
  <2>3. Cardinality(servers) > 0 \/ b = {}
    BY <1>5, <1>6, FS_EmptySet, ParamServerAssumption
  <2>4. ASSUME NEW v \in Workers, v # w
        PROVE  /\ Cardinality(Owing(v)') <= num_reqs'[v]
               /\ PushOnlyPulled => num_reqs'[v] = Cardinality(Owing(v)')
               /\ pc'[v] = "ready" \/ open'[v] => num_reqs'[v] = 0
               /\ pc'[v] = "ready" => ~open'[v]
               /\ pc'[v] # "ready" /\ ~open'[v] => num_reqs'[v] > 0 \/ batch'[v] = {}
    <3>1. /\ Cardinality(Owing(v)) <= num_reqs[v]
          /\ PushOnlyPulled => num_reqs[v] = Cardinality(Owing(v))
          /\ pc[v] = "ready" \/ open[v] => num_reqs[v] = 0
          /\ pc[v] = "ready" => ~open[v]
          /\ pc[v] # "ready" /\ ~open[v] => num_reqs[v] > 0 \/ batch[v] = {}
      BY DEF IInv, BarrierCounts
    <3>2. Owing(v)' = Owing(v)
      BY <1>12, <2>4
    <3> QED
      BY <1>1, <1>9, <2>4, <3>1, <3>2
  <2> QED
    BY <1>9, <2>1, <2>2, <2>3, <2>4 DEF BarrierCounts
<1>15. CallsInRound'
  <2>1. \A m \in asked : InRound(m)'
    BY <1>2, <1>9 DEF InRound
  <2>2. ASSUME NEW m, m.worker # w, m.worker \in Workers, InRound(m) PROVE InRound(m)'
    BY <1>9, <2>2 DEF InRound
  <2>3. \A m \in msgs \cup stored : m.worker \in Workers /\ InRound(m)
    BY DEF IInv, CallsInRound, TypeInv, MessageTypes, IsMessage
  <2>4. \A s \in Servers : \A x \in work[s] : x.req.worker \in Workers /\ InRound(x.req)
    BY DEF IInv, CallsInRound, TypeInv, WorkTypes, IsWork, IsMessage
  <2>5. \A m \in msgs' \cup stored' : InRound(m)'
    BY <1>4, <1>7, <2>1, <2>2, <2>3
  <2>6. \A s \in Servers : \A x \in work[s] : InRound(x.req)'
    BY <1>4, <2>2, <2>4
  <2> QED
    BY <1>1, <2>5, <2>6 DEF CallsInRound
<1>16. Cached'
  <2>1. ASSUME NEW v \in Workers, pc'[v] = "pulling", NEW k \in batch'[v]
        PROVE  k \in DOMAIN params[v] \/ NodeOf(k) \in Owing(v)'
    <3>1. CASE v = w
      <4>1. k \in b /\ place = "pulling"
        BY <1>9, <2>1, <3>1
      <4> QED
        BY <1>13, <3>1, <4>1 DEF servers
    <3>2. CASE v # w
      BY <1>9, <1>12, <2>1, <3>2 DEF IInv, Cached
    <3> QED
      BY <3>1, <3>2
  <2> QED
    BY <1>1, <2>1 DEF IInv, Cached
<1>17. Inited'
  <2>1. \A m \in msgs' \cup stored' :
           m.type = "response" \/ m.class = "push" => DOMAIN m.items \subseteq DOMAIN table
    BY <1>2, <1>7 DEF IInv, Inited
  <2>2. \A v \in Workers : DOMAIN grads'[v] \subseteq DOMAIN table
    BY <1>1 DEF IInv, Inited
  <2> QED
    BY <1>1, <2>1, <2>2 DEF IInv, Inited, NewKeysAreInited
<1> QED
  BY <1>10, <1>11, <1>14, <1>15, <1>16, <1>17 DEF IInv, TypeInv

\* The shape of the messages of Pull and Push.
LEMMA RequestFields ==
    ASSUME NEW class, NEW w, NEW s, NEW items, NEW m,
           m = Message("request", class, w, s, items)
    PROVE  /\ m.type = "request" /\ m.class = class /\ m.worker = w
           /\ m.server = s /\ m.items = items
  BY DEF Message

LEMMA InvPull ==
    ASSUME IInv, NEW w \in Workers, NEW b \in Batches, Pull(w, b)
    PROVE  IInv'
<1> DEFINE servers == {NodeOf(k) : k \in b}
           wanted(s) == [k \in {x \in b : NodeOf(x) = s} |-> {}]
           asked == {Message("request", "pull", w, s, wanted(s)) : s \in servers}
<1>1. b \in SUBSET Keys
  BY ParamServerAssumption
<1>2. servers \subseteq Servers
  BY <1>1, OwnerIsServer
<1>3. \A s : IsMap(wanted(s)) /\ DOMAIN wanted(s) = {k \in b : NodeOf(k) = s}
             /\ DOMAIN wanted(s) \subseteq Owned(s)
  BY <1>1 DEF IsMap, Owned
<1> HIDE DEF wanted
<1>4. \A m \in asked : \E s \in servers :
         /\ m = Message("request", "pull", w, s, wanted(s))
         /\ m.type = "request" /\ m.class = "pull" /\ m.worker = w
         /\ m.server = s /\ m.items = wanted(s)
  BY RequestFields
<1>5. ASSUME NEW s \in servers PROVE \E m \in asked : m.server = s
  <2> DEFINE m == Message("request", "pull", w, s, wanted(s))
  <2>1. m \in asked /\ m.server = s
    BY DEF Message
  <2> QED
    BY <2>1
<1>6. /\ pc[w] = "ready" /\ rounds[w] < MaxRounds
      /\ Begin(w, "pulling", b)
      /\ num_reqs' = [num_reqs EXCEPT ![w] = Cardinality(servers)]
      /\ msgs' = msgs \cup asked
      /\ UNCHANGED <<server, stored, params, grads, steps>>
  BY DEF Pull, cache, wanted
<1>7. \A k \in b : NodeOf(k) \in servers
  OBVIOUS
<1>8. DOMAIN grads = Workers /\ \A v \in Workers : IsMap(grads[v])
  BY DEF IInv, TypeInv, WorkerTypes
<1>9. \A m \in asked :
         /\ IsMessage(m) /\ m.type = "request" /\ m.worker = w /\ m.class = "pull"
         /\ m.server \in servers
         /\ DOMAIN m.items = {k \in b : NodeOf(k) = m.server}
  BY <1>2, <1>3, <1>4 DEF IsMessage
<1>10. \A m, n \in asked : m.server = n.server => m = n
  BY <1>4
<1> HIDE DEF asked
<1>11. Asks(w, "pulling", b, asked)
  BY <1>5, <1>6, <1>7, <1>8, <1>9, <1>10 DEF Asks
<1> QED
  BY <1>1, <1>11, InvAsks

LEMMA InvPush ==
    ASSUME IInv, NEW w \in Workers, NEW b \in Batches, Push(w, b)
    PROVE  IInv'
<1> DEFINE sent == b \cap DOMAIN grads[w]
           servers == {NodeOf(k) : k \in sent}
           pushed(s) == [k \in {x \in sent : NodeOf(x) = s} |-> grads[w][k]]
           asked == {Message("request", "push", w, s, pushed(s)) : s \in servers}
<1>1. b \in SUBSET Keys
  BY ParamServerAssumption
<1>2. servers \subseteq Servers
  BY <1>1, OwnerIsServer
<1>3. /\ DOMAIN grads = Workers
      /\ \A v \in Workers : IsMap(grads[v]) /\ DOMAIN grads[v] \subseteq DOMAIN table
  BY DEF IInv, TypeInv, WorkerTypes, Inited
<1>4. \A s : /\ IsMap(pushed(s)) /\ DOMAIN pushed(s) \subseteq DOMAIN table
             /\ DOMAIN pushed(s) \subseteq Owned(s)
  BY <1>1, <1>3 DEF IsMap, Owned
<1>5. asked = PushRequests(w, b)
  BY DEF PushRequests
<1> HIDE DEF pushed
<1>6. \A m \in asked : \E s \in servers :
         /\ m = Message("request", "push", w, s, pushed(s))
         /\ m.type = "request" /\ m.class = "push" /\ m.worker = w
         /\ m.server = s /\ m.items = pushed(s)
  BY RequestFields
<1>7. ASSUME NEW s \in servers PROVE \E m \in asked : m.server = s
  <2> DEFINE m == Message("request", "push", w, s, pushed(s))
  <2>1. m \in asked /\ m.server = s
    BY DEF Message
  <2> QED
    BY <2>1
<1>8. /\ pc[w] = "ready" /\ rounds[w] < MaxRounds
      /\ Begin(w, "pushing", b)
      /\ num_reqs' = [num_reqs EXCEPT ![w] = Cardinality({NodeOf(k) : k \in b})]
      /\ msgs' = msgs \cup asked
      /\ grads' = [grads EXCEPT ![w] = [k \in DOMAIN grads[w] |->
                                          IF k \in b THEN {} ELSE grads[w][k]]]
      /\ UNCHANGED <<server, stored, params, steps>>
      /\ MayPush(w, b)
  BY <1>5 DEF Push
<1>9. /\ DOMAIN grads' = Workers
      /\ \A v \in Workers : IsMap(grads'[v]) /\ DOMAIN grads'[v] = DOMAIN grads[v]
  BY <1>3, <1>8 DEF IsMap
<1>10. \A m \in asked :
         /\ IsMessage(m) /\ m.type = "request" /\ m.worker = w /\ m.class = "push"
         /\ m.server \in {NodeOf(k) : k \in b}
         /\ DOMAIN m.items \subseteq DOMAIN table
  BY <1>2, <1>4, <1>6 DEF IsMessage
<1>11. \A m, n \in asked : m.server = n.server => m = n
  BY <1>6
<1>12. PushOnlyPulled => \A k \in b : \E m \in asked : m.server = NodeOf(k)
  BY <1>7, <1>8 DEF MayPush
<1> HIDE DEF asked
<1>13. Asks(w, "pushing", b, asked)
  BY <1>8, <1>9, <1>10, <1>11, <1>12 DEF Asks
<1> QED
  BY <1>1, <1>13, InvAsks

LEMMA InvTrain ==
    ASSUME IInv, NEW w \in Workers, NEW b \in Batches, Train(w, b)
    PROVE  IInv'
<1> DEFINE trained == [k \in DOMAIN grads[w] |->
                         IF k \in b THEN grads[w][k] \cup {<<w, steps[w]>>} ELSE grads[w][k]]
<1>1. /\ UNCHANGED <<async_exec_num, push_counter, backups, table, failed, work, msgs, stored,
                     pc, batch, params, num_reqs, open, rounds>>
      /\ steps[w] < MaxSteps
      /\ steps' = [steps EXCEPT ![w] = steps[w] + 1]
      /\ grads' = [grads EXCEPT ![w] = trained]
  BY DEF Train, server, backup, barrier
<1>2. DOMAIN grads = Workers /\ \A v \in Workers : IsMap(grads[v])
  BY DEF IInv, TypeInv, WorkerTypes
<1>3. steps \in [Workers -> 0 .. MaxSteps] /\ MaxSteps \in Nat
  BY ParamServerAssumption DEF IInv, TypeInv, WorkerTypes
<1>4. steps[w] \in 0 .. MaxSteps /\ steps[w] + 1 \in 0 .. MaxSteps /\ steps[w] \in 0 .. MaxSteps - 1
  BY <1>1, <1>3
<1>5. <<w, steps[w]>> \in Gradients
  BY <1>4 DEF Gradients
<1>6. IsMap(trained) /\ DOMAIN trained = DOMAIN grads[w]
  BY <1>2, <1>5 DEF IsMap
<1> HIDE DEF trained
<1>7. /\ DOMAIN grads' = Workers
      /\ \A v \in Workers : IsMap(grads'[v]) /\ DOMAIN grads'[v] = DOMAIN grads[v]
  BY <1>1, <1>2, <1>6
<1>8. steps' \in [Workers -> 0 .. MaxSteps]
  BY <1>1, <1>3, <1>4
<1>9. ServerTypes' /\ WorkTypes'
  BY <1>1, ServerSide DEF server, backup
<1>10. MessageTypes' /\ WorkerTypes'
  BY <1>1, <1>7, <1>8 DEF IInv, TypeInv, MessageTypes, WorkerTypes
<1>11. OneCall' /\ CallsInRound'
  BY <1>1 DEF IInv, OneCall, CallsInRound, InRound
<1>12. \A v : Owing(v)' = Owing(v)
  BY <1>1 DEF Owing
<1>13. BarrierCounts' /\ Cached'
  BY <1>1, <1>12 DEF IInv, BarrierCounts, Cached
<1>14. Inited'
  BY <1>1, <1>7 DEF IInv, Inited, NewKeysAreInited
<1> QED
  BY <1>9, <1>10, <1>11, <1>13, <1>14 DEF IInv, TypeInv

LEMMA InvPassBarrier ==
    ASSUME IInv, NEW w \in Workers, PassBarrier(w)
    PROVE  IInv'
<1>1. /\ UNCHANGED <<async_exec_num, push_counter, backups, table, failed, work, msgs, stored,
                     params, grads, num_reqs, rounds, steps>>
      /\ open[w]
      /\ pc' = [pc EXCEPT ![w] = "ready"] /\ batch' = [batch EXCEPT ![w] = {}]
      /\ open' = [open EXCEPT ![w] = FALSE]
  BY DEF PassBarrier, server, backup, cache, count
<1>2. /\ pc \in [Workers -> {"ready", "pulling", "pushing"}]
      /\ batch \in [Workers -> SUBSET Keys] /\ open \in [Workers -> BOOLEAN]
  BY DEF IInv, TypeInv, WorkerTypes
<1>3. /\ pc'[w] = "ready" /\ batch'[w] = {} /\ ~open'[w]
      /\ \A v \in Workers : v # w => /\ pc'[v] = pc[v] /\ batch'[v] = batch[v]
                                     /\ open'[v] = open[v]
  BY <1>1, <1>2
<1>4. /\ \A m \in msgs \cup stored : m.worker # w
      /\ \A s \in Servers : \A x \in work[s] : x.req.worker # w
  BY <1>1, NothingOwed
<1>5. ServerTypes' /\ WorkTypes'
  BY <1>1, ServerSide DEF server, backup
<1>6. MessageTypes'
  BY <1>1 DEF IInv, TypeInv, MessageTypes
<1>7. WorkerTypes'
  <2>1. /\ pc' \in [Workers -> {"ready", "pulling", "pushing"}]
        /\ batch' \in [Workers -> SUBSET Keys] /\ open' \in [Workers -> BOOLEAN]
    BY <1>1, <1>2
  <2> QED
    BY <1>1, <2>1 DEF IInv, TypeInv, WorkerTypes
<1>8. OneCall'
  BY <1>1 DEF IInv, OneCall
<1>9. \A v : Owing(v)' = Owing(v)
  BY <1>1 DEF Owing
<1>10. BarrierCounts'
  <2>1. num_reqs[w] = 0
    BY <1>1 DEF IInv, BarrierCounts
  <2>2. ASSUME NEW v \in Workers
        PROVE  /\ Cardinality(Owing(v)') <= num_reqs'[v]
               /\ PushOnlyPulled => num_reqs'[v] = Cardinality(Owing(v)')
               /\ pc'[v] = "ready" \/ open'[v] => num_reqs'[v] = 0
               /\ pc'[v] = "ready" => ~open'[v]
               /\ pc'[v] # "ready" /\ ~open'[v] => num_reqs'[v] > 0 \/ batch'[v] = {}
    <3>1. /\ Cardinality(Owing(v)) <= num_reqs[v]
          /\ PushOnlyPulled => num_reqs[v] = Cardinality(Owing(v))
          /\ pc[v] = "ready" \/ open[v] => num_reqs[v] = 0
          /\ pc[v] = "ready" => ~open[v]
          /\ pc[v] # "ready" /\ ~open[v] => num_reqs[v] > 0 \/ batch[v] = {}
      BY DEF IInv, BarrierCounts
    <3> QED
      BY <1>1, <1>3, <1>9, <2>1, <3>1
  <2> QED
    BY <2>2 DEF BarrierCounts
<1>11. CallsInRound'
  <2>1. ASSUME NEW m, m.worker # w, m.worker \in Workers, InRound(m) PROVE InRound(m)'
    BY <1>3, <2>1 DEF InRound
  <2>2. \A m \in msgs \cup stored : m.worker \in Workers /\ InRound(m)
    BY DEF IInv, CallsInRound, TypeInv, MessageTypes, IsMessage
  <2>3. \A s \in Servers : \A x \in work[s] : x.req.worker \in Workers /\ InRound(x.req)
    BY DEF IInv, CallsInRound, TypeInv, WorkTypes, IsWork, IsMessage
  <2> QED
    BY <1>1, <1>4, <2>1, <2>2, <2>3 DEF CallsInRound
<1>12. Cached'
  BY <1>1, <1>3, <1>9 DEF IInv, Cached
<1>13. Inited'
  BY <1>1 DEF IInv, Inited, NewKeysAreInited
<1> QED
  BY <1>5, <1>6, <1>7, <1>8, <1>10, <1>11, <1>12, <1>13 DEF IInv, TypeInv

LEMMA InvNext == IInv /\ [Next]_vars => IInv'
<1> SUFFICES ASSUME IInv, [Next]_vars PROVE IInv'
  OBVIOUS
<1>1. ASSUME NEW w \in Workers, TrainStep(w) \/ PassBarrier(w) PROVE IInv'
  BY <1>1, InvPull, InvTrain, InvPush, InvPassBarrier DEF TrainStep
<1>2. ASSUME NEW m \in msgs \cup stored, Callback(m) PROVE IInv'
  <2>1. StoreParams(m) => m \in msgs
    BY DEF StoreParams
  <2> QED
    BY <1>2, <2>1, InvStoreParams, InvCountDown DEF Callback
<1>3. ASSUME NEW s \in Servers, PoolStep(s) PROVE IInv'
  BY <1>3, InvTakeRequest, InvFindParam, InvFindPointer, InvAssignParam, InvReadParam,
     InvWriteParam, InvCountPush, InvReply DEF PoolStep
<1>4. CASE UNCHANGED vars
  <2>1. /\ UNCHANGED <<async_exec_num, push_counter, backups, table, failed, work, msgs,
                       stored, pc, batch, params, grads, num_reqs, open, rounds, steps>>
    BY <1>4 DEF vars, server, backup, cache, barrier, count
  <2>2. \A w : Owing(w)' = Owing(w)
    BY <2>1 DEF Owing
  <2>3. TypeInv'
    BY <2>1 DEF IInv, TypeInv, ServerTypes, WorkTypes, MessageTypes, WorkerTypes
  <2> QED
    BY <2>1, <2>2, <2>3 DEF IInv, OneCall, BarrierCounts, CallsInRound, InRound, Cached,
                            Inited, NewKeysAreInited
<1> QED
  BY <1>1, <1>2, <1>3, <1>4 DEF Next

(***************************************************************************)
(* In every reachable state a worker has at most one call at a server, its *)
(* barrier counts the servers that owe it an answer, a pull asks each for  *)
(* all keys of the batch that it owns, and what is pushed or answered is   *)
(* in the table (global_pull_access.h, global_push_access.h,               *)
(* sparsetable.h).                                                         *)
(***************************************************************************)
THEOREM InductiveInvariant == Spec => []IInv
  BY InitIInv, InvNext, PTL DEF Spec

-----------------------------------------------------------------------------
(***************************************************************************)
(* Every variable keeps its type, however many threads there are; in       *)
(* particular no more threads are busy than async_exec_num, and a worker's *)
(* gradients are for the keys in its cache.                                *)
(***************************************************************************)
THEOREM Typed == Spec => []TypeOK
<1>1. IInv => TypeOK
  <2> SUFFICES ASSUME IInv PROVE TypeOK
    OBVIOUS
  <2>1. DOMAIN table \subseteq Keys /\ \A k \in DOMAIN table : table[k] \subseteq Gradients
    BY DEF IInv, TypeInv, ServerTypes, IsMap
  <2>2. ASSUME NEW s \in Servers, NEW x \in work[s]
        PROVE  /\ x.at \in {"next", "assign", "read", "write", "counted", "backup", "reply"}
               /\ DOMAIN x.done \subseteq DOMAIN x.req.items
    BY WorkFacts DEF IsWork, IsPlaced
  <2>3. \A m \in msgs \cup stored :
           /\ m.type \in {"request", "response"} /\ m.class \in {"pull", "push"}
           /\ m.worker \in Workers /\ m.server \in Servers
           /\ DOMAIN m.items \subseteq {k \in Keys : NodeOf(k) = m.server}
    BY DEF IInv, TypeInv, MessageTypes, IsMessage, Owned
  <2>4. \A w \in Workers : /\ batch[w] \in SUBSET Keys
                           /\ DOMAIN params[w] = DOMAIN grads[w]
                           /\ \A k \in DOMAIN params[w] : params[w][k] \subseteq Gradients
                           /\ \A k \in DOMAIN grads[w] : grads[w][k] \subseteq Gradients
    BY DEF IInv, TypeInv, WorkerTypes, IsMap
  <2> QED
    BY <2>1, <2>2, <2>3, <2>4
       DEF IInv, TypeInv, ServerTypes, WorkTypes, WorkerTypes, TypeOK
<1> QED
  BY <1>1, InductiveInvariant, PTL

(***************************************************************************)
(* The CHECK of apply_push_value (sparsetable.h:184) never fails, on any   *)
(* number of pool threads, whatever else a worker pushes: it sends         *)
(* gradients of keys in its cache only, and a key is answered to a pull    *)
(* after it has been assigned.                                             *)
(***************************************************************************)
THEOREM PushedKeysAreInited == Spec => []NewKeysAreInited
<1>1. IInv => NewKeysAreInited
  BY DEF IInv, Inited
<1> QED
  BY <1>1, InductiveInvariant, PTL

(***************************************************************************)
(* When the barrier of a pull is open, all keys of the batch are in the    *)
(* cache, and no callback of the round is still to run                     *)
(* (global_pull_access.h:92-113).                                          *)
(***************************************************************************)
THEOREM PulledBatchIsCached == Spec => []BatchIsCached
<1>1. IInv => BatchIsCached
  <2> SUFFICES ASSUME IInv, NEW w \in Workers, open[w]
               PROVE  /\ pc[w] = "pulling" => batch[w] \subseteq DOMAIN params[w]
                      /\ \A m \in msgs \cup stored : m.worker # w
    BY DEF BatchIsCached
  <2>1. Owing(w) = {} /\ \A m \in msgs \cup stored : m.worker # w
    BY NothingOwed
  <2>2. pc[w] = "pulling" => batch[w] \subseteq DOMAIN params[w]
    BY <2>1 DEF IInv, Cached
  <2> QED
    BY <2>1, <2>2
<1> QED
  BY <1>1, InductiveInvariant, PTL

(***************************************************************************)
(* A blocked worker's counter is positive, unless it asked for no keys at  *)
(* all (global_pull_access.h:45-54): the callback that takes it to zero    *)
(* has opened the barrier.                                                 *)
(***************************************************************************)
THEOREM WaiterIsOwed == Spec => []WaiterIsOwedAnAnswer
<1>1. IInv => WaiterIsOwedAnAnswer
  BY DEF IInv, BarrierCounts, WaiterIsOwedAnAnswer
<1> QED
  BY <1>1, InductiveInvariant, PTL

(***************************************************************************)
(* num_reqs is the number of calls that will still count down, when a      *)
(* worker pushes nothing it has not pulled: the set arrange_local_grads    *)
(* counts is then the set of the servers send addresses                    *)
(* (global_push_access.h:80-98, 123-129).                                  *)
(***************************************************************************)
THEOREM BarrierCountsCalls ==
    ASSUME PushOnlyPulled
    PROVE  Spec => []BarrierCountsRequests
<1>1. IInv => BarrierCountsRequests
  <2> SUFFICES ASSUME IInv, NEW w \in Workers
               PROVE  num_reqs[w] =
                        Cardinality({m \in msgs \cup stored : m.worker = w}
                          \cup UNION {{x.req : x \in {y \in work[s] : y.req.worker = w}}
                                      : s \in Servers})
    BY DEF BarrierCountsRequests
  <2> DEFINE Calls == {m \in msgs \cup stored : m.worker = w}
                        \cup UNION {{x.req : x \in {y \in work[s] : y.req.worker = w}}
                                    : s \in Servers}
             f == [c \in Calls |-> c.server]
  <2>1. \A m \in msgs \cup stored : m.server \in Servers
    BY DEF IInv, TypeInv, MessageTypes, IsMessage
  <2>2. \A s \in Servers : \A x \in work[s] : x.req.server = s
    BY WorkFacts DEF IsWork
  <2>3. ASSUME NEW c \in Calls
        PROVE  \/ c \in msgs \cup stored /\ c.worker = w
               \/ \E s \in Servers : \E x \in work[s] : c = x.req /\ c.worker = w /\ c.server = s
    BY <2>2
  <2>4. \A c \in Calls : c.server \in Owing(w)
    BY <2>1, <2>3 DEF Owing
  <2>5. ASSUME NEW s \in Owing(w) PROVE \E c \in Calls : c.server = s
    <3>1. CASE \E m \in msgs \cup stored : m.worker = w /\ m.server = s
      BY <3>1
    <3>2. CASE \E x \in work[s] : x.req.worker = w
      <4>1. s \in Servers
        BY DEF Owing
      <4>2. PICK x \in work[s] : x.req.worker = w
        BY <3>2
      <4>3. x.req \in Calls
        BY <4>1, <4>2
      <4> QED
        BY <2>2, <4>1, <4>2, <4>3
    <3> QED
      BY <3>1, <3>2 DEF Owing
  <2>6. ASSUME NEW c \in Calls, NEW d \in Calls, c.server = d.server PROVE c = d
    BY <2>3, <2>6 DEF IInv, OneCall
  <2> HIDE DEF Calls
  <2>7. f \in Injection(Calls, Owing(w)) /\ f \in Surjection(Calls, Owing(w))
    BY <2>4, <2>5, <2>6 DEF Injection, IsInjective, Surjection
  <2>8. Cardinality(Calls) = Cardinality(Owing(w))
    BY <2>7, OwingIsFinite, FS_Injection
  <2>9. num_reqs[w] = Cardinality(Owing(w))
    BY DEF IInv, BarrierCounts
  <2> QED
    BY <2>8, <2>9 DEF Calls
<1> QED
  BY <1>1, InductiveInvariant, PTL
-----------------------------------------------------------------------------
(* No round stands still.                                                  *)

\* A callback of worker w can run.
CallbackGoesOn(w) ==
    \E m \in msgs \cup stored : m.worker = w /\ (m \in stored \/ m.type = "response")

\* A pool thread of server s can take a request, or go on with the one it has.
PoolGoesOn(s) ==
    /\ failed[s] = "no"
    /\ \/ /\ Cardinality(work[s]) < async_exec_num
          /\ \E m \in msgs : m.type = "request" /\ m.server = s
       \/ \E x \in work[s] :
             \/ x.at = "next" /\ Todo(x) \subseteq Keys
             \/ x.at \in {"assign", "read", "write", "counted", "backup"}
             \/ x.at = "reply" /\ Todo(x) = {}

\* A worker in a round of some keys may pass its barrier, or there is somebody
\* to bring that about, unless a server that owes it an answer has failed.
RoundGoesOn ==
    \A w \in Workers : pc[w] # "ready" /\ batch[w] # {} =>
       \/ open[w]
       \/ CallbackGoesOn(w)
       \/ \E s \in Owing(w) : PoolGoesOn(s) \/ failed[s] # "no"

LEMMA OwingServerGoesOn ==
    ASSUME IInv, NEW w \in Workers, NEW s \in Owing(w),
           ~CallbackGoesOn(w), failed[s] = "no"
    PROVE  PoolGoesOn(s)
<1>1. s \in Servers
  BY DEF Owing
<1>2. CASE work[s] # {}
  <2>1. PICK x \in work[s] : TRUE
    BY <1>2
  <2>2. IsWork(s, x)
    BY <1>1, <2>1 DEF IInv, TypeInv, WorkTypes
  <2>3. Todo(x) \subseteq Keys
    BY <2>2 DEF IsWork, IsMessage, IsMap, Todo
  <2> QED
    BY <2>1, <2>2, <2>3 DEF PoolGoesOn, IsWork, IsPlaced
<1>3. CASE work[s] = {}
  <2>1. PICK m \in msgs \cup stored : m.worker = w /\ m.server = s
    BY <1>3 DEF Owing
  <2>2. m \in msgs /\ m.type = "request"
    BY <2>1 DEF CallbackGoesOn, IInv, TypeInv, MessageTypes, IsMessage
  <2>3. Cardinality(work[s]) < async_exec_num
    BY <1>3, ThreadsType, FS_EmptySet
  <2> QED
    BY <2>1, <2>2, <2>3 DEF PoolGoesOn
<1> QED
  BY <1>2, <1>3

(***************************************************************************)
(* Workers that push only what they have pulled are never stuck in a round *)
(* (global_pull_access.h:40-54, global_push_access.h:36-52): until the     *)
(* barrier is open, one of the round's callbacks can run, or a server that *)
(* still owes an answer has a pool thread that can go on, unless that      *)
(* server has failed.  This is the safety half of RoundReturns, which is   *)
(* violated without the assumption; a round of no keys is left out.        *)
(***************************************************************************)
THEOREM RoundNeverStandsStill ==
    ASSUME PushOnlyPulled
    PROVE  Spec => []RoundGoesOn
<1>1. IInv => RoundGoesOn
  <2> SUFFICES ASSUME IInv, NEW w \in Workers, pc[w] # "ready", batch[w] # {},
                      ~open[w], ~CallbackGoesOn(w)
               PROVE  \E s \in Owing(w) : PoolGoesOn(s) \/ failed[s] # "no"
    BY DEF RoundGoesOn
  <2>1. num_reqs[w] > 0 /\ num_reqs[w] = Cardinality(Owing(w))
    BY DEF IInv, BarrierCounts
  <2>2. Owing(w) # {}
    BY <2>1, FS_EmptySet
  <2> QED
    BY <2>2, OwingServerGoesOn
<1> QED
  BY <1>1, InductiveInvariant, PTL
=============================================================================
