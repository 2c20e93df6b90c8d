------------------------- MODULE ParamTableProofs -------------------------
(***************************************************************************)
(* Theorems about ParamServer, continued: what becomes of a gradient, and  *)
(* what servers with one pool thread promise (ParamTable).                 *)
(***************************************************************************)
EXTENDS ParamServerProofs

-----------------------------------------------------------------------------
(***************************************************************************)
(* Gradients.  One that a worker has still to push is its own, of a step   *)
(* it has taken, and nowhere else: not in a message, in a thread's request,*)
(* in the value a thread is about to write, nor in the table.              *)
(***************************************************************************)
IsElsewhere(k, g) ==
    \/ \E m \in msgs : m.type = "request" /\ k \in DOMAIN m.items /\ g \in m.items[k]
    \/ \E s \in Servers : \E x \in work[s] : k \in DOMAIN x.req.items /\ g \in x.req.items[k]
    \/ \E s \in Servers : \E x \in work[s] : x.at = "write" /\ x.key = k /\ g \in x.old
    \/ k \in DOMAIN table /\ g \in table[k]

IsTaken(g) == g[2] < steps[g[1]]

Unpushed ==
    \A w \in Workers : \A k \in DOMAIN grads[w] : \A g \in grads[w][k] :
       g[1] = w /\ IsTaken(g) /\ ~IsElsewhere(k, g)

OnlyTaken == \A k \in Keys : \A g \in Gradients : IsElsewhere(k, g) => IsTaken(g)

GradInv == Unpushed /\ OnlyTaken

-----------------------------------------------------------------------------
(***************************************************************************)
(* One pool thread per server.  A key that a thread is about to assign is  *)
(* not in the table; the value it is about to write back is the current    *)
(* one, with nothing lost in between; what it has handled is applied, or   *)
(* read with all that was answered before the round.                       *)
(***************************************************************************)
Grip(x) ==
    /\ x.at = "assign" => x.key \notin DOMAIN table
    /\ x.at \in {"read", "write"} => ~x.stale
    /\ x.at = "write" => x.old = table[x.key]
    /\ x.req.class = "push" => \A k \in DOMAIN x.done : x.req.items[k] \subseteq table[k]
    /\ x.req.class = "pull" =>
          \A k \in DOMAIN x.done : before[x.req.worker][k] \subseteq x.done[k]

ThreadsInGrip == \A s \in Servers : \A x \in work[s] : Grip(x)

\* An answer to a pull, and the cache it was written to, have what was
\* answered before the round.
AnswersAreRecent ==
    /\ \A m \in msgs : m.type = "response" /\ m.class = "pull" =>
          \A k \in DOMAIN m.items : before[m.worker][k] \subseteq m.items[k]
    /\ \A m \in stored :
          \A k \in DOMAIN m.items : before[m.worker][k] \subseteq params[m.worker][k]
    /\ \A w \in Workers : pc[w] = "pulling" =>
          \A k \in batch[w] : NodeOf(k) \in Owing(w) \/ before[w][k] \subseteq params[w][k]

HistoryTypes ==
    /\ DOMAIN acked = Keys /\ DOMAIN before = Workers
    /\ \A w \in Workers : \A k \in Keys : before[w][k] \subseteq acked[k]

TableInv ==
    /\ ThreadsInGrip
    /\ AnsweredPushCounts
    /\ AnswersAreRecent
    /\ HistoryTypes

\* The backups, and what the only thread has in its hands.
Looking(s) == {x \in work[s] : x.at \in {"counted", "backup"}}

BackupInv ==
    \A s \in Servers :
       /\ backups[s] = IF BackupPeriod = 0 THEN <<>>
                       ELSE [i \in 1 .. LookedAt(s) \div BackupPeriod |-> i * BackupPeriod]
       /\ \A x \in Looking(s) : x.at = "backup" =>
             BackupPeriod > 0 /\ push_counter[s] % BackupPeriod = 0
       /\ Looking(s) # {} => push_counter[s] > 0

OneThreadInv == async_exec_num = 1 => TableInv /\ BackupInv

-----------------------------------------------------------------------------
(* Where a gradient can be after a step.                                   *)

LEMMA WorkAfter ==
    ASSUME IInv, NEW s \in Servers, NEW x \in work[s], NEW y, Become(s, x, y)
    PROVE  /\ DOMAIN work' = Servers
           /\ work'[s] = (work[s] \ {x}) \cup {y}
           /\ \A t \in Servers : t # s => work'[t] = work[t]
  BY DEF Become, IInv, TypeInv, WorkTypes

\* A step that puts no gradient anywhere and gives the workers none.
LEMMA GradKept ==
    ASSUME GradInv, UNCHANGED steps,
           \A k, g : IsElsewhere(k, g)' => IsElsewhere(k, g),
           \A w \in Workers : \A k \in DOMAIN grads'[w] : \A g \in grads'[w][k] :
              k \in DOMAIN grads[w] /\ g \in grads[w][k]
    PROVE  GradInv'
  BY DEF GradInv, Unpushed, OnlyTaken, IsTaken

\* A thread reads what is in the table, or writes what it has read with the
\* gradient of its request.
LEMMA ElsewhereBecome ==
    ASSUME IInv, NEW s \in Servers, NEW x \in work[s], NEW y, Become(s, x, y),
           y.req = x.req, UNCHANGED msgs,
           y.at = "write" => y.key \in DOMAIN table /\ y.old = table[y.key],
           \A k \in DOMAIN table' : \A g \in table'[k] :
              \/ k \in DOMAIN table /\ g \in table[k]
              \/ x.at = "write" /\ x.key = k /\ g \in x.old
              \/ k \in DOMAIN x.req.items /\ g \in x.req.items[k]
    PROVE  \A k, g : IsElsewhere(k, g)' => IsElsewhere(k, g)
<1>1. /\ work'[s] = (work[s] \ {x}) \cup {y}
      /\ \A t \in Servers : t # s => work'[t] = work[t]
  BY WorkAfter
<1> SUFFICES ASSUME NEW k, NEW g, IsElsewhere(k, g)' PROVE IsElsewhere(k, g)
  OBVIOUS
<1>2. CASE \E m \in msgs' : m.type = "request" /\ k \in DOMAIN m.items /\ g \in m.items[k]
  BY <1>2 DEF IsElsewhere
<1>3. ASSUME NEW t \in Servers, NEW z \in work'[t],
             k \in DOMAIN z.req.items, g \in z.req.items[k]
      PROVE  IsElsewhere(k, g)
  BY <1>1, <1>3 DEF IsElsewhere
<1>4. ASSUME NEW t \in Servers, NEW z \in work'[t], z.at = "write", z.key = k, g \in z.old
      PROVE  IsElsewhere(k, g)
  BY <1>1, <1>4 DEF IsElsewhere
<1>5. CASE k \in DOMAIN table' /\ g \in table'[k]
  BY <1>5 DEF IsElsewhere
<1> QED
  BY <1>2, <1>3, <1>4, <1>5 DEF IsElsewhere

LEMMA ElsewhereAssign ==
    ASSUME IInv, NEW s \in Servers, NEW x \in work[s], AssignParam(s, x)
    PROVE  \A k, g : IsElsewhere(k, g)' => IsElsewhere(k, g)
<1> DEFINE y == Done(x, x.key, {})
<1>1. /\ IsWork(s, x) /\ x.key \in Todo(x) /\ x.key \in Keys
      /\ table' = Extend(table, x.key, {})
  BY AssignFacts
<1>2. PICK rehash \in BOOLEAN :
         work' = [work EXCEPT ![s] =
                    {y} \cup IF rehash THEN {Rehash(x, z) : z \in work[s] \ {x}}
                                      ELSE work[s] \ {x}]
  BY AssignFacts
<1>3. y.req = x.req /\ y.at = "next"
  BY <1>1, DoneIsWork
<1> HIDE DEF y
<1>4. DOMAIN work = Servers
  BY DEF IInv, TypeInv, WorkTypes
<1>5. ASSUME NEW t \in Servers, NEW z \in work'[t]
      PROVE  \E u \in work[t] : /\ z.req = u.req
                                /\ z.at = "write" => /\ u.at = "write" /\ z.key = u.key
                                                     /\ z.old = u.old
  <2>1. CASE t # s
    BY <1>2, <1>4, <2>1
  <2>2. CASE t = s
    <3>1. work'[s] = {y} \cup IF rehash THEN {Rehash(x, u) : u \in work[s] \ {x}}
                                        ELSE work[s] \ {x}
      BY <1>2, <1>4
    <3>2. CASE z = y
      BY <1>3, <2>2, <3>2
    <3>3. CASE z \in work[s]
      BY <2>2, <3>3
    <3>4. ASSUME NEW u \in work[s], z = Rehash(x, u)
          PROVE  /\ z.req = u.req
                 /\ z.at = "write" => /\ u.at = "write" /\ z.key = u.key /\ z.old = u.old
      BY <3>4, WorkFacts, RehashFacts
    <3> QED
      BY <2>2, <3>1, <3>2, <3>3, <3>4
  <2> QED
    BY <2>1, <2>2
<1>6. UNCHANGED msgs
  BY DEF AssignParam
<1>7. \A k \in DOMAIN table' : \A g \in table'[k] : k \in DOMAIN table /\ g \in table[k]
  BY <1>1 DEF Extend
<1> QED
  BY <1>5, <1>6, <1>7 DEF IsElsewhere

LEMMA ElsewherePool ==
    ASSUME IInv, NEW s \in Servers, PoolStep(s)
    PROVE  \A k, g : IsElsewhere(k, g)' => IsElsewhere(k, g)
<1>1. ASSUME NEW m \in msgs, TakeRequest(s, m)
      PROVE  \A k, g : IsElsewhere(k, g)' => IsElsewhere(k, g)
  <2> DEFINE x0 == [at |-> "next", req |-> m, done |-> NoEntries]
  <2>1. /\ msgs' = msgs \ {m} /\ m.type = "request" /\ UNCHANGED table
        /\ work' = [work EXCEPT ![s] = work[s] \cup {x0}]
    BY <1>1 DEF TakeRequest
  <2>2. x0.req = m /\ x0.at = "next"
    OBVIOUS
  <2> HIDE DEF x0
  <2>3. /\ work'[s] = work[s] \cup {x0}
        /\ \A t \in Servers : t # s => work'[t] = work[t]
    BY <2>1 DEF IInv, TypeInv, WorkTypes
  <2> QED
    BY <2>1, <2>2, <2>3 DEF IsElsewhere
<1>2. ASSUME NEW x \in work[s], NEW k0 \in Keys, FindParam(s, x, k0)
      PROVE  \A k, g : IsElsewhere(k, g)' => IsElsewhere(k, g)
  <2>1. IsWork(s, x) /\ k0 \in Todo(x) /\ UNCHANGED <<msgs, table>>
    BY <1>2, WorkFacts DEF FindParam
  <2>2. CASE k0 \in DOMAIN table
    <3>1. /\ Become(s, x, Done(x, k0, table[k0]))
          /\ table[k0] \subseteq Gradients
      BY <1>2, <2>2 DEF FindParam, IInv, TypeInv, ServerTypes, IsMap
    <3>2. Done(x, k0, table[k0]).req = x.req /\ Done(x, k0, table[k0]).at = "next"
      BY <2>1, <3>1, DoneIsWork
    <3> QED
      BY <2>1, <3>1, <3>2, ElsewhereBecome
  <2>3. CASE k0 \notin DOMAIN table
    <3> DEFINE y == [at |-> "assign", req |-> x.req, done |-> x.done, key |-> k0]
    <3>1. Become(s, x, y) /\ y.req = x.req /\ y.at = "assign"
      BY <1>2, <2>3 DEF FindParam
    <3> HIDE DEF y
    <3> QED
      BY <2>1, <3>1, ElsewhereBecome
  <2> QED
    BY <2>2, <2>3
<1>3. ASSUME NEW x \in work[s], NEW k0 \in Keys, FindPointer(s, x, k0)
      PROVE  \A k, g : IsElsewhere(k, g)' => IsElsewhere(k, g)
  <2> DEFINE y == [at |-> "read", req |-> x.req, done |-> x.done, key |-> k0, stale |-> FALSE]
  <2>1. k0 \in DOMAIN table
    BY <1>3, WorkFacts DEF FindPointer, Todo
  <2>2. Become(s, x, y) /\ y.req = x.req /\ y.at = "read" /\ UNCHANGED <<msgs, table>>
    BY <1>3, <2>1 DEF FindPointer
  <2> HIDE DEF y
  <2> QED
    BY <2>2, ElsewhereBecome
<1>4. ASSUME NEW x \in work[s], ReadParam(s, x)
      PROVE  \A k, g : IsElsewhere(k, g)' => IsElsewhere(k, g)
  <2> DEFINE y == [at |-> "write", req |-> x.req, done |-> x.done, key |-> x.key,
                   stale |-> x.stale, old |-> table[x.key]]
  <2>1. IsWork(s, x) /\ x.at = "read"
    BY <1>4, WorkFacts DEF ReadParam, At
  <2>2. x.req.class = "push" /\ x.key \in Todo(x)
    BY <2>1 DEF IsWork, IsPlaced
  <2>3. x.key \in DOMAIN table
    BY <2>2, WorkFacts DEF Todo
  <2>4. Become(s, x, y) /\ UNCHANGED <<msgs, table>>
    BY <1>4 DEF ReadParam
  <2>5. y.req = x.req /\ y.key = x.key /\ y.old = table[x.key]
    OBVIOUS
  <2> HIDE DEF y
  <2> QED
    BY <2>3, <2>4, <2>5, ElsewhereBecome
<1>5. ASSUME NEW x \in work[s], WriteParam(s, x)
      PROVE  \A k, g : IsElsewhere(k, g)' => IsElsewhere(k, g)
  <2> DEFINE y == Done(x, x.key, {})
  <2>1. IsWork(s, x) /\ x.at = "write"
    BY <1>5, WorkFacts DEF WriteParam, At
  <2>2. x.key \in Todo(x)
    BY <2>1 DEF IsWork, IsPlaced
  <2>3. y.req = x.req /\ y.at = "next"
    BY <2>1, <2>2, WorkFacts, DoneIsWork
  <2>4. Become(s, x, y) /\ UNCHANGED msgs
    BY <1>5 DEF WriteParam
  <2>5. table' \in {table, [table EXCEPT ![x.key] = x.old \cup x.req.items[x.key]]}
    BY <1>5 DEF WriteParam
  <2>6. \A k \in DOMAIN table' : \A g \in table'[k] :
           \/ k \in DOMAIN table /\ g \in table[k]
           \/ x.at = "write" /\ x.key = k /\ g \in x.old
           \/ k \in DOMAIN x.req.items /\ g \in x.req.items[k]
    BY <2>1, <2>2, <2>5 DEF Todo
  <2> HIDE DEF y
  <2> QED
    BY <2>3, <2>4, <2>6, ElsewhereBecome
<1>6. ASSUME NEW x \in work[s], CountPush(s, x) \/ TestBackup(s, x) \/ BackupParam(s, x)
      PROVE  \A k, g : IsElsewhere(k, g)' => IsElsewhere(k, g)
  <2>1. IsWork(s, x) /\ x.at \in {"next", "counted", "backup"}
    BY <1>6, WorkFacts DEF CountPush, TestBackup, BackupParam, At
  <2>2. DOMAIN x = {"at", "req", "done"}
    BY <2>1 DEF IsWork, IsPlaced
  <2>3. PICK place \in {"counted", "backup", "reply"} : Become(s, x, [x EXCEPT !.at = place])
    BY <1>6 DEF CountPush, TestBackup, BackupParam
  <2> DEFINE y == [x EXCEPT !.at = place]
  <2>4. y.req = x.req /\ y.at = place
    BY <2>2
  <2>5. Become(s, x, y) /\ UNCHANGED <<msgs, table>>
    BY <1>6, <2>3 DEF CountPush, TestBackup, BackupParam
  <2> HIDE DEF y
  <2> QED
    BY <2>4, <2>5, ElsewhereBecome
<1>7. ASSUME NEW x \in work[s], Reply(s, x)
      PROVE  \A k, g : IsElsewhere(k, g)' => IsElsewhere(k, g)
  <2> DEFINE r == Message("response", x.req.class, x.req.worker, s, x.done)
  <2>1. msgs' = msgs \cup {r} /\ UNCHANGED table /\ work' = [work EXCEPT ![s] = work[s] \ {x}]
    BY <1>7 DEF Reply
  <2>2. r.type = "response"
    BY DEF Message
  <2> HIDE DEF r
  <2>3. /\ work'[s] = work[s] \ {x}
        /\ \A t \in Servers : t # s => work'[t] = work[t]
    BY <2>1 DEF IInv, TypeInv, WorkTypes
  <2> QED
    BY <2>1, <2>2, <2>3 DEF IsElsewhere
<1> QED
  BY <1>1, <1>2, <1>3, <1>4, <1>5, <1>6, <1>7, ElsewhereAssign DEF PoolStep

-----------------------------------------------------------------------------
(* No gradient is pushed twice.                                            *)

LEMMA GradTrain ==
    ASSUME IInv, GradInv, NEW w \in Workers, NEW b \in Batches, Train(w, b)
    PROVE  GradInv'
<1>0. PICK new : new = <<w, steps[w]>>
  OBVIOUS
<1> DEFINE trained == [k \in DOMAIN grads[w] |->
                         IF k \in b THEN grads[w][k] \cup {new} ELSE grads[w][k]]
<1>1. /\ UNCHANGED <<table, work, msgs>>
      /\ steps' = [steps EXCEPT ![w] = steps[w] + 1] /\ steps[w] < MaxSteps
      /\ grads' = [grads EXCEPT ![w] = trained]
  BY <1>0 DEF Train, server
<1>2. DOMAIN grads = Workers /\ steps \in [Workers -> 0 .. MaxSteps] /\ MaxSteps \in Nat
  BY ParamServerAssumption DEF IInv, TypeInv, WorkerTypes
<1>3. \A v \in Workers : DOMAIN grads[v] \subseteq Keys /\
         \A k \in DOMAIN grads[v] : grads[v][k] \subseteq Gradients
  BY DEF IInv, TypeInv, WorkerTypes, IsMap
<1>4. \A k, g : IsElsewhere(k, g)' = IsElsewhere(k, g)
  BY <1>1 DEF IsElsewhere
<1>5. \A g \in Gradients : g[1] \in Workers /\ g[2] \in Nat
  BY <1>2 DEF Gradients
<1>6. \A g \in Gradients : IsTaken(g) => IsTaken(g)'
  <2> SUFFICES ASSUME NEW g \in Gradients, g[2] < steps[g[1]] PROVE g[2] < steps'[g[1]]
    BY DEF IsTaken
  <2>1. CASE g[1] = w
    <3>1. steps'[w] = steps[w] + 1 /\ steps[w] \in Nat
      BY <1>1, <1>2
    <3> QED
      BY <1>5, <2>1, <3>1
  <2>2. CASE g[1] # w
    BY <1>1, <1>2, <1>5, <2>2
  <2> QED
    BY <2>1, <2>2
<1>7. new[1] = w /\ new[2] = steps[w] /\ new \in Gradients
  BY <1>0, <1>1, <1>2 DEF Gradients
<1>8. ~IsTaken(new) /\ IsTaken(new)'
  <2>1. steps'[w] = steps[w] + 1 /\ steps[w] \in Nat
    BY <1>1, <1>2
  <2> QED
    BY <1>7, <2>1 DEF IsTaken
<1>9. \A k \in Keys : ~IsElsewhere(k, new)
  BY <1>7, <1>8 DEF GradInv, OnlyTaken
<1>10. Unpushed'
  <2> SUFFICES ASSUME NEW v \in Workers, NEW k \in DOMAIN grads'[v], NEW g \in grads'[v][k]
               PROVE  g[1] = v /\ IsTaken(g)' /\ ~IsElsewhere(k, g)
    BY <1>4 DEF Unpushed
  <2>1. CASE v = w /\ g = new
    <3>1. k \in Keys
      BY <1>1, <1>2, <1>3, <2>1
    <3> QED
      BY <1>7, <1>8, <1>9, <2>1, <3>1
  <2>2. CASE ~(v = w /\ g = new)
    <3>1. k \in DOMAIN grads[v] /\ g \in grads[v][k]
      BY <1>1, <1>2, <2>2
    <3> QED
      BY <1>3, <1>6, <3>1 DEF GradInv, Unpushed
  <2> QED
    BY <2>1, <2>2
<1>11. OnlyTaken'
  BY <1>4, <1>6 DEF GradInv, OnlyTaken
<1> QED
  BY <1>10, <1>11 DEF GradInv

LEMMA GradPush ==
    ASSUME IInv, GradInv, NEW w \in Workers, NEW b \in Batches, Push(w, b)
    PROVE  GradInv'
<1>1. /\ UNCHANGED <<table, work, steps>>
      /\ msgs' = msgs \cup PushRequests(w, b)
      /\ grads' = [grads EXCEPT ![w] = [k \in DOMAIN grads[w] |->
                                          IF k \in b THEN {} ELSE grads[w][k]]]
  BY DEF Push, server
<1>2. DOMAIN grads = Workers
  BY DEF IInv, TypeInv, WorkerTypes
<1>3. ASSUME NEW m \in PushRequests(w, b), NEW k \in DOMAIN m.items
      PROVE  k \in b /\ k \in DOMAIN grads[w] /\ m.items[k] = grads[w][k]
  <2> DEFINE sent == b \cap DOMAIN grads[w]
             pushed(s) == [j \in {x \in sent : NodeOf(x) = s} |-> grads[w][j]]
  <2>1. PICK s : m = Message("request", "push", w, s, pushed(s))
    BY DEF PushRequests
  <2>2. m.items = pushed(s)
    BY <2>1 DEF Message
  <2> QED
    BY <2>2
<1>4. ASSUME NEW k, NEW g, IsElsewhere(k, g)'
      PROVE  \/ IsElsewhere(k, g)
             \/ k \in b /\ k \in DOMAIN grads[w] /\ g \in grads[w][k]
  <2>1. CASE \E m \in msgs' : m.type = "request" /\ k \in DOMAIN m.items /\ g \in m.items[k]
    BY <1>1, <1>3, <2>1 DEF IsElsewhere
  <2>2. CASE ~ \E m \in msgs' : m.type = "request" /\ k \in DOMAIN m.items /\ g \in m.items[k]
    BY <1>1, <1>4, <2>2 DEF IsElsewhere
  <2> QED
    BY <2>1, <2>2
<1>5. \A g : IsTaken(g)' = IsTaken(g)
  BY <1>1 DEF IsTaken
<1>6. Unpushed'
  <2> SUFFICES ASSUME NEW v \in Workers, NEW k \in DOMAIN grads'[v], NEW g \in grads'[v][k]
               PROVE  g[1] = v /\ IsTaken(g) /\ ~IsElsewhere(k, g)'
    BY <1>5 DEF Unpushed
  <2>1. k \in DOMAIN grads[v] /\ g \in grads[v][k] /\ ~(v = w /\ k \in b)
    BY <1>1, <1>2
  <2>2. g[1] = v /\ IsTaken(g) /\ ~IsElsewhere(k, g)
    BY <2>1 DEF GradInv, Unpushed
  <2>3. k \in DOMAIN grads[w] /\ g \in grads[w][k] => g[1] = w
    BY DEF GradInv, Unpushed
  <2> QED
    BY <1>4, <2>1, <2>2, <2>3
<1>7. OnlyTaken'
  <2> SUFFICES ASSUME NEW k \in Keys, NEW g \in Gradients, IsElsewhere(k, g)'
               PROVE  IsTaken(g)
    BY <1>5 DEF OnlyTaken
  <2> QED
    BY <1>4 DEF GradInv, Unpushed, OnlyTaken
<1> QED
  BY <1>6, <1>7 DEF GradInv

LEMMA GradPull ==
    ASSUME IInv, GradInv, NEW w \in Workers, NEW b \in Batches, Pull(w, b)
    PROVE  GradInv'
<1> DEFINE wanted(s) == [k \in {x \in b : NodeOf(x) = s} |-> {}]
           asked == {Message("request", "pull", w, s, wanted(s)) : s \in {NodeOf(k) : k \in b}}
<1>1. UNCHANGED <<table, work, steps, grads>> /\ msgs' = msgs \cup asked
  BY DEF Pull, server, cache
<1>2. ASSUME NEW m \in asked, NEW k \in DOMAIN m.items PROVE m.items[k] = {}
  <2>1. PICK s : m = Message("request", "pull", w, s, wanted(s))
    OBVIOUS
  <2>2. m.items = wanted(s)
    BY <2>1 DEF Message
  <2> QED
    BY <2>2
<1> HIDE DEF asked
<1>3. \A k, g : IsElsewhere(k, g)' => IsElsewhere(k, g)
  BY <1>1, <1>2 DEF IsElsewhere
<1> QED
  BY <1>1, <1>3, GradKept

LEMMA GradStoreParams ==
    ASSUME IInv, GradInv, NEW m \in msgs, StoreParams(m)
    PROVE  GradInv'
<1> DEFINE fresh == [k \in DOMAIN m.items |-> {}]
<1>1. /\ UNCHANGED <<table, work, steps>> /\ msgs' = msgs \ {m}
      /\ grads' = [grads EXCEPT ![m.worker] = Written(grads[m.worker], fresh)]
  BY DEF StoreParams, server, count
<1>2. \A k, g : IsElsewhere(k, g)' => IsElsewhere(k, g)
  BY <1>1 DEF IsElsewhere
<1>3. DOMAIN grads = Workers
  BY DEF IInv, TypeInv, WorkerTypes
<1>4. \A v \in Workers : \A k \in DOMAIN grads'[v] : \A g \in grads'[v][k] :
         k \in DOMAIN grads[v] /\ g \in grads[v][k]
  BY <1>1, <1>3 DEF Written
<1> QED
  BY <1>1, <1>2, <1>4, GradKept

LEMMA GradNext == IInv /\ GradInv /\ [Next]_vars => GradInv'
<1> SUFFICES ASSUME IInv, GradInv, [Next]_vars PROVE GradInv'
  OBVIOUS
<1>1. ASSUME NEW w \in Workers, TrainStep(w) PROVE GradInv'
  BY <1>1, GradPull, GradTrain, GradPush DEF TrainStep
<1>2. ASSUME NEW w \in Workers, PassBarrier(w) PROVE GradInv'
  <2>1. UNCHANGED <<table, work, msgs, grads, steps>>
    BY <1>2 DEF PassBarrier, server, cache, count
  <2>2. \A k, g : IsElsewhere(k, g)' => IsElsewhere(k, g)
    BY <2>1 DEF IsElsewhere
  <2> QED
    BY <2>1, <2>2, GradKept
<1>3. ASSUME NEW m \in msgs \cup stored, CountDown(m) PROVE GradInv'
  <2>1. UNCHANGED <<table, work, grads, steps>> /\ msgs' = msgs \ {m}
    BY <1>3 DEF CountDown, server, cache, count
  <2>2. \A k, g : IsElsewhere(k, g)' => IsElsewhere(k, g)
    BY <2>1 DEF IsElsewhere
  <2> QED
    BY <2>1, <2>2, GradKept
<1>4. ASSUME NEW m \in msgs \cup stored, StoreParams(m) PROVE GradInv'
  BY <1>4, GradStoreParams DEF StoreParams
<1>5. ASSUME NEW s \in Servers, PoolStep(s) PROVE GradInv'
  <2>1. UNCHANGED <<grads, steps>>
    BY <1>5 DEF PoolStep, TakeRequest, FindParam, FindPointer, AssignParam, ReadParam,
                WriteParam, CountPush, TestBackup, BackupParam, Reply, WorkerSide, cache, count
  <2> QED
    BY <1>5, <2>1, ElsewherePool, GradKept
<1>6. CASE UNCHANGED vars
  <2>1. UNCHANGED <<table, work, msgs, grads, steps>>
    BY <1>6 DEF vars, server, cache, count
  <2>2. \A k, g : IsElsewhere(k, g)' => IsElsewhere(k, g)
    BY <2>1 DEF IsElsewhere
  <2> QED
    BY <2>1, <2>2, GradKept
<1> QED
  BY <1>1, <1>2, <1>3, <1>4, <1>5, <1>6 DEF Next, Callback

LEMMA GradInit == Init => GradInv
  BY DEF Init, GradInv, Unpushed, OnlyTaken, IsElsewhere, NoEntries

(***************************************************************************)
(* In every reachable state a gradient a worker has still to push is of a  *)
(* step that worker has taken, and in no request, no thread and no         *)
(* parameter (global_push_access.h:80-98).                                 *)
(***************************************************************************)
THEOREM GradientInvariant == Spec => []GradInv
  BY GradInit, GradNext, InductiveInvariant, PTL DEF Spec

(***************************************************************************)
(* A gradient that a worker has still to push is neither in a request on   *)
(* its way nor part of a parameter, on any number of threads: the push     *)
(* resets it as it copies it (global_push_access.h:92-96).                 *)
(***************************************************************************)
THEOREM GradientsGoOnce == Spec => []NoGradientTwice
<1>1. GradInv => NoGradientTwice
  <2> SUFFICES ASSUME GradInv, NEW w \in Workers, NEW k \in DOMAIN grads[w],
                      NEW g \in grads[w][k]
               PROVE  g \notin Pushed(k) /\ (k \in DOMAIN table => g \notin table[k])
    BY DEF NoGradientTwice
  <2>1. ~IsElsewhere(k, g)
    BY DEF GradInv, Unpushed
  <2> QED
    BY <2>1 DEF IsElsewhere, Pushed
<1> QED
  BY <1>1, GradientInvariant, PTL

-----------------------------------------------------------------------------
(* One pool thread.                                                        *)

\* The thread that holds x is alone.
LEMMA OnlyThread ==
    ASSUME IInv, async_exec_num = 1, NEW s \in Servers, NEW x \in work[s]
    PROVE  work[s] = {x}
<1>1. IsFiniteSet(work[s]) /\ Cardinality(work[s]) <= 1
  BY DEF IInv, TypeInv, WorkTypes
<1>2. Cardinality(work[s]) \in Nat /\ Cardinality(work[s]) # 0
  BY <1>1, FS_CardinalityType, FS_EmptySet
<1>3. Cardinality(work[s]) = 1
  BY <1>1, <1>2
<1> QED
  BY <1>1, <1>3, FS_Singleton

LEMMA AloneAfter ==
    ASSUME IInv, async_exec_num = 1, NEW s \in Servers, NEW x \in work[s], NEW y,
           Become(s, x, y)
    PROVE  work'[s] = {y} /\ \A t \in Servers : t # s => work'[t] = work[t]
  BY OnlyThread, WorkAfter

\* assign has nobody to disturb.
LEMMA AssignAlone ==
    ASSUME IInv, async_exec_num = 1, NEW s \in Servers, NEW x \in work[s], AssignParam(s, x)
    PROVE  Become(s, x, Done(x, x.key, {}))
<1> DEFINE y == Done(x, x.key, {})
<1>1. PICK rehash \in BOOLEAN :
         work' = [work EXCEPT ![s] =
                    {y} \cup IF rehash THEN {Rehash(x, z) : z \in work[s] \ {x}}
                                      ELSE work[s] \ {x}]
  BY AssignFacts
<1>2. work[s] \ {x} = {}
  BY OnlyThread
<1> HIDE DEF y
<1>3. {y} \cup (IF rehash THEN {Rehash(x, z) : z \in work[s] \ {x}} ELSE work[s] \ {x})
         = (work[s] \ {x}) \cup {y}
  BY <1>2
<1> QED
  BY <1>1, <1>3 DEF Become, y

\* What a server's step may do to the table.
Grows == \A k \in DOMAIN table : k \in DOMAIN table' /\ table[k] \subseteq table'[k]

OnlyAt(s) ==
    \A k \in Keys : NodeOf(k) # s =>
       /\ k \in DOMAIN table' <=> k \in DOMAIN table
       /\ k \in DOMAIN table => table'[k] = table[k]

\* A thread is interested in the keys of its server only.
LEMMA GripOfOthers ==
    ASSUME IInv, NEW s \in Servers, NEW t \in Servers, t # s, NEW z \in work[t], Grip(z),
           OnlyAt(s), UNCHANGED before
    PROVE  Grip(z)'
<1>1. IsWork(t, z)
  BY WorkFacts
<1>2. \A k \in DOMAIN z.req.items : k \in Keys /\ NodeOf(k) # s
  BY <1>1 DEF IsWork, IsMessage, Owned
<1>3. \A k \in DOMAIN z.req.items :
         /\ k \in DOMAIN table' <=> k \in DOMAIN table
         /\ k \in DOMAIN table => table'[k] = table[k]
  BY <1>2 DEF OnlyAt
<1>4. /\ DOMAIN z.done \subseteq DOMAIN z.req.items
      /\ DOMAIN z.done \subseteq DOMAIN table
      /\ z.req.class = "push" => DOMAIN z.req.items \subseteq DOMAIN table
  BY <1>1, WorkFacts DEF IsWork
<1>5. /\ z.at \in {"assign", "read", "write"} => z.key \in DOMAIN z.req.items
      /\ z.at \in {"read", "write"} => z.req.class = "push"
  BY <1>1 DEF IsWork, IsPlaced, Todo
<1> QED
  BY <1>3, <1>4, <1>5 DEF Grip

LEMMA TableBecome ==
    ASSUME IInv, TableInv, async_exec_num = 1, NEW s \in Servers, NEW x \in work[s], NEW y,
           Become(s, x, y), y.req = x.req, Grip(y)', Grows, OnlyAt(s),
           UNCHANGED <<msgs, stored, WorkerSide, acked>>
    PROVE  TableInv'
<1>1. work'[s] = {y} /\ \A t \in Servers : t # s => work'[t] = work[t]
  BY AloneAfter
<1>2. UNCHANGED <<msgs, stored, pc, batch, params, before, acked>>
  BY DEF WorkerSide, cache
<1>3. ThreadsInGrip'
  <2> SUFFICES ASSUME NEW t \in Servers, NEW z \in work'[t] PROVE Grip(z)'
    BY DEF ThreadsInGrip
  <2>1. CASE t = s
    BY <1>1, <2>1
  <2>2. CASE t # s
    <3>1. z \in work[t] /\ Grip(z)
      BY <1>1, <2>2 DEF TableInv, ThreadsInGrip
    <3> QED
      BY <1>2, <2>2, <3>1, GripOfOthers
  <2> QED
    BY <2>1, <2>2
<1>4. AnsweredPushCounts'
  BY <1>2 DEF TableInv, AnsweredPushCounts, Grows
<1>5. \A w : Owing(w)' = Owing(w)
  <2>1. work[s] = {x}
    BY OnlyThread
  <2> QED
    BY <1>1, <1>2, <2>1 DEF Owing
<1>6. AnswersAreRecent' /\ HistoryTypes'
  BY <1>2, <1>5 DEF TableInv, AnswersAreRecent, HistoryTypes
<1> QED
  BY <1>3, <1>4, <1>6 DEF TableInv

LEMMA SameTable ==
    ASSUME IInv, UNCHANGED table, NEW s
    PROVE  Grows /\ OnlyAt(s)
  BY DEF Grows, OnlyAt

\* What was answered before the round of x is in the table.
LEMMA AnsweredBefore ==
    ASSUME IInv, TableInv, NEW s \in Servers, NEW x \in work[s], NEW k \in Keys
    PROVE  IF k \in DOMAIN table THEN before[x.req.worker][k] \subseteq table[k]
                                 ELSE before[x.req.worker][k] = {}
<1>1. x.req.worker \in Workers
  BY WorkFacts DEF IsWork, IsMessage
<1>2. before[x.req.worker][k] \subseteq acked[k]
  BY <1>1 DEF TableInv, HistoryTypes
<1>3. acked[k] # {} => k \in DOMAIN table /\ acked[k] \subseteq table[k]
  BY DEF TableInv, AnsweredPushCounts
<1> QED
  BY <1>2, <1>3

LEMMA TableFindParam ==
    ASSUME IInv, TableInv, async_exec_num = 1, NEW s \in Servers, NEW x \in work[s],
           NEW k \in Keys, FindParam(s, x, k)
    PROVE  TableInv'
<1>1. /\ IsWork(s, x) /\ k \in Todo(x) /\ x.req.class = "pull" /\ Grip(x)
      /\ UNCHANGED <<msgs, stored, WorkerSide, acked, table>>
  BY WorkFacts DEF FindParam, TableInv, ThreadsInGrip
<1>2. Grows /\ OnlyAt(s) /\ UNCHANGED before
  BY <1>1, SameTable DEF WorkerSide
<1>3. CASE k \in DOMAIN table
  <2>1. PICK y : y = Done(x, k, table[k])
    OBVIOUS
  <2>2. y.req = x.req /\ y.at = "next" /\ y.done = Extend(x.done, k, table[k])
    BY <2>1 DEF Done
  <2>3. /\ DOMAIN y.done = DOMAIN x.done \cup {k} /\ y.done[k] = table[k]
        /\ \A j \in DOMAIN x.done : j # k => y.done[j] = x.done[j]
    BY <2>2 DEF Extend
  <2>4. Become(s, x, y)
    BY <1>3, <2>1 DEF FindParam
  <2>5. before[x.req.worker][k] \subseteq table[k]
    BY <1>3, AnsweredBefore
  <2>6. Grip(y)'
    BY <1>1, <1>2, <2>2, <2>3, <2>5 DEF Grip
  <2> QED
    BY <1>1, <1>2, <2>2, <2>4, <2>6, TableBecome
<1>4. CASE k \notin DOMAIN table
  <2> DEFINE y == [at |-> "assign", req |-> x.req, done |-> x.done, key |-> k]
  <2>1. Become(s, x, y) /\ y.req = x.req /\ y.at = "assign" /\ y.key = k /\ y.done = x.done
    BY <1>4 DEF FindParam
  <2> HIDE DEF y
  <2>2. Grip(y)'
    BY <1>1, <1>2, <1>4, <2>1 DEF Grip
  <2> QED
    BY <1>1, <1>2, <2>1, <2>2, TableBecome
<1> QED
  BY <1>3, <1>4

LEMMA TableAssignParam ==
    ASSUME IInv, TableInv, async_exec_num = 1, NEW s \in Servers, NEW x \in work[s],
           AssignParam(s, x)
    PROVE  TableInv'
<1> DEFINE y == Done(x, x.key, {})
<1>1. /\ IsWork(s, x) /\ x.at = "assign" /\ x.req.class = "pull"
      /\ x.key \in Todo(x) /\ x.key \in Keys
      /\ table' = Extend(table, x.key, {})
  BY AssignFacts
<1>2. Grip(x) /\ x.key \notin DOMAIN table
  BY <1>1 DEF TableInv, ThreadsInGrip, Grip
<1>3. UNCHANGED <<msgs, stored, WorkerSide, acked>> /\ UNCHANGED before
  BY DEF AssignParam, WorkerSide
<1>4. Become(s, x, y)
  BY AssignAlone
<1>5. y.req = x.req /\ y.at = "next" /\ y.done = Extend(x.done, x.key, {})
  BY DEF Done
<1>6. /\ DOMAIN y.done = DOMAIN x.done \cup {x.key} /\ y.done[x.key] = {}
      /\ \A j \in DOMAIN x.done : j # x.key => y.done[j] = x.done[j]
  BY <1>5 DEF Extend
<1> HIDE DEF y
<1>7. before[x.req.worker][x.key] = {}
  BY <1>1, <1>2, AnsweredBefore
<1>8. Grip(y)'
  BY <1>1, <1>2, <1>3, <1>5, <1>6, <1>7 DEF Grip
<1>9. Grows
  BY <1>1, <1>2 DEF Grows, Extend
<1>10. OnlyAt(s)
  <2>1. NodeOf(x.key) = s
    BY <1>1 DEF IsWork, IsMessage, Owned, Todo
  <2>2. \A k : k # x.key => (k \in DOMAIN table' <=> k \in DOMAIN table)
    BY <1>1 DEF Extend
  <2>3. \A k \in DOMAIN table : k # x.key => table'[k] = table[k]
    BY <1>1 DEF Extend
  <2> QED
    BY <2>1, <2>2, <2>3 DEF OnlyAt
<1> QED
  BY <1>3, <1>4, <1>5, <1>8, <1>9, <1>10, TableBecome

LEMMA TableFindPointer ==
    ASSUME IInv, TableInv, async_exec_num = 1, NEW s \in Servers, NEW x \in work[s],
           NEW k \in Keys, FindPointer(s, x, k)
    PROVE  TableInv'
<1> DEFINE y == [at |-> "read", req |-> x.req, done |-> x.done, key |-> k, stale |-> FALSE]
<1>1. Grip(x) /\ x.req.class = "push" /\ k \in DOMAIN table
  BY WorkFacts DEF FindPointer, Todo, TableInv, ThreadsInGrip
<1>2. Become(s, x, y) /\ UNCHANGED <<msgs, stored, WorkerSide, acked, table>>
  BY <1>1 DEF FindPointer
<1>3. y.req = x.req /\ y.at = "read" /\ ~y.stale /\ y.done = x.done
  OBVIOUS
<1> HIDE DEF y
<1>4. Grows /\ OnlyAt(s) /\ UNCHANGED before
  BY <1>2, SameTable DEF WorkerSide
<1>5. Grip(y)'
  BY <1>1, <1>2, <1>3, <1>4 DEF Grip
<1> QED
  BY <1>2, <1>3, <1>4, <1>5, TableBecome

LEMMA TableReadParam ==
    ASSUME IInv, TableInv, async_exec_num = 1, NEW s \in Servers, NEW x \in work[s],
           ReadParam(s, x)
    PROVE  TableInv'
<1>1. Grip(x) /\ x.at = "read" /\ IsWork(s, x)
  BY WorkFacts DEF ReadParam, At, TableInv, ThreadsInGrip
<1>2. PICK y : y = [at |-> "write", req |-> x.req, done |-> x.done, key |-> x.key,
                    stale |-> x.stale, old |-> table[x.key]]
  OBVIOUS
<1>3. Become(s, x, y) /\ UNCHANGED <<msgs, stored, WorkerSide, acked, table>>
  BY <1>2 DEF ReadParam
<1>4. /\ y.req = x.req /\ y.at = "write" /\ y.stale = x.stale /\ y.done = x.done
      /\ y.key = x.key /\ y.old = table[x.key]
  BY <1>2
<1>5. Grows /\ OnlyAt(s) /\ UNCHANGED before
  BY <1>3, SameTable DEF WorkerSide
<1>6. x.req.class = "push"
  BY <1>1 DEF IsWork, IsPlaced
<1>7. Grip(y)'
  BY <1>1, <1>3, <1>4, <1>5, <1>6 DEF Grip
<1> QED
  BY <1>3, <1>4, <1>5, <1>7, TableBecome

\* The value written back is the one in the table with the gradient applied.
LEMMA WriteFacts ==
    ASSUME IInv, TableInv, async_exec_num = 1, NEW s \in Servers, NEW x \in work[s],
           WriteParam(s, x)
    PROVE  /\ IsWork(s, x) /\ x.at = "write" /\ x.req.class = "push"
           /\ x.key \in Todo(x) /\ x.key \in Keys /\ NodeOf(x.key) = s
           /\ x.key \in DOMAIN table
           /\ table' = [table EXCEPT ![x.key] = table[x.key] \cup x.req.items[x.key]]
           /\ UNCHANGED failed
<1>1. IsWork(s, x) /\ x.at = "write" /\ Grip(x)
  BY WorkFacts DEF WriteParam, At, TableInv, ThreadsInGrip
<1>2. x.req.class = "push" /\ x.key \in Todo(x)
  BY <1>1 DEF IsWork, IsPlaced
<1>3. x.key \in Keys /\ NodeOf(x.key) = s
  BY <1>1, <1>2 DEF IsWork, IsMessage, Owned, Todo
<1>4. x.key \in DOMAIN table
  BY <1>2, WorkFacts DEF Todo
<1>5. ~x.stale /\ x.old = table[x.key]
  BY <1>1 DEF Grip
<1> QED
  BY <1>1, <1>2, <1>3, <1>4, <1>5 DEF WriteParam

LEMMA TableWriteParam ==
    ASSUME IInv, TableInv, async_exec_num = 1, NEW s \in Servers, NEW x \in work[s],
           WriteParam(s, x)
    PROVE  TableInv'
<1> DEFINE y == Done(x, x.key, {})
<1>1. /\ x.req.class = "push" /\ x.key \in Todo(x) /\ x.key \in DOMAIN table
      /\ NodeOf(x.key) = s
      /\ table' = [table EXCEPT ![x.key] = table[x.key] \cup x.req.items[x.key]]
  BY WriteFacts
<1>2. Grip(x) /\ DOMAIN x.done \subseteq DOMAIN table
  BY WorkFacts DEF TableInv, ThreadsInGrip
<1>3. Become(s, x, y) /\ UNCHANGED <<msgs, stored, WorkerSide, acked>> /\ UNCHANGED before
  BY DEF WriteParam, WorkerSide
<1>4. y.req = x.req /\ y.at = "next" /\ y.done = Extend(x.done, x.key, {})
  BY DEF Done
<1>5. DOMAIN y.done = DOMAIN x.done \cup {x.key}
  BY <1>4 DEF Extend
<1> HIDE DEF y
<1>6. Grows /\ OnlyAt(s)
  BY <1>1 DEF Grows, OnlyAt
<1>7. Grip(y)'
  BY <1>1, <1>2, <1>3, <1>4, <1>5 DEF Grip
<1> QED
  BY <1>3, <1>4, <1>6, <1>7, TableBecome

LEMMA MoveOnFacts ==
    ASSUME IInv, NEW s \in Servers, NEW x \in work[s],
           CountPush(s, x) \/ TestBackup(s, x) \/ BackupParam(s, x)
    PROVE  \E place \in {"counted", "backup", "reply"} : \E y :
              /\ Become(s, x, y)
              /\ y.at = place /\ y.req = x.req /\ y.done = x.done
              /\ x.req.class = "push"
              /\ UNCHANGED <<msgs, stored, WorkerSide, acked, table>>
<1>1. IsWork(s, x) /\ x.at \in {"next", "counted", "backup"}
  BY WorkFacts DEF CountPush, TestBackup, BackupParam, At
<1>2. DOMAIN x = {"at", "req", "done"}
  BY <1>1 DEF IsWork, IsPlaced
<1>3. x.req.class = "push"
  <2>1. CASE CountPush(s, x)
    BY <2>1 DEF CountPush
  <2>2. CASE TestBackup(s, x) \/ BackupParam(s, x)
    <3>1. x.at \in {"counted", "backup"}
      BY <2>2 DEF TestBackup, BackupParam, At
    <3> QED
      BY <1>1, <3>1 DEF IsWork, IsPlaced
  <2> QED
    BY <2>1, <2>2
<1>4. PICK place \in {"counted", "backup", "reply"} : Become(s, x, [x EXCEPT !.at = place])
  BY DEF CountPush, TestBackup, BackupParam
<1> DEFINE y == [x EXCEPT !.at = place]
<1>5. y.req = x.req /\ y.at = place /\ y.done = x.done
  BY <1>2
<1>6. Become(s, x, y) /\ UNCHANGED <<msgs, stored, WorkerSide, acked, table>>
  BY <1>4 DEF CountPush, TestBackup, BackupParam
<1> QED
  BY <1>3, <1>5, <1>6

LEMMA TableMoveOn ==
    ASSUME IInv, TableInv, async_exec_num = 1, NEW s \in Servers, NEW x \in work[s],
           CountPush(s, x) \/ TestBackup(s, x) \/ BackupParam(s, x)
    PROVE  TableInv'
<1>1. PICK place \in {"counted", "backup", "reply"} : \E y :
              /\ Become(s, x, y)
              /\ y.at = place /\ y.req = x.req /\ y.done = x.done
              /\ x.req.class = "push"
              /\ UNCHANGED <<msgs, stored, WorkerSide, acked, table>>
  BY MoveOnFacts
<1>2. PICK y : /\ Become(s, x, y)
               /\ y.at = place /\ y.req = x.req /\ y.done = x.done
               /\ x.req.class = "push"
               /\ UNCHANGED <<msgs, stored, WorkerSide, acked, table>>
  BY <1>1
<1>3. Grip(x)
  BY DEF TableInv, ThreadsInGrip
<1>4. Grows /\ OnlyAt(s) /\ UNCHANGED before
  BY <1>2, SameTable DEF WorkerSide
<1>5. Grip(y)'
  BY <1>2, <1>3, <1>4 DEF Grip
<1> QED
  BY <1>2, <1>4, <1>5, TableBecome

\* A request that is taken, or answered, is owed as it was.
LEMMA TakeOwing ==
    ASSUME IInv, NEW s \in Servers, NEW m \in msgs, TakeRequest(s, m)
    PROVE  \A w : Owing(w)' = Owing(w)
<1> DEFINE x0 == [at |-> "next", req |-> m, done |-> NoEntries]
<1>1. /\ UNCHANGED stored /\ msgs' = msgs \ {m} /\ m.server = s
      /\ work' = [work EXCEPT ![s] = work[s] \cup {x0}]
  BY DEF TakeRequest
<1>2. x0.req = m
  OBVIOUS
<1> HIDE DEF x0
<1>3. /\ work'[s] = work[s] \cup {x0}
      /\ \A t \in Servers : t # s => work'[t] = work[t]
  BY <1>1 DEF IInv, TypeInv, WorkTypes
<1> SUFFICES ASSUME NEW w, NEW t \in Servers PROVE t \in Owing(w)' <=> t \in Owing(w)
  BY DEF Owing
<1>4. CASE t # s
  BY <1>1, <1>3, <1>4 DEF Owing
<1>5. CASE t = s
  BY <1>1, <1>2, <1>3, <1>5 DEF Owing
<1> QED
  BY <1>4, <1>5

LEMMA ReplyOwing ==
    ASSUME IInv, NEW s \in Servers, NEW x \in work[s], Reply(s, x)
    PROVE  \A w : Owing(w)' = Owing(w)
<1>1. PICK r : r = Message("response", x.req.class, x.req.worker, s, x.done)
  OBVIOUS
<1>2. /\ UNCHANGED stored /\ msgs' = msgs \cup {r}
      /\ r.worker = x.req.worker /\ r.server = s
  <2>1. UNCHANGED stored /\ msgs' = msgs \cup {r}
    BY <1>1 DEF Reply
  <2>2. r.worker = x.req.worker /\ r.server = s
    BY <1>1, ReplyFacts
  <2> QED
    BY <2>1, <2>2
<1>3. /\ work'[s] = work[s] \ {x}
      /\ \A t \in Servers : t # s => work'[t] = work[t]
  BY DEF Reply, IInv, TypeInv, WorkTypes
<1> SUFFICES ASSUME NEW w, NEW t \in Servers PROVE t \in Owing(w)' <=> t \in Owing(w)
  BY DEF Owing
<1>4. CASE t # s
  BY <1>2, <1>3, <1>4 DEF Owing
<1>5. CASE t = s
  BY <1>2, <1>3, <1>5 DEF Owing
<1> QED
  BY <1>4, <1>5

LEMMA TableTakeRequest ==
    ASSUME IInv, TableInv, NEW s \in Servers, NEW m \in msgs, TakeRequest(s, m)
    PROVE  TableInv'
<1> DEFINE x0 == [at |-> "next", req |-> m, done |-> NoEntries]
<1>1. /\ UNCHANGED <<table, stored, pc, batch, params, before, acked>> /\ msgs' = msgs \ {m}
      /\ work' = [work EXCEPT ![s] = work[s] \cup {x0}]
  BY DEF TakeRequest, WorkerSide, cache
<1>2. x0.at = "next" /\ DOMAIN x0.done = {}
  BY DEF NoEntries
<1> HIDE DEF x0
<1>3. \A t \in Servers : \A z \in work'[t] : z = x0 \/ z \in work[t]
  BY <1>1 DEF IInv, TypeInv, WorkTypes
<1>4. ThreadsInGrip'
  <2> SUFFICES ASSUME NEW t \in Servers, NEW z \in work'[t] PROVE Grip(z)'
    BY DEF ThreadsInGrip
  <2>1. CASE z = x0
    BY <1>2, <2>1 DEF Grip
  <2>2. CASE z \in work[t]
    BY <1>1, <2>2 DEF TableInv, ThreadsInGrip, Grip
  <2> QED
    BY <1>3, <2>1, <2>2
<1>5. AnsweredPushCounts' /\ HistoryTypes'
  BY <1>1 DEF TableInv, AnsweredPushCounts, HistoryTypes
<1>6. AnswersAreRecent'
  BY <1>1, TakeOwing DEF TableInv, AnswersAreRecent
<1> QED
  BY <1>4, <1>5, <1>6 DEF TableInv

LEMMA TableReply ==
    ASSUME IInv, TableInv, NEW s \in Servers, NEW x \in work[s], Reply(s, x)
    PROVE  TableInv'
<1>1. PICK r : r = Message("response", x.req.class, x.req.worker, s, x.done)
  OBVIOUS
<1>2. /\ r.class = x.req.class /\ r.worker = x.req.worker /\ r.items = x.done
  BY <1>1, ReplyFacts
<1>3. /\ UNCHANGED <<table, stored, pc, batch, params, before>>
      /\ msgs' = msgs \cup {r} /\ work' = [work EXCEPT ![s] = work[s] \ {x}]
      /\ acked' = [k \in Keys |-> IF x.req.class = "push" /\ k \in DOMAIN x.req.items
                                  THEN acked[k] \cup x.req.items[k] ELSE acked[k]]
  BY <1>1 DEF Reply, WorkerSide, cache
<1>4. Grip(x) /\ IsWork(s, x) /\ DOMAIN x.done \subseteq DOMAIN table
  BY WorkFacts DEF TableInv, ThreadsInGrip
<1>5. DOMAIN x.req.items = DOMAIN x.done
  BY <1>4 DEF Reply, Todo, IsWork
<1>6. ThreadsInGrip'
  <2>1. \A t \in Servers : work'[t] \subseteq work[t]
    BY <1>3 DEF IInv, TypeInv, WorkTypes
  <2> QED
    BY <1>3, <2>1 DEF TableInv, ThreadsInGrip, Grip
<1>7. AnsweredPushCounts'
  <2> SUFFICES ASSUME NEW k \in Keys, acked'[k] # {}
               PROVE  k \in DOMAIN table /\ acked'[k] \subseteq table[k]
    BY <1>3 DEF AnsweredPushCounts
  <2>1. acked[k] # {} => k \in DOMAIN table /\ acked[k] \subseteq table[k]
    BY DEF TableInv, AnsweredPushCounts
  <2>2. CASE x.req.class = "push" /\ k \in DOMAIN x.req.items
    <3>1. k \in DOMAIN table /\ x.req.items[k] \subseteq table[k]
      BY <1>4, <1>5, <2>2 DEF Grip
    <3>2. acked'[k] = acked[k] \cup x.req.items[k]
      BY <1>3, <2>2
    <3> QED
      BY <2>1, <3>1, <3>2
  <2>3. CASE ~(x.req.class = "push" /\ k \in DOMAIN x.req.items)
    BY <1>3, <2>1, <2>3
  <2> QED
    BY <2>2, <2>3
<1>8. AnswersAreRecent'
  <2>1. r.class = "pull" => \A k \in DOMAIN r.items : before[r.worker][k] \subseteq r.items[k]
    BY <1>2, <1>4 DEF Grip
  <2> QED
    BY <1>3, <2>1, ReplyOwing DEF TableInv, AnswersAreRecent
<1>9. HistoryTypes'
  <2>1. DOMAIN acked' = Keys /\ \A k \in Keys : acked[k] \subseteq acked'[k]
    BY <1>3
  <2> QED
    BY <1>3, <2>1 DEF TableInv, HistoryTypes
<1> QED
  BY <1>6, <1>7, <1>8, <1>9 DEF TableInv

-----------------------------------------------------------------------------
(* The workers' steps.                                                     *)

\* A new round remembers what has been answered; nothing else is under way
\* for its worker.
LEMMA TableBegins ==
    ASSUME IInv, TableInv, NEW w \in Workers, NEW place \in {"pulling", "pushing"},
           NEW b \in SUBSET Keys, NEW asked,
           pc[w] = "ready", Begin(w, place, b), msgs' = msgs \cup asked,
           \A m \in asked : m.type = "request" /\ m.worker = w,
           place = "pulling" => \A k \in b : \E m \in asked : m.server = NodeOf(k),
           UNCHANGED <<server, stored, params, acked>>
    PROVE  TableInv'
<1>1. /\ UNCHANGED <<table, work, stored, params, acked>>
      /\ pc' = [pc EXCEPT ![w] = place] /\ batch' = [batch EXCEPT ![w] = b]
      /\ before' = [before EXCEPT ![w] = acked]
  BY DEF Begin, server
<1>2. /\ DOMAIN pc = Workers /\ DOMAIN batch = Workers
      /\ DOMAIN before = Workers /\ DOMAIN acked = Keys
  BY DEF IInv, TypeInv, WorkerTypes, TableInv, HistoryTypes
<1>3. /\ pc'[w] = place /\ batch'[w] = b /\ before'[w] = acked
      /\ \A v \in Workers : v # w => /\ pc'[v] = pc[v] /\ batch'[v] = batch[v]
                                     /\ before'[v] = before[v]
  BY <1>1, <1>2
<1>4. /\ \A m \in msgs \cup stored : m.worker # w
      /\ \A s \in Servers : \A x \in work[s] : x.req.worker # w
  BY NothingOwed
<1>5. ThreadsInGrip'
  <2>1. \A s \in Servers : \A x \in work[s] : x.req.worker \in Workers
    BY WorkFacts DEF IsWork, IsMessage
  <2>2. \A s \in Servers : \A x \in work[s] : before'[x.req.worker] = before[x.req.worker]
    BY <1>3, <1>4, <2>1
  <2> QED
    BY <1>1, <2>2 DEF TableInv, ThreadsInGrip, Grip
<1>6. AnsweredPushCounts'
  BY <1>1 DEF TableInv, AnsweredPushCounts
<1>7. AnswersAreRecent'
  <2>1. \A m \in msgs \cup stored : before'[m.worker] = before[m.worker]
    <3>1. \A m \in msgs \cup stored : m.worker \in Workers
      BY DEF IInv, TypeInv, MessageTypes, IsMessage
    <3> QED
      BY <1>3, <1>4, <3>1
  <2>2. \A m \in msgs' : m.type = "response" => m \in msgs
    OBVIOUS
  <2>3. \A v : Owing(v) \subseteq Owing(v)'
    BY <1>1 DEF Owing
  <2>4. ASSUME NEW v \in Workers, pc'[v] = "pulling", NEW k \in batch'[v]
        PROVE  NodeOf(k) \in Owing(v)' \/ before'[v][k] \subseteq params[v][k]
    <3>1. CASE v = w
      <4>1. k \in b /\ place = "pulling"
        BY <1>3, <2>4, <3>1
      <4>2. PICK m \in asked : m.server = NodeOf(k) /\ m.worker = w
        BY <4>1
      <4>3. NodeOf(k) \in Servers
        BY <4>1, OwnerIsServer
      <4> QED
        BY <3>1, <4>2, <4>3 DEF Owing
    <3>2. CASE v # w
      BY <1>3, <2>3, <2>4, <3>2 DEF TableInv, AnswersAreRecent
    <3> QED
      BY <3>1, <3>2
  <2> QED
    BY <1>1, <2>1, <2>2, <2>4 DEF TableInv, AnswersAreRecent
<1>8. HistoryTypes'
  BY <1>1, <1>2, <1>3 DEF TableInv, HistoryTypes
<1> QED
  BY <1>5, <1>6, <1>7, <1>8 DEF TableInv

LEMMA TablePull ==
    ASSUME IInv, TableInv, NEW w \in Workers, NEW b \in Batches, Pull(w, b)
    PROVE  TableInv'
<1> DEFINE wanted(s) == [k \in {x \in b : NodeOf(x) = s} |-> {}]
           asked == {Message("request", "pull", w, s, wanted(s)) : s \in {NodeOf(k) : k \in b}}
<1>1. b \in SUBSET Keys
  BY ParamServerAssumption
<1>2. /\ pc[w] = "ready" /\ Begin(w, "pulling", b) /\ msgs' = msgs \cup asked
      /\ UNCHANGED <<server, stored, params, acked>>
  BY DEF Pull, cache
<1> HIDE DEF wanted
<1>3. \A m \in asked : m.type = "request" /\ m.worker = w
  BY DEF Message
<1>4. ASSUME NEW k \in b PROVE \E m \in asked : m.server = NodeOf(k)
  <2>1. Message("request", "pull", w, NodeOf(k), wanted(NodeOf(k))) \in asked
    OBVIOUS
  <2>2. Message("request", "pull", w, NodeOf(k), wanted(NodeOf(k))).server = NodeOf(k)
    BY DEF Message
  <2> QED
    BY <2>1, <2>2
<1> HIDE DEF asked
<1> QED
  BY <1>1, <1>2, <1>3, <1>4, TableBegins

LEMMA TablePush ==
    ASSUME IInv, TableInv, NEW w \in Workers, NEW b \in Batches, Push(w, b)
    PROVE  TableInv'
<1>1. b \in SUBSET Keys
  BY ParamServerAssumption
<1>2. /\ pc[w] = "ready" /\ Begin(w, "pushing", b) /\ msgs' = msgs \cup PushRequests(w, b)
      /\ UNCHANGED <<server, stored, params, acked>>
  BY DEF Push
<1>3. ASSUME NEW m \in PushRequests(w, b) PROVE m.type = "request" /\ m.worker = w
  <2>1. PICK s, items : m = Message("request", "push", w, s, items)
    BY DEF PushRequests
  <2> QED
    BY <2>1, RequestFields
<1> QED
  BY <1>1, <1>2, <1>3, TableBegins

LEMMA TableStoreParams ==
    ASSUME IInv, TableInv, NEW m \in msgs, StoreParams(m)
    PROVE  TableInv'
<1> DEFINE w0 == m.worker
           new == Written(params[w0], m.items)
<1>1. /\ UNCHANGED <<table, work, pc, batch, before, acked>>
      /\ m.type = "response" /\ m.class = "pull"
      /\ msgs' = msgs \ {m} /\ stored' = stored \cup {m}
      /\ params' = [params EXCEPT ![w0] = new]
  BY DEF StoreParams, server
<1>2. IsMessage(m) /\ w0 \in Workers /\ DOMAIN params = Workers
  BY DEF IInv, TypeInv, MessageTypes, IsMessage, WorkerTypes
<1>3. /\ \A k \in DOMAIN m.items : new[k] = m.items[k]
      /\ \A k \in DOMAIN params[w0] \ DOMAIN m.items : new[k] = params[w0][k]
  BY DEF Written
<1> HIDE DEF new
<1>4. params'[w0] = new /\ \A v \in Workers : v # w0 => params'[v] = params[v]
  BY <1>1, <1>2
<1>5. \A w : Owing(w)' = Owing(w)
  BY <1>1 DEF Owing
<1>6. \A k \in DOMAIN m.items : before[w0][k] \subseteq m.items[k]
  BY <1>1 DEF TableInv, AnswersAreRecent
<1>7. ASSUME NEW n \in stored', NEW k \in DOMAIN n.items
      PROVE  before[n.worker][k] \subseteq params'[n.worker][k]
  <2>1. CASE n = m
    BY <1>3, <1>4, <1>6, <1>7, <2>1
  <2>2. CASE n # m /\ n.worker = w0
    <3>1. n \in stored /\ n.server # m.server
      BY <1>1, <1>7, <2>2 DEF IInv, OneCall
    <3>2. IsMessage(n)
      BY <3>1 DEF IInv, TypeInv, MessageTypes
    <3>3. k \notin DOMAIN m.items
      BY <1>2, <1>7, <3>1, <3>2 DEF IsMessage, Owned
    <3>4. k \in DOMAIN params[w0] /\ before[w0][k] \subseteq params[w0][k]
      BY <1>7, <2>2, <3>1 DEF IInv, Cached, TableInv, AnswersAreRecent
    <3> QED
      BY <1>3, <1>4, <2>2, <3>3, <3>4
  <2>3. CASE n # m /\ n.worker # w0
    <3>1. n \in stored /\ n.worker \in Workers
      BY <1>1, <1>7, <2>3 DEF IInv, TypeInv, MessageTypes, IsMessage
    <3> QED
      BY <1>4, <1>7, <2>3, <3>1 DEF TableInv, AnswersAreRecent
  <2> QED
    BY <2>1, <2>2, <2>3
<1>8. ASSUME NEW w \in Workers, pc[w] = "pulling", NEW k \in batch[w], NodeOf(k) \notin Owing(w)
      PROVE  before[w][k] \subseteq params'[w][k]
  <2>1. before[w][k] \subseteq params[w][k] /\ k \in DOMAIN params[w]
    BY <1>8 DEF TableInv, AnswersAreRecent, IInv, Cached
  <2>2. CASE w = w0
    BY <1>3, <1>4, <1>6, <2>1, <2>2
  <2>3. CASE w # w0
    BY <1>4, <2>1, <2>3
  <2> QED
    BY <2>2, <2>3
<1>9. AnswersAreRecent'
  BY <1>1, <1>5, <1>7, <1>8 DEF TableInv, AnswersAreRecent
<1>10. ThreadsInGrip' /\ AnsweredPushCounts' /\ HistoryTypes'
  BY <1>1 DEF TableInv, ThreadsInGrip, Grip, AnsweredPushCounts, HistoryTypes
<1> QED
  BY <1>9, <1>10 DEF TableInv

LEMMA TableCountDown ==
    ASSUME IInv, TableInv, NEW m \in msgs \cup stored, CountDown(m)
    PROVE  TableInv'
<1>1. /\ UNCHANGED <<table, work, pc, batch, params, before, acked>>
      /\ m \in stored \/ m.class = "push"
      /\ msgs' = msgs \ {m} /\ stored' = stored \ {m}
  BY DEF CountDown, server, cache
<1>2. ASSUME NEW w \in Workers, pc[w] = "pulling", NEW k \in batch[w], NodeOf(k) \notin Owing(w)'
      PROVE  before[w][k] \subseteq params[w][k]
  <2>1. CASE NodeOf(k) \notin Owing(w)
    BY <1>2, <2>1 DEF TableInv, AnswersAreRecent
  <2>2. CASE NodeOf(k) \in Owing(w)
    <3>1. w = m.worker /\ NodeOf(k) = m.server
      BY <1>2, <2>2, CountDownOwing
    <3>2. InRound(m)
      BY DEF IInv, CallsInRound
    <3>3. m \in stored /\ k \in DOMAIN m.items
      BY <1>1, <1>2, <3>1, <3>2 DEF InRound, IInv, TypeInv, MessageTypes
    <3> QED
      BY <3>1, <3>3 DEF TableInv, AnswersAreRecent
  <2> QED
    BY <2>1, <2>2
<1>3. AnswersAreRecent'
  BY <1>1, <1>2 DEF TableInv, AnswersAreRecent
<1>4. ThreadsInGrip' /\ AnsweredPushCounts' /\ HistoryTypes'
  BY <1>1 DEF TableInv, ThreadsInGrip, Grip, AnsweredPushCounts, HistoryTypes
<1> QED
  BY <1>3, <1>4 DEF TableInv

LEMMA TablePassBarrier ==
    ASSUME IInv, TableInv, NEW w \in Workers, PassBarrier(w)
    PROVE  TableInv'
<1>1. /\ UNCHANGED <<table, work, msgs, stored, params, acked>> /\ open[w]
      /\ pc' = [pc EXCEPT ![w] = "ready"] /\ batch' = [batch EXCEPT ![w] = {}]
      /\ before' = [before EXCEPT ![w] = [k \in Keys |-> {}]]
  BY DEF PassBarrier, server, cache
<1>2. /\ DOMAIN pc = Workers /\ DOMAIN batch = Workers
      /\ DOMAIN before = Workers /\ DOMAIN acked = Keys
  BY DEF IInv, TypeInv, WorkerTypes, TableInv, HistoryTypes
<1>3. /\ pc'[w] = "ready" /\ \A k \in Keys : before'[w][k] = {}
      /\ \A v \in Workers : v # w => /\ pc'[v] = pc[v] /\ batch'[v] = batch[v]
                                     /\ before'[v] = before[v]
  BY <1>1, <1>2
<1>4. /\ \A m \in msgs \cup stored : m.worker # w
      /\ \A s \in Servers : \A x \in work[s] : x.req.worker # w
  BY <1>1, NothingOwed
<1>5. /\ \A s \in Servers : \A x \in work[s] : x.req.worker \in Workers
      /\ \A m \in msgs \cup stored : m.worker \in Workers
  BY WorkFacts DEF IsWork, IsMessage, IInv, TypeInv, MessageTypes
<1>6. /\ \A s \in Servers : \A x \in work[s] : before'[x.req.worker] = before[x.req.worker]
      /\ \A m \in msgs \cup stored : before'[m.worker] = before[m.worker]
  BY <1>3, <1>4, <1>5
<1>7. ThreadsInGrip'
  <2> SUFFICES ASSUME NEW s \in Servers, NEW x \in work[s] PROVE Grip(x)'
    BY <1>1 DEF ThreadsInGrip
  <2>1. Grip(x) /\ before'[x.req.worker] = before[x.req.worker] /\ UNCHANGED table
    BY <1>1, <1>6 DEF TableInv, ThreadsInGrip
  <2> QED
    BY <2>1 DEF Grip
<1>8. \A v : Owing(v)' = Owing(v)
  BY <1>1 DEF Owing
<1>9. AnswersAreRecent'
  <2>1. UNCHANGED <<msgs, stored, params>>
    BY <1>1
  <2>2. ASSUME NEW v \in Workers, pc'[v] = "pulling", NEW k \in batch'[v]
        PROVE  NodeOf(k) \in Owing(v)' \/ before'[v][k] \subseteq params[v][k]
    BY <1>3, <1>8, <2>2 DEF TableInv, AnswersAreRecent
  <2>3. /\ \A m \in msgs : m.type = "response" /\ m.class = "pull" =>
              \A k \in DOMAIN m.items : before'[m.worker][k] \subseteq m.items[k]
        /\ \A m \in stored :
              \A k \in DOMAIN m.items : before'[m.worker][k] \subseteq params[m.worker][k]
    BY <1>6 DEF TableInv, AnswersAreRecent
  <2> QED
    BY <2>1, <2>2, <2>3 DEF AnswersAreRecent
<1>10. AnsweredPushCounts' /\ HistoryTypes'
  BY <1>1, <1>2, <1>3 DEF TableInv, AnsweredPushCounts, HistoryTypes
<1> QED
  BY <1>7, <1>9, <1>10 DEF TableInv

LEMMA TableSame ==
    ASSUME TableInv,
           UNCHANGED <<table, work, msgs, stored, pc, batch, params, before, acked>>
    PROVE  TableInv'
<1>1. \A w : Owing(w)' = Owing(w)
  BY DEF Owing
<1> QED
  BY <1>1 DEF TableInv, ThreadsInGrip, Grip, AnsweredPushCounts, AnswersAreRecent, HistoryTypes

\* The number of pool threads is set when the process starts.
LEMMA ThreadsAreFixed == [Next]_vars => UNCHANGED async_exec_num
<1> SUFFICES ASSUME [Next]_vars PROVE UNCHANGED async_exec_num
  OBVIOUS
<1>1. ASSUME NEW w \in Workers, TrainStep(w) \/ PassBarrier(w) PROVE UNCHANGED async_exec_num
  BY <1>1 DEF TrainStep, Pull, Push, Train, PassBarrier, server
<1>2. ASSUME NEW m \in msgs \cup stored, Callback(m) PROVE UNCHANGED async_exec_num
  BY <1>2 DEF Callback, StoreParams, CountDown, server
<1>3. ASSUME NEW s \in Servers, PoolStep(s) PROVE UNCHANGED async_exec_num
  BY <1>3 DEF PoolStep, TakeRequest, FindParam, FindPointer, AssignParam, ReadParam,
              WriteParam, CountPush, TestBackup, BackupParam, Reply
<1>4. CASE UNCHANGED vars
  BY <1>4 DEF vars, server
<1> QED
  BY <1>1, <1>2, <1>3, <1>4 DEF Next

LEMMA TableNext == IInv /\ TableInv /\ async_exec_num = 1 /\ [Next]_vars => TableInv'
<1> SUFFICES ASSUME IInv, TableInv, async_exec_num = 1, [Next]_vars PROVE TableInv'
  OBVIOUS
<1>1. ASSUME NEW w \in Workers, TrainStep(w) \/ PassBarrier(w) PROVE TableInv'
  <2>1. ASSUME NEW b \in Batches, Train(w, b) PROVE TableInv'
    BY <2>1, TableSame DEF Train, server
  <2> QED
    BY <1>1, <2>1, TablePull, TablePush, TablePassBarrier DEF TrainStep
<1>2. ASSUME NEW m \in msgs \cup stored, Callback(m) PROVE TableInv'
  <2>1. StoreParams(m) => m \in msgs
    BY DEF StoreParams
  <2> QED
    BY <1>2, <2>1, TableStoreParams, TableCountDown DEF Callback
<1>3. ASSUME NEW s \in Servers, PoolStep(s) PROVE TableInv'
  BY <1>3, TableTakeRequest, TableFindParam, TableFindPointer, TableAssignParam,
     TableReadParam, TableWriteParam, TableMoveOn, TableReply DEF PoolStep
<1>4. CASE UNCHANGED vars
  BY <1>4, TableSame DEF vars, server, cache
<1> QED
  BY <1>1, <1>2, <1>3, <1>4 DEF Next

LEMMA TableInit == Init => TableInv
  BY DEF Init, NoEntries, TableInv, ThreadsInGrip, AnsweredPushCounts, AnswersAreRecent,
         HistoryTypes

-----------------------------------------------------------------------------
(* Backups.                                                                *)

LEMMA LookingType ==
    ASSUME IInv, async_exec_num = 1, NEW s \in Servers
    PROVE  /\ push_counter[s] \in Nat /\ BackupPeriod \in Nat
           /\ LookedAt(s) = push_counter[s] - Cardinality(Looking(s))
           /\ Looking(s) = {} => LookedAt(s) = push_counter[s]
           /\ \A x : Looking(s) = {x} => LookedAt(s) = push_counter[s] - 1
           /\ \A x \in Looking(s) : Looking(s) = {x} /\ work[s] = {x}
<1>1. push_counter[s] \in Nat /\ BackupPeriod \in Nat
  BY ParamServerAssumption DEF IInv, TypeInv, ServerTypes
<1>2. LookedAt(s) = push_counter[s] - Cardinality(Looking(s))
  BY DEF LookedAt, Looking
<1>3. \A x : Cardinality({x}) = 1
  BY FS_Singleton
<1>4. Cardinality({}) = 0
  BY FS_EmptySet
<1>5. ASSUME NEW x \in Looking(s) PROVE Looking(s) = {x} /\ work[s] = {x}
  BY <1>5, OnlyThread DEF Looking
<1>6. Looking(s) = {} => LookedAt(s) = push_counter[s]
  BY <1>1, <1>2, <1>4
<1>7. ASSUME NEW x, Looking(s) = {x} PROVE LookedAt(s) = push_counter[s] - 1
  BY <1>1, <1>2, <1>3, <1>7
<1> QED
  BY <1>1, <1>2, <1>5, <1>6, <1>7

LEMMA BackupKept ==
    ASSUME BackupInv, UNCHANGED <<push_counter, backups>>,
           \A s \in Servers : Looking(s)' = Looking(s)
    PROVE  BackupInv'
<1>1. \A s \in Servers : LookedAt(s)' = LookedAt(s)
  BY DEF LookedAt, Looking
<1> QED
  BY <1>1 DEF BackupInv

\* Nobody is counted by a step between two other places.
LEMMA BackupBecome ==
    ASSUME IInv, BackupInv, NEW s \in Servers, NEW x \in work[s], NEW y, Become(s, x, y),
           x.at \notin {"counted", "backup"}, y.at \notin {"counted", "backup"},
           UNCHANGED <<push_counter, backups>>
    PROVE  BackupInv'
<1>1. /\ work'[s] = (work[s] \ {x}) \cup {y}
      /\ \A t \in Servers : t # s => work'[t] = work[t]
  BY WorkAfter
<1>2. ASSUME NEW t \in Servers PROVE Looking(t)' = Looking(t)
  <2>1. CASE t = s
    BY <1>1, <2>1 DEF Looking
  <2>2. CASE t # s
    BY <1>1, <2>2 DEF Looking
  <2> QED
    BY <2>1, <2>2
<1> QED
  BY <1>2, BackupKept

\* Only server s has something to show.
LEMMA BackupAt ==
    ASSUME BackupInv, NEW s \in Servers,
           \A t \in Servers \ {s} : /\ work'[t] = work[t]
                                    /\ push_counter'[t] = push_counter[t]
                                    /\ backups'[t] = backups[t],
           backups'[s] = IF BackupPeriod = 0 THEN <<>>
                         ELSE [i \in 1 .. LookedAt(s)' \div BackupPeriod |-> i * BackupPeriod],
           \A x \in Looking(s)' : x.at = "backup" =>
              BackupPeriod > 0 /\ push_counter'[s] % BackupPeriod = 0,
           Looking(s)' # {} => push_counter'[s] > 0
    PROVE  BackupInv'
<1> SUFFICES ASSUME NEW t \in Servers
    PROVE
       /\ backups'[t] = IF BackupPeriod = 0 THEN <<>>
                        ELSE [i \in 1 .. LookedAt(t)' \div BackupPeriod |-> i * BackupPeriod]
       /\ \A x \in Looking(t)' : x.at = "backup" =>
             BackupPeriod > 0 /\ push_counter'[t] % BackupPeriod = 0
       /\ Looking(t)' # {} => push_counter'[t] > 0
  BY DEF BackupInv
<1>1. CASE t = s
  BY <1>1
<1>2. CASE t # s
  <2>1. /\ UNCHANGED <<Looking(t), LookedAt(t)>>
        /\ backups'[t] = backups[t] /\ push_counter'[t] = push_counter[t]
    BY <1>2 DEF Looking, LookedAt
  <2> QED
    BY <2>1 DEF BackupInv
<1> QED
  BY <1>1, <1>2

LEMMA BackupCountPush ==
    ASSUME IInv, IInv', BackupInv, async_exec_num = 1, UNCHANGED async_exec_num,
           NEW s \in Servers, NEW x \in work[s], CountPush(s, x)
    PROVE  BackupInv'
<1>1. IsWork(s, x) /\ x.at = "next"
  BY WorkFacts DEF CountPush, At
<1>2. DOMAIN x = {"at", "req", "done"}
  BY <1>1 DEF IsWork, IsPlaced
<1> DEFINE y == [x EXCEPT !.at = "counted"]
<1>3. y.at = "counted"
  BY <1>2
<1>4. /\ Become(s, x, y) /\ UNCHANGED backups
      /\ push_counter' = [push_counter EXCEPT ![s] = push_counter[s] + 1]
  BY DEF CountPush
<1> HIDE DEF y
<1>5. work'[s] = {y} /\ \A t \in Servers : t # s => work'[t] = work[t]
  BY <1>4, AloneAfter
<1>6. work[s] = {x}
  BY OnlyThread
<1>7. Looking(s) = {} /\ Looking(s)' = {y}
  BY <1>1, <1>3, <1>5, <1>6 DEF Looking
<1>8. push_counter \in [Servers -> Nat]
  BY DEF IInv, TypeInv, ServerTypes
<1>9. push_counter'[s] = push_counter[s] + 1 /\ push_counter[s] \in Nat
  BY <1>4, <1>8
<1>10. LookedAt(s)' = push_counter'[s] - 1 /\ LookedAt(s) = push_counter[s]
  <2>1. LookedAt(s) = push_counter[s]
    BY <1>7, LookingType
  <2>2. LookedAt(s)' = push_counter'[s] - Cardinality(Looking(s)')
    BY DEF LookedAt, Looking
  <2>3. Cardinality({y}) = 1
    BY FS_Singleton
  <2> QED
    BY <1>7, <2>1, <2>2, <2>3
<1>11. LookedAt(s)' = LookedAt(s)
  BY <1>9, <1>10
<1>12. \A z \in Looking(s)' : z.at # "backup"
  BY <1>3, <1>7
<1>13. backups'[s] = IF BackupPeriod = 0 THEN <<>>
                     ELSE [i \in 1 .. LookedAt(s)' \div BackupPeriod |-> i * BackupPeriod]
  BY <1>4, <1>11 DEF BackupInv
<1>14. push_counter'[s] > 0
  BY <1>9
<1>15. \A t \in Servers \ {s} : /\ work'[t] = work[t]
                                /\ push_counter'[t] = push_counter[t]
                                /\ backups'[t] = backups[t]
  BY <1>4, <1>5, <1>8
<1> QED
  BY <1>12, <1>13, <1>14, <1>15, BackupAt

\* The quotient grows where the remainder is zero.
LEMMA NextQuotient ==
    ASSUME NEW c \in Nat, c > 0, NEW p \in Nat, p > 0
    PROVE  /\ (c - 1) \div p \in Nat
           /\ c % p # 0 => c \div p = (c - 1) \div p
           /\ c % p = 0 => /\ c \div p = (c - 1) \div p + 1
                           /\ ((c - 1) \div p + 1) * p = c
<1>1. PICK d \in Nat : d = c - 1
  OBVIOUS
<1>2. PICK q \in Nat : q = d \div p
  BY Quotient
<1>3. q * p <= d /\ d < q * p + p
  BY <1>2, QuotientBounds
<1>4. q * p \in Nat /\ (q + 1) * p = q * p + p /\ c = d + 1
  BY <1>1
<1>5. CASE c < q * p + p
  <2>1. c \div p = q
    BY <1>3, <1>4, <1>5, QuotientBounds
  <2>2. c = p * q + (c % p)
    BY <2>1
  <2>3. c % p # 0
    BY <1>3, <1>4, <2>2
  <2> QED
    BY <1>1, <1>2, <2>1, <2>3
<1>6. CASE c = q * p + p
  <2>1. (q + 1) * p <= c /\ c < (q + 1) * p + p
    BY <1>4, <1>6
  <2>2. c \div p = q + 1
    BY <2>1, QuotientBounds
  <2>3. c % p = 0
    <3>1. c = p * (q + 1) + (c % p)
      BY <2>2
    <3> QED
      BY <1>4, <1>6, <3>1
  <2> QED
    BY <1>1, <1>2, <1>4, <1>6, <2>2, <2>3
<1>7. c < q * p + p \/ c = q * p + p
  BY <1>3, <1>4
<1> QED
  BY <1>5, <1>6, <1>7

LEMMA BackupTest ==
    ASSUME IInv, BackupInv, async_exec_num = 1,
           NEW s \in Servers, NEW x \in work[s], TestBackup(s, x)
    PROVE  BackupInv'
<1> DEFINE c == push_counter[s]
           due == BackupPeriod > 0 /\ c % BackupPeriod = 0
<1>1. IsWork(s, x) /\ x.at = "counted"
  BY WorkFacts DEF TestBackup, At
<1>2. DOMAIN x = {"at", "req", "done"}
  BY <1>1 DEF IsWork, IsPlaced
<1>3. PICK y : y = [x EXCEPT !.at = IF due THEN "backup" ELSE "reply"]
  OBVIOUS
<1>4. y.at = IF due THEN "backup" ELSE "reply"
  BY <1>2, <1>3
<1>5. Become(s, x, y) /\ UNCHANGED <<push_counter, backups>>
  BY <1>3 DEF TestBackup, backup
<1>6. work'[s] = {y} /\ \A t \in Servers : t # s => work'[t] = work[t]
  BY <1>5, AloneAfter
<1>7. Looking(s) = {x} /\ Looking(s)' = IF due THEN {y} ELSE {}
  <2>1. Looking(s) = {x}
    BY <1>1, OnlyThread DEF Looking
  <2>2. Looking(s)' = IF due THEN {y} ELSE {}
    BY <1>4, <1>6 DEF Looking
  <2> QED
    BY <2>1, <2>2
<1>8. c \in Nat /\ BackupPeriod \in Nat /\ LookedAt(s) = c - 1 /\ c > 0
  BY <1>7, LookingType DEF BackupInv
<1>9. LookedAt(s)' = IF due THEN c - 1 ELSE c
  <2>1. LookedAt(s)' = c - Cardinality(Looking(s)')
    BY <1>5 DEF LookedAt, Looking
  <2>2. Cardinality({y}) = 1 /\ Cardinality({}) = 0
    BY FS_Singleton, FS_EmptySet
  <2> QED
    BY <1>7, <1>8, <2>1, <2>2
<1>10. BackupPeriod # 0 => LookedAt(s)' \div BackupPeriod = LookedAt(s) \div BackupPeriod
  BY <1>8, <1>9, NextQuotient
<1>11. backups'[s] = IF BackupPeriod = 0 THEN <<>>
                     ELSE [i \in 1 .. LookedAt(s)' \div BackupPeriod |-> i * BackupPeriod]
  BY <1>5, <1>10 DEF BackupInv
<1>12. \A z \in Looking(s)' : z.at = "backup" =>
          BackupPeriod > 0 /\ push_counter'[s] % BackupPeriod = 0
  BY <1>5, <1>7
<1> QED
  BY <1>5, <1>6, <1>8, <1>11, <1>12, BackupAt

LEMMA BackupWritten ==
    ASSUME IInv, BackupInv, async_exec_num = 1,
           NEW s \in Servers, NEW x \in work[s], BackupParam(s, x)
    PROVE  BackupInv'
<1> DEFINE c == push_counter[s]
           P == BackupPeriod
<1>1. IsWork(s, x) /\ x.at = "backup"
  BY WorkFacts DEF BackupParam, At
<1>2. DOMAIN x = {"at", "req", "done"}
  BY <1>1 DEF IsWork, IsPlaced
<1>3. PICK y : y = [x EXCEPT !.at = "reply"]
  OBVIOUS
<1>4. y.at = "reply"
  BY <1>2, <1>3
<1>5. /\ Become(s, x, y) /\ UNCHANGED push_counter
      /\ backups' = [backups EXCEPT ![s] = Append(backups[s], c)]
  BY <1>3 DEF BackupParam
<1>6. work'[s] = {y} /\ \A t \in Servers : t # s => work'[t] = work[t]
  BY <1>5, AloneAfter
<1>7. Looking(s) = {x} /\ Looking(s)' = {}
  <2>1. Looking(s) = {x}
    BY <1>1, OnlyThread DEF Looking
  <2>2. Looking(s)' = {}
    BY <1>4, <1>6 DEF Looking
  <2> QED
    BY <2>1, <2>2
<1>8. c \in Nat /\ P \in Nat /\ LookedAt(s) = c - 1 /\ c > 0
  BY <1>7, LookingType DEF BackupInv
<1>9. P > 0 /\ c % P = 0
  BY <1>1, <1>7 DEF BackupInv
<1>10. LookedAt(s)' = c
  <2>1. LookedAt(s)' = c - Cardinality(Looking(s)')
    BY <1>5 DEF LookedAt, Looking
  <2>2. Cardinality({}) = 0
    BY FS_EmptySet
  <2> QED
    BY <1>7, <1>8, <2>1, <2>2
<1>11. PICK q \in Nat : /\ (c - 1) \div P = q
                        /\ c \div P = q + 1 /\ (q + 1) * P = c
  BY <1>8, <1>9, NextQuotient
<1>12. backups[s] = [i \in 1 .. q |-> i * P]
  <2>1. P # 0
    BY <1>8, <1>9
  <2> QED
    BY <1>8, <1>11, <2>1 DEF BackupInv
<1>13. backups'[s] = Append(backups[s], c)
  BY <1>5 DEF IInv, TypeInv, ServerTypes
<1>14. Append(backups[s], c) = [i \in 1 .. q + 1 |-> i * P]
  <2> DEFINE f == [i \in 1 .. q |-> i * P]
  <2>1. f \in Seq(Nat) /\ Len(f) = q
    <3>1. \A i \in 1 .. q : i * P \in Nat
      BY <1>8
    <3>2. f \in [1 .. q -> Nat]
      BY <3>1
    <3> QED
      BY <3>2
  <2>2. \A i \in 1 .. q : f[i] = i * P
    OBVIOUS
  <2> HIDE DEF f
  <2>3. DOMAIN Append(f, c) = 1 .. q + 1
    BY <1>8, <2>1
  <2>4. ASSUME NEW i \in 1 .. q + 1 PROVE Append(f, c)[i] = i * P
    <3>1. CASE i = q + 1
      BY <1>8, <1>11, <2>1, <3>1
    <3>2. CASE i \in 1 .. q
      <4>1. Append(f, c)[i] = f[i]
        BY <1>8, <2>1, <3>2
      <4> QED
        BY <2>2, <3>2, <4>1
    <3>3. i = q + 1 \/ i \in 1 .. q
      BY <1>11
    <3> QED
      BY <3>1, <3>2, <3>3
  <2>5. Append(f, c) = [i \in DOMAIN Append(f, c) |-> Append(f, c)[i]]
    BY <1>8, <2>1
  <2>6. backups[s] = f
    BY <1>12 DEF f
  <2> QED
    BY <2>3, <2>4, <2>5, <2>6
<1>15. backups'[s] = IF BackupPeriod = 0 THEN <<>>
                     ELSE [i \in 1 .. LookedAt(s)' \div BackupPeriod |-> i * BackupPeriod]
  <2>1. LookedAt(s)' \div P = q + 1
    BY <1>10, <1>11
  <2>2. P # 0
    BY <1>8, <1>9
  <2> QED
    BY <1>13, <1>14, <2>1, <2>2
<1>16. \A t \in Servers \ {s} : /\ work'[t] = work[t]
                                /\ push_counter'[t] = push_counter[t]
                                /\ backups'[t] = backups[t]
  BY <1>5, <1>6 DEF IInv, TypeInv, ServerTypes
<1> QED
  BY <1>7, <1>15, <1>16, BackupAt

LEMMA BackupPool ==
    ASSUME IInv, IInv', BackupInv, async_exec_num = 1, UNCHANGED async_exec_num,
           NEW s \in Servers, PoolStep(s)
    PROVE  BackupInv'
<1>1. ASSUME NEW m \in msgs, TakeRequest(s, m) PROVE BackupInv'
  <2> DEFINE x0 == [at |-> "next", req |-> m, done |-> NoEntries]
  <2>1. /\ work' = [work EXCEPT ![s] = work[s] \cup {x0}]
        /\ UNCHANGED <<push_counter, backups>>
    BY <1>1 DEF TakeRequest, backup
  <2>2. x0.at = "next"
    OBVIOUS
  <2> HIDE DEF x0
  <2>3. /\ work'[s] = work[s] \cup {x0}
        /\ \A t \in Servers : t # s => work'[t] = work[t]
    BY <2>1 DEF IInv, TypeInv, WorkTypes
  <2>4. ASSUME NEW t \in Servers PROVE Looking(t)' = Looking(t)
    <3>1. CASE t = s
      BY <2>2, <2>3, <3>1 DEF Looking
    <3>2. CASE t # s
      BY <2>3, <3>2 DEF Looking
    <3> QED
      BY <3>1, <3>2
  <2> QED
    BY <2>1, <2>4, BackupKept
<1>2. ASSUME NEW x \in work[s], NEW k \in Keys, FindParam(s, x, k) PROVE BackupInv'
  <2>1. x.at = "next" /\ UNCHANGED <<push_counter, backups>>
    BY <1>2 DEF FindParam, At, backup
  <2>2. PICK y : y = IF k \in DOMAIN table
                     THEN Done(x, k, table[k])
                     ELSE [at |-> "assign", req |-> x.req, done |-> x.done, key |-> k]
    OBVIOUS
  <2>3. y.at \in {"next", "assign"}
    BY <2>2 DEF Done
  <2>4. Become(s, x, y)
    BY <1>2, <2>2 DEF FindParam
  <2> QED
    BY <2>1, <2>3, <2>4, BackupBecome
<1>3. ASSUME NEW x \in work[s], NEW k \in Keys, FindPointer(s, x, k) PROVE BackupInv'
  <2> DEFINE y == [at |-> "read", req |-> x.req, done |-> x.done, key |-> k, stale |-> FALSE]
  <2>1. k \in DOMAIN table
    BY <1>3, WorkFacts DEF FindPointer, Todo
  <2>2. x.at = "next" /\ y.at = "read" /\ Become(s, x, y) /\ UNCHANGED <<push_counter, backups>>
    BY <1>3, <2>1 DEF FindPointer, At, backup
  <2> HIDE DEF y
  <2> QED
    BY <2>2, BackupBecome
<1>4. ASSUME NEW x \in work[s], AssignParam(s, x) PROVE BackupInv'
  <2>1. Become(s, x, Done(x, x.key, {}))
    BY <1>4, AssignAlone
  <2>2. x.at = "assign" /\ UNCHANGED <<push_counter, backups>>
    BY <1>4 DEF AssignParam, At, backup
  <2>3. Done(x, x.key, {}).at = "next"
    BY DEF Done
  <2> QED
    BY <2>1, <2>2, <2>3, BackupBecome
<1>5. ASSUME NEW x \in work[s], ReadParam(s, x) PROVE BackupInv'
  <2>1. x.at = "read" /\ UNCHANGED <<push_counter, backups>>
    BY <1>5 DEF ReadParam, At, backup
  <2>2. PICK y : y = [at |-> "write", req |-> x.req, done |-> x.done, key |-> x.key,
                      stale |-> x.stale, old |-> table[x.key]]
    OBVIOUS
  <2>3. y.at = "write" /\ Become(s, x, y)
    BY <1>5, <2>2 DEF ReadParam
  <2> QED
    BY <2>1, <2>3, BackupBecome
<1>6. ASSUME NEW x \in work[s], WriteParam(s, x) PROVE BackupInv'
  <2>1. /\ x.at = "write" /\ Become(s, x, Done(x, x.key, {}))
        /\ UNCHANGED <<push_counter, backups>>
    BY <1>6 DEF WriteParam, At, backup
  <2>2. Done(x, x.key, {}).at = "next"
    BY DEF Done
  <2> QED
    BY <2>1, <2>2, BackupBecome
<1>7. ASSUME NEW x \in work[s], Reply(s, x) PROVE BackupInv'
  <2>1. /\ work' = [work EXCEPT ![s] = work[s] \ {x}]
        /\ UNCHANGED <<push_counter, backups>>
    BY <1>7 DEF Reply, backup
  <2>2. x.at \notin {"counted", "backup"}
    BY <1>7 DEF Reply, At
  <2>3. /\ work'[s] = work[s] \ {x}
        /\ \A t \in Servers : t # s => work'[t] = work[t]
    BY <2>1 DEF IInv, TypeInv, WorkTypes
  <2>4. ASSUME NEW t \in Servers PROVE Looking(t)' = Looking(t)
    <3>1. CASE t = s
      BY <2>2, <2>3, <3>1 DEF Looking
    <3>2. CASE t # s
      BY <2>3, <3>2 DEF Looking
    <3> QED
      BY <3>1, <3>2
  <2> QED
    BY <2>1, <2>4, BackupKept
<1> QED
  BY <1>1, <1>2, <1>3, <1>4, <1>5, <1>6, <1>7, BackupCountPush, BackupTest, BackupWritten
     DEF PoolStep

LEMMA BackupNext ==
    IInv /\ IInv' /\ BackupInv /\ async_exec_num = 1 /\ [Next]_vars => BackupInv'
<1> SUFFICES ASSUME IInv, IInv', BackupInv, async_exec_num = 1, [Next]_vars PROVE BackupInv'
  OBVIOUS
<1>1. UNCHANGED async_exec_num
  BY ThreadsAreFixed
<1>2. ASSUME UNCHANGED server PROVE BackupInv'
  <2>1. UNCHANGED <<work, push_counter, backups>>
    BY <1>2 DEF server, backup
  <2>2. \A s \in Servers : Looking(s)' = Looking(s)
    BY <2>1 DEF Looking
  <2> QED
    BY <2>1, <2>2, BackupKept
<1>3. ASSUME NEW w \in Workers, TrainStep(w) \/ PassBarrier(w) PROVE UNCHANGED server
  BY <1>3 DEF TrainStep, Pull, Push, Train, PassBarrier
<1>4. ASSUME NEW m \in msgs \cup stored, Callback(m) PROVE UNCHANGED server
  BY <1>4 DEF Callback, StoreParams, CountDown
<1>5. UNCHANGED vars => UNCHANGED server
  BY DEF vars
<1> QED
  BY <1>1, <1>2, <1>3, <1>4, <1>5, BackupPool DEF Next

LEMMA BackupInit == Init => BackupInv
<1> SUFFICES ASSUME Init, NEW s \in Servers
    PROVE
       /\ backups[s] = IF BackupPeriod = 0 THEN <<>>
                       ELSE [i \in 1 .. LookedAt(s) \div BackupPeriod |-> i * BackupPeriod]
       /\ Looking(s) = {}
  BY DEF BackupInv
<1>1. work[s] = {} /\ push_counter[s] = 0 /\ backups[s] = <<>> /\ BackupPeriod \in Nat
  BY ParamServerAssumption DEF Init
<1>2. Looking(s) = {}
  BY <1>1 DEF Looking
<1>3. LookedAt(s) = 0
  <2>1. Cardinality({}) = 0
    BY FS_EmptySet
  <2> QED
    BY <1>1, <1>2, <2>1 DEF LookedAt, Looking
<1>4. BackupPeriod # 0 => 0 \div BackupPeriod = 0
  BY <1>1, QuotientBounds
<1>5. BackupPeriod # 0 =>
         [i \in 1 .. LookedAt(s) \div BackupPeriod |-> i * BackupPeriod] = <<>>
  <2> SUFFICES ASSUME BackupPeriod # 0
               PROVE  [i \in 1 .. LookedAt(s) \div BackupPeriod |-> i * BackupPeriod] = <<>>
    OBVIOUS
  <2>1. LookedAt(s) \div BackupPeriod = 0
    BY <1>3, <1>4
  <2>2. 1 .. LookedAt(s) \div BackupPeriod = {}
    BY <2>1
  <2> QED
    BY <2>2
<1> QED
  BY <1>1, <1>2, <1>5

-----------------------------------------------------------------------------
(***************************************************************************)
(* What holds of servers with one pool thread (async_exec_num), of the     *)
(* table, the requests in hand and the answers, and of the backups.        *)
(***************************************************************************)
THEOREM OneThreadInvariant == Spec => []OneThreadInv
<1>1. Init => OneThreadInv
  BY TableInit, BackupInit DEF OneThreadInv
<1>2. IInv /\ IInv' /\ OneThreadInv /\ [Next]_vars => OneThreadInv'
  BY ThreadsAreFixed, TableNext, BackupNext DEF OneThreadInv
<1> QED
  BY <1>1, <1>2, InductiveInvariant, PTL DEF Spec

(***************************************************************************)
(* With one pool thread, the gradients of a push are part of the parameter *)
(* when it is answered and stay so: no update between find and write-back  *)
(* is lost (sparsetable.h:180-191, server/init.h:118-133).                 *)
(***************************************************************************)
THEOREM AnsweredPushesCount == Spec => []PushCountsOnOneThread
<1>1. OneThreadInv => PushCountsOnOneThread
  BY DEF OneThreadInv, TableInv, PushCountsOnOneThread
<1> QED
  BY <1>1, OneThreadInvariant, PTL

(***************************************************************************)
(* With one pool thread, a worker whose pull returns has in its cache, for *)
(* every key it asked for, all gradients that had been answered when the   *)
(* pull began, to whatever worker (global_pull_access.h:45-54, 92-113).    *)
(***************************************************************************)
THEOREM PullsAreRecent == Spec => []PullSeesAnsweredPushes
<1>1. IInv /\ OneThreadInv => PullSeesAnsweredPushes
  <2> SUFFICES ASSUME IInv, TableInv, NEW w \in Workers, pc[w] = "pulling", open[w],
                      NEW k \in batch[w]
               PROVE  before[w][k] \subseteq params[w][k]
    BY DEF OneThreadInv, PullSeesAnsweredPushes
  <2>1. Owing(w) = {}
    BY NothingOwed
  <2> QED
    BY <2>1 DEF TableInv, AnswersAreRecent
<1> QED
  BY <1>1, InductiveInvariant, OneThreadInvariant, PTL

(***************************************************************************)
(* With one pool thread, the backups a server has written carry the        *)
(* numbers of its pushes in steps of param_backup_period, none twice and   *)
(* none left out (server/init.h:128-142).                                  *)
(***************************************************************************)
THEOREM BackupsInOrder == Spec => []BackupsOnOneThread
<1>1. OneThreadInv => BackupsOnOneThread
  BY DEF OneThreadInv, BackupInv, BackupsOnOneThread
<1> QED
  BY <1>1, OneThreadInvariant, PTL

-----------------------------------------------------------------------------
(***************************************************************************)
(* The refinement of the abstract table.                                   *)
(***************************************************************************)
CallOf(x) == [message |-> x.req, done |-> x.done]

Sent(m) == [message |-> m, done |-> NoEntries]

IsFunction(f) == f = [k \in DOMAIN f |-> f[k]]

LEMMA CallsAre ==
    /\ \A m \in msgs \cup stored : Sent(m) \in AbstractCalls
    /\ \A s \in Servers : \A x \in work[s] : CallOf(x) \in AbstractCalls
    /\ \A c \in AbstractCalls : \/ \E m \in msgs \cup stored : c = Sent(m)
                                \/ \E s \in Servers : \E x \in work[s] : c = CallOf(x)
<1>1. \A m \in msgs \cup stored : Sent(m) \in AbstractCalls
  BY DEF AbstractCalls, Sent
<1>2. ASSUME NEW s \in Servers, NEW x \in work[s] PROVE CallOf(x) \in AbstractCalls
  BY DEF AbstractCalls, CallOf
<1>3. ASSUME NEW c \in AbstractCalls
      PROVE  \/ \E m \in msgs \cup stored : c = Sent(m)
             \/ \E s \in Servers : \E x \in work[s] : c = CallOf(x)
  BY DEF AbstractCalls, CallOf, Sent
<1> QED
  BY <1>1, <1>2, <1>3

LEMMA CallsAreNext ==
    /\ \A m \in msgs' \cup stored' : Sent(m) \in AbstractCalls'
    /\ \A s \in Servers : \A x \in work'[s] : CallOf(x) \in AbstractCalls'
    /\ \A c \in AbstractCalls' : \/ \E m \in msgs' \cup stored' : c = Sent(m)
                                 \/ \E s \in Servers : \E x \in work'[s] : c = CallOf(x)
<1>1. \A m \in msgs' \cup stored' : Sent(m) \in AbstractCalls'
  BY DEF AbstractCalls, Sent
<1>2. ASSUME NEW s \in Servers, NEW x \in work'[s] PROVE CallOf(x) \in AbstractCalls'
  BY DEF AbstractCalls, CallOf
<1>3. ASSUME NEW c \in AbstractCalls'
      PROVE  \/ \E m \in msgs' \cup stored' : c = Sent(m)
             \/ \E s \in Servers : \E x \in work'[s] : c = CallOf(x)
  BY DEF AbstractCalls, CallOf, Sent
<1> QED
  BY <1>1, <1>2, <1>3

LEMMA CallFields ==
    /\ \A m : Sent(m).message = m /\ Sent(m).done = NoEntries
    /\ \A x : CallOf(x).message = x.req /\ CallOf(x).done = x.done
  BY DEF Sent, CallOf

\* A request is in one place.
LEMMA OnePlace ==
    ASSUME IInv, NEW s \in Servers, NEW x \in work[s]
    PROVE  /\ \A m \in msgs \cup stored : m # x.req
           /\ \A t \in Servers : \A z \in work[t] : z.req = x.req => t = s /\ z = x
<1>1. \A t \in Servers : \A z \in work[t] : z.req.server = t
  BY WorkFacts DEF IsWork
<1> QED
  BY <1>1 DEF IInv, OneCall

LEMMA CallsBecome ==
    ASSUME IInv, NEW s \in Servers, NEW x \in work[s], NEW y, Become(s, x, y),
           y.req = x.req, UNCHANGED <<msgs, stored>>
    PROVE  AbstractCalls' = (AbstractCalls \ {CallOf(x)}) \cup {CallOf(y)}
<1>1. /\ work'[s] = (work[s] \ {x}) \cup {y}
      /\ \A t \in Servers : t # s => work'[t] = work[t]
  BY WorkAfter
<1>2. \A m \in msgs \cup stored : Sent(m) # CallOf(x)
  BY OnePlace, CallFields
<1>3. \A t \in Servers : \A z \in work[t] : CallOf(z) = CallOf(x) => t = s /\ z = x
  BY OnePlace, CallFields
<1>4. ASSUME NEW c \in AbstractCalls'
      PROVE  c \in (AbstractCalls \ {CallOf(x)}) \cup {CallOf(y)}
  <2>1. ASSUME NEW m \in msgs \cup stored, c = Sent(m)
        PROVE  c \in AbstractCalls \ {CallOf(x)}
    BY <1>2, <2>1, CallsAre
  <2>2. ASSUME NEW t \in Servers, NEW z \in work'[t], c = CallOf(z), ~(t = s /\ z = y)
        PROVE  c \in AbstractCalls \ {CallOf(x)}
    <3>1. z \in work[t] /\ ~(t = s /\ z = x)
      BY <1>1, <2>2
    <3> QED
      BY <1>3, <2>2, <3>1, CallsAre
  <2> QED
    BY <1>4, <2>1, <2>2, CallsAreNext
<1>5. ASSUME NEW c \in AbstractCalls, c # CallOf(x) PROVE c \in AbstractCalls'
  <2>1. ASSUME NEW t \in Servers, NEW z \in work[t], c = CallOf(z) PROVE z \in work'[t]
    BY <1>1, <1>5, <2>1
  <2> QED
    BY <1>5, <2>1, CallsAre, CallsAreNext
<1>6. CallOf(y) \in AbstractCalls'
  BY <1>1, CallsAreNext
<1> QED
  BY <1>4, <1>5, <1>6

\* A thread that has handled no key is where it was.
LEMMA CallsKept ==
    ASSUME IInv, NEW s \in Servers, NEW x \in work[s], NEW y, Become(s, x, y),
           y.req = x.req, y.done = x.done, UNCHANGED <<table, msgs, stored>>
    PROVE  UNCHANGED <<table, AbstractCalls>>
<1>1. CallOf(y) = CallOf(x) /\ CallOf(x) \in AbstractCalls
  BY CallsAre DEF CallOf
<1>2. AbstractCalls' = (AbstractCalls \ {CallOf(x)}) \cup {CallOf(y)}
  BY CallsBecome
<1> QED
  BY <1>1, <1>2

\* A key is handled in one step of the abstract table.
LEMMA DoneProgress ==
    ASSUME IInv, NEW s \in Servers, NEW x \in work[s], NEW k, NEW v, NEW y,
           y = Done(x, k, v), Become(s, x, y), UNCHANGED <<msgs, stored>>
    PROVE  T!Progress(CallOf(x), k, v)
<1>1. y.req = x.req /\ y.done = Extend(x.done, k, v)
  BY DEF Done
<1>2. AbstractCalls' = (AbstractCalls \ {CallOf(x)}) \cup {CallOf(y)}
  BY <1>1, CallsBecome
<1>3. CallOf(y) = [CallOf(x) EXCEPT !.done = T!Set(@, k, v)]
  BY <1>1 DEF CallOf, T!Set, Extend
<1> QED
  BY <1>2, <1>3 DEF T!Progress

LEMMA RequestIsAsked ==
    ASSUME IInv, NEW s \in Servers, NEW x \in work[s]
    PROVE  /\ CallOf(x) \in AbstractCalls /\ T!IsAsked(CallOf(x))
           /\ CallOf(x).message.class = x.req.class
           /\ T!Todo(CallOf(x)) = Todo(x)
           /\ DOMAIN CallOf(x).message.items = DOMAIN x.req.items
           /\ CallOf(x).message.items = x.req.items
<1>1. x.req.type = "request"
  BY WorkFacts DEF IsWork
<1> QED
  BY <1>1, CallsAre, CallFields DEF T!IsAsked, T!Todo, Todo

LEMMA RefinesPullKey ==
    ASSUME IInv, NEW s \in Servers, NEW x \in work[s], NEW k \in Todo(x), NEW v, NEW y,
           x.req.class = "pull", y = Done(x, k, v), Become(s, x, y),
           v = IF k \in DOMAIN table THEN table[k] ELSE {},
           table' = Extend(table, k, v), UNCHANGED <<msgs, stored>>
    PROVE  T!Next
<1>1. T!Progress(CallOf(x), k, v)
  BY DoneProgress
<1>2. T!PullKey(CallOf(x), k)
  <2>1. table' = T!Set(table, k, v)
    BY DEF T!Set, Extend
  <2>2. T!IsAsked(CallOf(x)) /\ CallOf(x).message.class = "pull" /\ k \in T!Todo(CallOf(x))
    BY RequestIsAsked
  <2> QED
    BY <1>1, <2>1, <2>2 DEF T!PullKey
<1>3. CallOf(x) \in AbstractCalls /\ k \in DOMAIN CallOf(x).message.items
  BY RequestIsAsked DEF Todo
<1> QED
  BY <1>2, <1>3 DEF T!Next

LEMMA RefinesFindParam ==
    ASSUME IInv, IsFunction(table), NEW s \in Servers, NEW x \in work[s],
           NEW k \in Keys, FindParam(s, x, k)
    PROVE  T!Next \/ UNCHANGED <<table, AbstractCalls>>
<1>1. /\ x.req.class = "pull" /\ k \in Todo(x) /\ UNCHANGED <<msgs, stored, table>>
  BY DEF FindParam
<1>2. CASE k \in DOMAIN table
  <2>1. PICK y : y = Done(x, k, table[k])
    OBVIOUS
  <2>2. Become(s, x, y)
    BY <1>2, <2>1 DEF FindParam
  <2>3. table' = Extend(table, k, table[k])
    BY <1>1, <1>2 DEF Extend, IsFunction
  <2> QED
    BY <1>1, <1>2, <2>1, <2>2, <2>3, RefinesPullKey
<1>3. CASE k \notin DOMAIN table
  <2> DEFINE y == [at |-> "assign", req |-> x.req, done |-> x.done, key |-> k]
  <2>1. Become(s, x, y) /\ y.req = x.req /\ y.done = x.done
    BY <1>3 DEF FindParam
  <2> HIDE DEF y
  <2> QED
    BY <1>1, <2>1, CallsKept
<1> QED
  BY <1>2, <1>3

\* find, the initialisation and assign are one step: nobody else had the
\* key assigned in between.
LEMMA RefinesAssignParam ==
    ASSUME IInv, TableInv, async_exec_num = 1, NEW s \in Servers, NEW x \in work[s],
           AssignParam(s, x)
    PROVE  T!Next
<1>1. /\ x.at = "assign" /\ x.req.class = "pull" /\ x.key \in Todo(x)
      /\ table' = Extend(table, x.key, {})
  BY AssignFacts
<1>2. x.key \notin DOMAIN table
  BY <1>1 DEF TableInv, ThreadsInGrip, Grip
<1>3. PICK y : y = Done(x, x.key, {})
  OBVIOUS
<1>4. Become(s, x, y) /\ UNCHANGED <<msgs, stored>>
  BY <1>3, AssignAlone DEF AssignParam
<1> QED
  BY <1>1, <1>2, <1>3, <1>4, RefinesPullKey

\* find, read and write are one step: what is written back is what the
\* table holds, with the gradient.
LEMMA RefinesWriteParam ==
    ASSUME IInv, TableInv, async_exec_num = 1, NEW s \in Servers, NEW x \in work[s],
           WriteParam(s, x)
    PROVE  T!Next
<1>1. /\ x.req.class = "push" /\ x.key \in Todo(x) /\ x.key \in DOMAIN table
      /\ table' = [table EXCEPT ![x.key] = table[x.key] \cup x.req.items[x.key]]
  BY WriteFacts
<1>2. PICK y : y = Done(x, x.key, {})
  OBVIOUS
<1>3. Become(s, x, y) /\ UNCHANGED <<msgs, stored>>
  BY <1>2 DEF WriteParam
<1>4. T!Progress(CallOf(x), x.key, {})
  BY <1>2, <1>3, DoneProgress
<1>5. table' = T!Set(table, x.key, table[x.key] \cup CallOf(x).message.items[x.key])
  BY <1>1, RequestIsAsked DEF T!Set
<1>6. /\ T!IsAsked(CallOf(x)) /\ CallOf(x).message.class = "push"
      /\ x.key \in T!Todo(CallOf(x)) \cap DOMAIN table
  BY <1>1, RequestIsAsked
<1>7. T!PushKey(CallOf(x), x.key)
  BY <1>4, <1>5, <1>6 DEF T!PushKey
<1>8. CallOf(x) \in AbstractCalls /\ x.key \in DOMAIN CallOf(x).message.items
  BY <1>1, RequestIsAsked DEF Todo
<1> QED
  BY <1>7, <1>8 DEF T!Next

LEMMA RefinesReply ==
    ASSUME IInv, NEW s \in Servers, NEW x \in work[s], Reply(s, x)
    PROVE  T!Next
<1>1. PICK r : r = Message("response", x.req.class, x.req.worker, s, x.done)
  OBVIOUS
<1>2. /\ msgs' = msgs \cup {r} /\ UNCHANGED <<table, stored>>
      /\ work' = [work EXCEPT ![s] = work[s] \ {x}] /\ Todo(x) = {}
  BY <1>1 DEF Reply
<1>3. /\ work'[s] = work[s] \ {x}
      /\ \A t \in Servers : t # s => work'[t] = work[t]
  BY <1>2 DEF IInv, TypeInv, WorkTypes
<1>4. \A m \in msgs \cup stored : Sent(m) # CallOf(x)
  BY OnePlace, CallFields
<1>5. \A t \in Servers : \A z \in work[t] : CallOf(z) = CallOf(x) => t = s /\ z = x
  BY OnePlace, CallFields
<1>6. Sent(r) # CallOf(x)
  BY <1>1, ReplyFacts, WorkFacts, CallFields DEF IsWork
<1>7. AbstractCalls' = (AbstractCalls \ {CallOf(x)}) \cup {Sent(r)}
  <2>1. ASSUME NEW c \in AbstractCalls'
        PROVE  c \in (AbstractCalls \ {CallOf(x)}) \cup {Sent(r)}
    <3>1. ASSUME NEW m \in msgs \cup stored, c = Sent(m)
          PROVE  c \in AbstractCalls \ {CallOf(x)}
      BY <1>4, <3>1, CallsAre
    <3>2. ASSUME NEW t \in Servers, NEW z \in work'[t], c = CallOf(z)
          PROVE  c \in AbstractCalls \ {CallOf(x)}
      <4>1. z \in work[t] /\ ~(t = s /\ z = x)
        BY <1>3, <3>2
      <4> QED
        BY <1>5, <3>2, <4>1, CallsAre
    <3> QED
      BY <1>2, <2>1, <3>1, <3>2, CallsAreNext
  <2>2. ASSUME NEW c \in AbstractCalls, c # CallOf(x) PROVE c \in AbstractCalls'
    <3>1. ASSUME NEW t \in Servers, NEW z \in work[t], c = CallOf(z) PROVE z \in work'[t]
      BY <1>3, <2>2, <3>1
    <3> QED
      BY <1>2, <2>2, <3>1, CallsAre, CallsAreNext
  <2>3. Sent(r) \in AbstractCalls'
    BY <1>2, CallsAreNext
  <2> QED
    BY <2>1, <2>2, <2>3
<1>8. Sent(r) = T!Call([CallOf(x).message EXCEPT !.type = "response", !.items = CallOf(x).done],
                       T!Nothing)
  <2>1. PICK q : q = x.req
    OBVIOUS
  <2>2. q = Message(q.type, q.class, q.worker, q.server, q.items) /\ q.server = s
    BY <2>1, WorkFacts DEF IsWork, IsMessage
  <2>3. r = [q EXCEPT !.type = "response", !.items = x.done]
    <3>1. r = [type |-> "response", class |-> q.class, worker |-> q.worker,
               server |-> s, items |-> x.done]
      BY <1>1, <2>1 DEF Message
    <3>2. q = [type |-> q.type, class |-> q.class, worker |-> q.worker,
               server |-> s, items |-> q.items]
      BY <2>2 DEF Message
    <3>3. PICK p : p = [q EXCEPT !.type = "response"]
      OBVIOUS
    <3>4. p = [type |-> "response", class |-> q.class, worker |-> q.worker,
               server |-> s, items |-> q.items]
      BY <3>2, <3>3
    <3>5. [p EXCEPT !.items = x.done]
             = [type |-> "response", class |-> q.class, worker |-> q.worker,
                server |-> s, items |-> x.done]
      BY <3>4
    <3>6. [q EXCEPT !.type = "response", !.items = x.done] = [p EXCEPT !.items = x.done]
      BY <3>3
    <3> QED
      BY <3>1, <3>5, <3>6
  <2> QED
    BY <2>1, <2>3 DEF Sent, CallOf, T!Call, T!Nothing, NoEntries
<1>9. T!Answer(CallOf(x))
  BY <1>2, <1>7, <1>8, RequestIsAsked DEF T!Answer
<1> QED
  BY <1>9, RequestIsAsked DEF T!Next

LEMMA RefinesCountDown ==
    ASSUME IInv, NEW m \in msgs \cup stored, CountDown(m)
    PROVE  T!Next
<1>1. /\ UNCHANGED <<table, work>> /\ msgs' = msgs \ {m} /\ stored' = stored \ {m}
  BY DEF CountDown, server
<1>2. m.type = "response"
  BY DEF CountDown, IInv, TypeInv, MessageTypes
<1>3. \A n \in msgs \cup stored : Sent(n) = Sent(m) => n = m
  BY CallFields
<1>4. \A s \in Servers : \A x \in work[s] : CallOf(x) # Sent(m)
  BY <1>2, WorkFacts, CallFields DEF IsWork
<1>5. AbstractCalls' = AbstractCalls \ {Sent(m)}
  <2>1. ASSUME NEW c \in AbstractCalls' PROVE c \in AbstractCalls \ {Sent(m)}
    BY <1>1, <1>3, <1>4, <2>1, CallsAre, CallsAreNext
  <2>2. ASSUME NEW c \in AbstractCalls, c # Sent(m) PROVE c \in AbstractCalls'
    BY <1>1, <2>2, CallsAre, CallsAreNext
  <2> QED
    BY <2>1, <2>2
<1>6. T!Take(Sent(m))
  BY <1>1, <1>2, <1>5, CallFields DEF T!Take, T!IsAsked
<1>7. Sent(m) \in AbstractCalls
  BY CallsAre
<1> QED
  BY <1>6, <1>7 DEF T!Next

\* The requests of a round are new calls of one worker.
LEMMA RefinesBegin ==
    ASSUME NEW w, NEW asked, msgs' = msgs \cup asked,
           \A m \in asked : m.type = "request" /\ m.worker = w,
           UNCHANGED <<table, work, stored>>
    PROVE  T!Next \/ UNCHANGED <<table, AbstractCalls>>
<1>1. AbstractCalls \subseteq AbstractCalls'
  BY CallsAre, CallsAreNext
<1>2. ASSUME NEW c \in AbstractCalls', c \notin AbstractCalls
      PROVE  \E m \in asked : c = Sent(m)
  BY <1>2, CallsAre, CallsAreNext
<1>3. CASE asked = {}
  BY <1>1, <1>2, <1>3
<1>4. CASE asked # {}
  <2>1. PICK m \in asked : TRUE
    BY <1>4
  <2>2. Sent(m) \in AbstractCalls' /\ Sent(m).message.worker = w
    BY CallsAreNext, CallFields
  <2>3. ASSUME NEW c \in AbstractCalls', c \notin AbstractCalls
        PROVE  T!IsAsked(c) /\ c.message.worker = w /\ c.done = T!Nothing
    <3>1. PICK n \in asked : c = Sent(n)
      BY <1>2, <2>3
    <3> QED
      BY <3>1, CallFields DEF T!IsAsked, T!Nothing, NoEntries
  <2>4. T!Ask(w)
    BY <1>1, <2>3 DEF T!Ask
  <2> QED
    BY <2>2, <2>4 DEF T!Next
<1> QED
  BY <1>3, <1>4

LEMMA RefinesTake ==
    ASSUME IInv, NEW s \in Servers, NEW m \in msgs, TakeRequest(s, m)
    PROVE  UNCHANGED <<table, AbstractCalls>>
<1> DEFINE x0 == [at |-> "next", req |-> m, done |-> NoEntries]
<1>1. /\ UNCHANGED <<table, stored>> /\ msgs' = msgs \ {m}
      /\ work' = [work EXCEPT ![s] = work[s] \cup {x0}]
  BY DEF TakeRequest
<1>2. CallOf(x0) = Sent(m)
  BY DEF CallOf, Sent
<1> HIDE DEF x0
<1>3. /\ work'[s] = work[s] \cup {x0}
      /\ \A t \in Servers : t # s => work'[t] = work[t]
  BY <1>1 DEF IInv, TypeInv, WorkTypes
<1>4. ASSUME NEW c \in AbstractCalls' PROVE c \in AbstractCalls
  <2>1. ASSUME NEW t \in Servers, NEW z \in work'[t], c = CallOf(z) PROVE c \in AbstractCalls
    BY <1>2, <1>3, <2>1, CallsAre
  <2> QED
    BY <1>1, <1>4, <2>1, CallsAre, CallsAreNext
<1>5. ASSUME NEW c \in AbstractCalls PROVE c \in AbstractCalls'
  <2>1. ASSUME NEW t \in Servers, NEW z \in work[t], c = CallOf(z) PROVE c \in AbstractCalls'
    BY <1>3, <2>1, CallsAreNext
  <2>2. Sent(m) \in AbstractCalls'
    BY <1>2, <1>3, CallsAreNext
  <2> QED
    BY <1>1, <1>5, <2>1, <2>2, CallsAre, CallsAreNext
<1> QED
  BY <1>1, <1>4, <1>5

LEMMA SameCalls ==
    ASSUME UNCHANGED <<table, work>>, msgs' \cup stored' = msgs \cup stored
    PROVE  UNCHANGED <<table, AbstractCalls>>
  BY DEF AbstractCalls

LEMMA RefinesPool ==
    ASSUME IInv, TableInv, IsFunction(table), async_exec_num = 1,
           NEW s \in Servers, PoolStep(s)
    PROVE  T!Next \/ UNCHANGED <<table, AbstractCalls>>
<1>1. ASSUME NEW x \in work[s], NEW k \in Keys, FindPointer(s, x, k)
      PROVE  UNCHANGED <<table, AbstractCalls>>
  <2> DEFINE y == [at |-> "read", req |-> x.req, done |-> x.done, key |-> k, stale |-> FALSE]
  <2>1. k \in DOMAIN table
    BY <1>1, WorkFacts DEF FindPointer, Todo
  <2>2. Become(s, x, y) /\ y.req = x.req /\ y.done = x.done /\ UNCHANGED <<table, msgs, stored>>
    BY <1>1, <2>1 DEF FindPointer
  <2> HIDE DEF y
  <2> QED
    BY <2>2, CallsKept
<1>2. ASSUME NEW x \in work[s], ReadParam(s, x) PROVE UNCHANGED <<table, AbstractCalls>>
  <2>1. PICK y : y = [at |-> "write", req |-> x.req, done |-> x.done, key |-> x.key,
                      stale |-> x.stale, old |-> table[x.key]]
    OBVIOUS
  <2>2. Become(s, x, y) /\ UNCHANGED <<table, msgs, stored>>
    BY <1>2, <2>1 DEF ReadParam
  <2>3. y.req = x.req /\ y.done = x.done
    BY <2>1
  <2> QED
    BY <2>2, <2>3, CallsKept
<1>3. ASSUME NEW x \in work[s], CountPush(s, x) \/ TestBackup(s, x) \/ BackupParam(s, x)
      PROVE  UNCHANGED <<table, AbstractCalls>>
  <2>1. PICK place \in {"counted", "backup", "reply"} : \E y :
                /\ Become(s, x, y)
                /\ y.at = place /\ y.req = x.req /\ y.done = x.done
                /\ x.req.class = "push"
                /\ UNCHANGED <<msgs, stored, WorkerSide, acked, table>>
    BY <1>3, MoveOnFacts
  <2>2. PICK y : /\ Become(s, x, y) /\ y.req = x.req /\ y.done = x.done
                 /\ UNCHANGED <<table, msgs, stored>>
    BY <2>1
  <2> QED
    BY <2>2, CallsKept
<1> QED
  BY <1>1, <1>2, <1>3, RefinesTake, RefinesFindParam, RefinesAssignParam, RefinesWriteParam,
     RefinesReply DEF PoolStep

LEMMA RefinesNext ==
    IInv /\ TableInv /\ IsFunction(table) /\ async_exec_num = 1 /\ [Next]_vars
       => T!Next \/ UNCHANGED <<table, AbstractCalls>>
<1> SUFFICES ASSUME IInv, TableInv, IsFunction(table), async_exec_num = 1, [Next]_vars
             PROVE  T!Next \/ UNCHANGED <<table, AbstractCalls>>
  OBVIOUS
<1>1. ASSUME NEW w \in Workers, NEW b \in Batches, Pull(w, b)
      PROVE  T!Next \/ UNCHANGED <<table, AbstractCalls>>
  <2> DEFINE wanted(s) == [k \in {x \in b : NodeOf(x) = s} |-> {}]
             asked == {Message("request", "pull", w, s, wanted(s)) : s \in {NodeOf(k) : k \in b}}
  <2>1. msgs' = msgs \cup asked /\ UNCHANGED <<table, work, stored>>
    BY <1>1 DEF Pull, server
  <2> HIDE DEF wanted
  <2>2. \A m \in asked : m.type = "request" /\ m.worker = w
    BY DEF Message
  <2> HIDE DEF asked
  <2> QED
    BY <2>1, <2>2, RefinesBegin
<1>2. ASSUME NEW w \in Workers, NEW b \in Batches, Push(w, b)
      PROVE  T!Next \/ UNCHANGED <<table, AbstractCalls>>
  <2>1. msgs' = msgs \cup PushRequests(w, b) /\ UNCHANGED <<table, work, stored>>
    BY <1>2 DEF Push, server
  <2>2. ASSUME NEW m \in PushRequests(w, b) PROVE m.type = "request" /\ m.worker = w
    <3>1. PICK s, items : m = Message("request", "push", w, s, items)
      BY DEF PushRequests
    <3> QED
      BY <3>1, RequestFields
  <2> QED
    BY <2>1, <2>2, RefinesBegin
<1>3. ASSUME NEW w \in Workers, NEW b \in Batches, Train(w, b)
      PROVE  UNCHANGED <<table, AbstractCalls>>
  BY <1>3, SameCalls DEF Train, server
<1>4. ASSUME NEW w \in Workers, PassBarrier(w) PROVE UNCHANGED <<table, AbstractCalls>>
  BY <1>4, SameCalls DEF PassBarrier, server
<1>5. ASSUME NEW m \in msgs \cup stored, StoreParams(m) PROVE UNCHANGED <<table, AbstractCalls>>
  BY <1>5, SameCalls DEF StoreParams, server
<1>6. ASSUME NEW m \in msgs \cup stored, CountDown(m) PROVE T!Next
  BY <1>6, RefinesCountDown
<1>7. CASE UNCHANGED vars
  BY <1>7, SameCalls DEF vars, server
<1> QED
  BY <1>1, <1>2, <1>3, <1>4, <1>5, <1>6, <1>7, RefinesPool DEF Next, TrainStep, Callback

LEMMA TableIsFunction == Spec => []IsFunction(table)
<1>1. Init => IsFunction(table)
  BY DEF Init, IsFunction, NoEntries
<1>2. ASSUME IsFunction(table), [Next]_vars PROVE IsFunction(table)'
  <2>1. ASSUME UNCHANGED table PROVE IsFunction(table)'
    BY <1>2, <2>1 DEF IsFunction
  <2>2. ASSUME NEW w \in Workers, TrainStep(w) \/ PassBarrier(w) PROVE UNCHANGED table
    BY <2>2 DEF TrainStep, Pull, Push, Train, PassBarrier, server
  <2>3. ASSUME NEW m \in msgs \cup stored, Callback(m) PROVE UNCHANGED table
    BY <2>3 DEF Callback, StoreParams, CountDown, server
  <2>4. ASSUME NEW s \in Servers, PoolStep(s) PROVE IsFunction(table)'
    <3>1. ASSUME NEW x \in work[s], AssignParam(s, x) PROVE IsFunction(table)'
      BY <3>1 DEF AssignParam, Extend, IsFunction
    <3>2. ASSUME NEW x \in work[s], WriteParam(s, x) PROVE IsFunction(table)'
      BY <2>1, <3>2 DEF WriteParam, IsFunction
    <3>3. ASSUME NEW m \in msgs, TakeRequest(s, m) PROVE UNCHANGED table
      BY <3>3 DEF TakeRequest
    <3>4. ASSUME NEW x \in work[s], NEW k \in Keys, FindParam(s, x, k) \/ FindPointer(s, x, k)
          PROVE  UNCHANGED table
      BY <3>4 DEF FindParam, FindPointer
    <3>5. ASSUME NEW x \in work[s],
                 \/ ReadParam(s, x) \/ CountPush(s, x) \/ TestBackup(s, x)
                 \/ BackupParam(s, x) \/ Reply(s, x)
          PROVE  UNCHANGED table
      BY <3>5 DEF ReadParam, CountPush, TestBackup, BackupParam, Reply
    <3> QED
      BY <2>1, <2>4, <3>1, <3>2, <3>3, <3>4, <3>5 DEF PoolStep
  <2>5. UNCHANGED vars => UNCHANGED table
    BY DEF vars, server
  <2> QED
    BY <1>2, <2>1, <2>2, <2>3, <2>4, <2>5 DEF Next
<1> QED
  BY <1>1, <1>2, PTL DEF Spec

(***************************************************************************)
(* With one pool thread per server, the servers are the abstract table:    *)
(* find, the initialisation and assign of a pull, or find, read and write  *)
(* of a push, are as one step on its key (sparsetable.h:138-160, 180-198). *)
(***************************************************************************)
THEOREM ServersAreOneTable == Spec => RefinesTable
<1>1. Init => T!Init
  BY DEF Init, T!Init, T!Nothing, NoEntries, AbstractCalls
<1>2. IInv /\ OneThreadInv /\ IsFunction(table) /\ [Next]_vars
         => [async_exec_num = 1 => T!Next]_<<table, AbstractCalls>>
  BY RefinesNext DEF OneThreadInv
<1> QED
  BY <1>1, <1>2, InductiveInvariant, OneThreadInvariant, TableIsFunction, PTL
     DEF Spec, RefinesTable, T!Spec

(***************************************************************************)
(* What one step of the abstract table does to its parameters.             *)
(***************************************************************************)
LEMMA TableStepsGrow == T!Next => Grows
<1> SUFFICES ASSUME T!Next PROVE Grows
  OBVIOUS
<1>1. ASSUME NEW c \in AbstractCalls, NEW k, T!PullKey(c, k) PROVE Grows
  BY <1>1 DEF T!PullKey, T!Set, Grows
<1>2. ASSUME NEW c \in AbstractCalls, NEW k, T!PushKey(c, k) PROVE Grows
  BY <1>2 DEF T!PushKey, T!Set, Grows
<1>3. ASSUME UNCHANGED table PROVE Grows
  BY <1>3 DEF Grows
<1> QED
  BY <1>1, <1>2, <1>3 DEF T!Next, T!Ask, T!Answer, T!Take

(***************************************************************************)
(* With one pool thread per server a parameter is never removed, and keeps *)
(* every gradient that has been applied to it: no write puts back a value  *)
(* that was read before another one, and no pull initialises a parameter   *)
(* for a second time (sparsetable.h:144-147, 183-190), so that each backup *)
(* contains whatever an earlier one did.                                   *)
(***************************************************************************)
THEOREM ParametersGrow == Spec => [][async_exec_num = 1 => Grows]_table
<1>1. IInv /\ OneThreadInv /\ IsFunction(table) /\ [Next]_vars
         => [async_exec_num = 1 => Grows]_table
  BY RefinesNext, TableStepsGrow DEF OneThreadInv
<1> QED
  BY <1>1, InductiveInvariant, OneThreadInvariant, TableIsFunction, PTL DEF Spec
=============================================================================
