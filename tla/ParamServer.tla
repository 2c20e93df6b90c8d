---------------------------- MODULE ParamServer ----------------------------
(***************************************************************************)
(* Pulling parameters and pushing gradients: the workers' access objects   *)
(* and caches (core/parameter/global_pull_access.h, global_push_access.h,  *)
(* global_param_cache.h), the servers' handlers (system/server/init.h) and *)
(* their tables (parameter/sparsetable.h).                                 *)
(*                                                                         *)
(* A gradient is named by its worker and the number of the training step   *)
(* that computed it.  A parameter is the set of the gradients that have    *)
(* been applied to it: updates commute, so nothing else can be told apart. *)
(* A request is carried out once and answered once (Transfer), and a       *)
(* worker passes its barrier once the flag is set (StateBarrier).          *)
(*                                                                         *)
(* The pool threads of a server handle requests at the same time.  The     *)
(* shard's lock covers one find or one assign; what is done with a         *)
(* parameter in between is not covered.                                    *)
(***************************************************************************)
EXTENDS Naturals, Sequences, FiniteSets, HashFrag

CONSTANTS
    Workers,       \* training threads, each with a cache of its own
    ServerNum,     \* the servers are 1 .. ServerNum
    FragNum,       \* frag_num
    ShardNum,      \* shard_num
    Keys,          \* keys, as their hash codes
    Batches,       \* the sets of keys a worker pulls or pushes at once
    MaxThreads,    \* bound: pool threads of a server
    MaxRounds,     \* bound: pulls and pushes of a worker
    MaxSteps,      \* bound: training steps of a worker
    BackupPeriod,  \* param_backup_period
    PushOnlyPulled \* whether a worker pushes only keys that it has pulled

Servers == 1 .. ServerNum

ASSUME ParamServerAssumption ==
    /\ ServerNum \in Nat \ {0}
    /\ FragNum \in Nat /\ FragNum >= ServerNum
    /\ ShardNum \in Nat \ {0}
    /\ Keys \subseteq Nat
    /\ Batches \subseteq SUBSET Keys
    /\ MaxThreads \in Nat \ {0}
    /\ MaxRounds \in Nat /\ MaxSteps \in Nat
    /\ BackupPeriod \in Nat
    /\ PushOnlyPulled \in BOOLEAN

VARIABLES
    async_exec_num,  \* pool threads of each server, as configured
    table,           \* the parameters, each on the server that owns its key
    work,            \* what the busy pool threads of each server are doing
    push_counter,    \* the pushes each server has carried out
    backups,         \* history: the numbers of the backups it has written
    failed,          \* how each server has ended, "no" while it is up
    msgs,            \* requests and responses nobody has taken
    stored,          \* pull responses whose callback has still to count down
    pc,              \* where each worker is
    batch,           \* the keys of its pull or push
    params,          \* its cache: the parameters it has pulled
    grads,           \*            and the gradients it has not pushed
    num_reqs,        \* the counter of its barrier
    open,            \* the flag of its barrier
    rounds, steps,   \* the pulls and pushes, and the training steps, so far
    acked,           \* history: the gradients of each key that were answered
    before           \* history: acked when a worker began its round

backup == <<push_counter, backups>>
server == <<async_exec_num, table, work, backup, failed>>
cache == <<params, grads>>
barrier == <<num_reqs, open>>
count == <<rounds, steps>>
vars == <<server, msgs, stored, pc, batch, cache, barrier, count, acked, before>>

NoEntries == [k \in {} |-> {}]     \* a map without keys

Extend(f, k, v) == [x \in DOMAIN f \cup {k} |-> IF x = k THEN v ELSE f[x]]

Init ==
    /\ async_exec_num \in 1 .. MaxThreads
    /\ table = NoEntries
    /\ work = [s \in Servers |-> {}]
    /\ push_counter = [s \in Servers |-> 0]
    /\ backups = [s \in Servers |-> <<>>]
    /\ failed = [s \in Servers |-> "no"]
    /\ msgs = {}
    /\ stored = {}
    /\ pc = [w \in Workers |-> "ready"]
    /\ batch = [w \in Workers |-> {}]
    /\ params = [w \in Workers |-> NoEntries]
    /\ grads = [w \in Workers |-> NoEntries]
    /\ num_reqs = [w \in Workers |-> 0]
    /\ open = [w \in Workers |-> FALSE]
    /\ rounds = [w \in Workers |-> 0]
    /\ steps = [w \in Workers |-> 0]
    /\ acked = [k \in Keys |-> {}]
    /\ before = [w \in Workers |-> [k \in Keys |-> {}]]

\* global_hashfrag().to_node_id
NodeOf(k) == ToNodeId(Table(FragNum, ServerNum), FragNum, k)

ShardOf(k) == <<NodeOf(k), k % ShardNum>>

Message(type, class, w, s, items) ==
    [type |-> type, class |-> class, worker |-> w, server |-> s, items |-> items]

-----------------------------------------------------------------------------
(* A worker's training thread.                                             *)

\* A new call, with a barrier and a counter of its own.
Begin(w, place, b) ==
    /\ pc' = [pc EXCEPT ![w] = place]
    /\ batch' = [batch EXCEPT ![w] = b]
    /\ UNCHANGED open
    /\ rounds' = [rounds EXCEPT ![w] = @ + 1]
    /\ before' = [before EXCEPT ![w] = acked]

\* Mutant: the barrier counts keys, not requests.
PullCountingKeys(w, b) ==
    /\ pc[w] = "ready"
    /\ rounds[w] < MaxRounds
    /\ Begin(w, "pulling", b)
    /\ num_reqs' = [num_reqs EXCEPT ![w] = Cardinality(b)]
    /\ msgs' = msgs \cup {Message("request", "pull", w, s,
                             [k \in {x \in b : NodeOf(x) = s} |-> {}])
                          : s \in {NodeOf(k) : k \in b}}
    /\ UNCHANGED <<server, stored, cache, steps, acked>>

\* pull_with_barrier: arrange_local_vals and send.
Pull(w, b) ==
    LET node_reqs == {NodeOf(k) : k \in b} IN
    /\ pc[w] = "ready"
    /\ rounds[w] < MaxRounds
    /\ Begin(w, "pulling", b)
    /\ num_reqs' = [num_reqs EXCEPT ![w] = Cardinality(node_reqs)]
    /\ msgs' = msgs \cup {Message("request", "pull", w, s,
                             [k \in {x \in b : NodeOf(x) = s} |-> {}])
                          : s \in node_reqs}
    /\ UNCHANGED <<server, stored, cache, steps, acked>>

\* The Algorithm computes gradients for keys it has pulled.
Train(w, b) ==
    /\ pc[w] = "ready"
    /\ steps[w] < MaxSteps
    /\ b # {} /\ b \subseteq DOMAIN grads[w]
    /\ steps' = [steps EXCEPT ![w] = @ + 1]
    /\ grads' = [grads EXCEPT ![w] =
                   [k \in DOMAIN @ |-> IF k \in b THEN @[k] \cup {<<w, steps[w]>>}
                                                  ELSE @[k]]]
    /\ UNCHANGED <<server, msgs, stored, pc, batch, params, barrier, rounds,
                   acked, before>>

\* The requests of a push: a server none of whose keys has a gradient is
\* skipped.
PushRequests(w, b) ==
    {Message("request", "push", w, s,
             [k \in {x \in b \cap DOMAIN grads[w] : NodeOf(x) = s} |-> grads[w][k]])
     : s \in {NodeOf(k) : k \in b \cap DOMAIN grads[w]}}

\* What an Algorithm may push: keys that it has pulled, or among others.
MayPush(w, b) ==
    IF PushOnlyPulled THEN b \subseteq DOMAIN grads[w]
                      ELSE b \cap DOMAIN grads[w] # {}

\* Mutant: the local gradients are not reset.
PushKeepingGrads(w, b) ==
    /\ pc[w] = "ready"
    /\ rounds[w] < MaxRounds
    /\ MayPush(w, b)
    /\ Begin(w, "pushing", b)
    /\ num_reqs' = [num_reqs EXCEPT ![w] = Cardinality({NodeOf(k) : k \in b})]
    /\ msgs' = msgs \cup PushRequests(w, b)
    /\ UNCHANGED <<server, stored, cache, steps, acked>>

\* push_with_barrier: arrange_local_grads, which counts the servers of all
\* the keys, and send.
Push(w, b) ==
    /\ pc[w] = "ready"
    /\ rounds[w] < MaxRounds
    /\ MayPush(w, b)
    /\ Begin(w, "pushing", b)
    /\ num_reqs' = [num_reqs EXCEPT ![w] = Cardinality({NodeOf(k) : k \in b})]
    /\ msgs' = msgs \cup PushRequests(w, b)
    /\ grads' = [grads EXCEPT ![w] = [k \in DOMAIN @ |-> IF k \in b THEN {} ELSE @[k]]]
    /\ UNCHANGED <<server, stored, params, steps, acked>>

\* barrier.block() and the call return: its locals are gone.
PassBarrier(w) ==
    /\ open[w]
    /\ pc' = [pc EXCEPT ![w] = "ready"]
    /\ batch' = [batch EXCEPT ![w] = {}]
    /\ open' = [open EXCEPT ![w] = FALSE]
    /\ before' = [before EXCEPT ![w] = [k \in Keys |-> {}]]
    /\ UNCHANGED <<server, msgs, stored, cache, num_reqs, count, acked>>

-----------------------------------------------------------------------------
(* The callbacks, on the worker's pool threads.                            *)

\* Entries `new` written over those of map `old`.
Written(old, new) == [k \in DOMAIN old \cup DOMAIN new |->
                        IF k \in DOMAIN new THEN new[k] ELSE old[k]]

\* Mutant: the gradients of the keys are not initialised.
StoreParamsOnly(m) ==
    /\ m \in msgs
    /\ m.type = "response" /\ m.class = "pull"
    /\ msgs' = msgs \ {m}
    /\ params' = [params EXCEPT ![m.worker] = Written(@, m.items)]
    /\ stored' = stored \cup {m}
    /\ UNCHANGED <<server, pc, batch, grads, barrier, count, acked, before>>

\* Mutant: a key that is already in the cache keeps its value.
StoreNewParams(m) ==
    /\ m \in msgs
    /\ m.type = "response" /\ m.class = "pull"
    /\ msgs' = msgs \ {m}
    /\ params' = [params EXCEPT ![m.worker] = Written(m.items, @)]
    /\ grads' = [grads EXCEPT ![m.worker] = Written(@, [k \in DOMAIN m.items |-> {}])]
    /\ stored' = stored \cup {m}
    /\ UNCHANGED <<server, pc, batch, barrier, count, acked, before>>

\* send's callback writes the response to the cache, under the cache's lock.
StoreParams(m) ==
    /\ m \in msgs
    /\ m.type = "response" /\ m.class = "pull"
    /\ msgs' = msgs \ {m}
    /\ params' = [params EXCEPT ![m.worker] = Written(@, m.items)]
    /\ grads' = [grads EXCEPT ![m.worker] = Written(@, [k \in DOMAIN m.items |-> {}])]
    /\ stored' = stored \cup {m}
    /\ UNCHANGED <<server, pc, batch, barrier, count, acked, before>>

\* Mutant: the barrier is opened by the first response.
CountDownFirst(m) ==
    /\ m \in stored \cup {x \in msgs : x.type = "response" /\ x.class = "push"}
    /\ stored' = stored \ {m}
    /\ msgs' = msgs \ {m}
    /\ num_reqs' = [num_reqs EXCEPT ![m.worker] = @ - 1]
    /\ open' = [open EXCEPT ![m.worker] = TRUE]
    /\ UNCHANGED <<server, pc, batch, cache, count, acked, before>>

\* Mutant: if (num_reqs-- == 0).
CountDownAfterTest(m) ==
    /\ m \in stored \cup {x \in msgs : x.type = "response" /\ x.class = "push"}
    /\ stored' = stored \ {m}
    /\ msgs' = msgs \ {m}
    /\ num_reqs' = [num_reqs EXCEPT ![m.worker] = @ - 1]
    /\ open' = [open EXCEPT ![m.worker] = @ \/ num_reqs[m.worker] = 0]
    /\ UNCHANGED <<server, pc, batch, cache, count, acked, before>>

\* extra_rsp_callback: if (--num_reqs == 0) the barrier is opened.
CountDown(m) ==
    /\ m \in stored \cup {x \in msgs : x.type = "response" /\ x.class = "push"}
    /\ stored' = stored \ {m}
    /\ msgs' = msgs \ {m}
    /\ num_reqs' = [num_reqs EXCEPT ![m.worker] = @ - 1]
    /\ open' = [open EXCEPT ![m.worker] = @ \/ num_reqs[m.worker] = 1]
    /\ UNCHANGED <<server, pc, batch, cache, count, acked, before>>

-----------------------------------------------------------------------------
(* The pool threads of a server.                                           *)

WorkerSide == <<pc, batch, cache, barrier, count, before>>

\* Mutant: more requests are taken than there are threads.
TakeRequestAtOnce(s, m) ==
    /\ failed[s] = "no"
    /\ m \in msgs
    /\ m.type = "request" /\ m.server = s
    /\ msgs' = msgs \ {m}
    /\ work' = [work EXCEPT ![s] = @ \cup {[at |-> "next", req |-> m, done |-> NoEntries]}]
    /\ UNCHANGED <<async_exec_num, backup, table, failed, stored, WorkerSide, acked>>

\* A pool thread takes a request; no more than async_exec_num are busy.
TakeRequest(s, m) ==
    /\ failed[s] = "no"
    /\ Cardinality(work[s]) < async_exec_num
    /\ m \in msgs
    /\ m.type = "request" /\ m.server = s
    /\ msgs' = msgs \ {m}
    /\ work' = [work EXCEPT ![s] = @ \cup {[at |-> "next", req |-> m, done |-> NoEntries]}]
    /\ UNCHANGED <<async_exec_num, backup, table, failed, stored, WorkerSide, acked>>

\* Thread x of server s, whose next step is `place`.
At(s, x, place) ==
    /\ failed[s] = "no"
    /\ x \in work[s]
    /\ x.at = place

Become(s, x, y) == work' = [work EXCEPT ![s] = (@ \ {x}) \cup {y}]

\* Key k is handled; a pull answers v for it.
Done(x, k, v) == [at |-> "next", req |-> x.req, done |-> Extend(x.done, k, v)]

\* The keys a thread has still to handle.
Todo(x) == DOMAIN x.req.items \ DOMAIN x.done

\* PullAccessAgent::get_pull_value: find copies the parameter.
FindParam(s, x, k) ==
    /\ At(s, x, "next") /\ x.req.class = "pull"
    /\ k \in Todo(x)
    /\ Become(s, x, IF k \in DOMAIN table
                    THEN Done(x, k, table[k])
                    ELSE [at |-> "assign", req |-> x.req, done |-> x.done, key |-> k])
    /\ UNCHANGED <<async_exec_num, backup, table, failed, msgs, stored, WorkerSide, acked>>

\* Mutant: a new parameter is answered and not assigned.
AnswerUnassigned(s, x) ==
    /\ At(s, x, "assign")
    /\ Become(s, x, Done(x, x.key, {}))
    /\ UNCHANGED <<async_exec_num, backup, table, failed, msgs, stored, WorkerSide, acked>>

\* ... a new key gets an initial parameter, and assign stores it, whatever
\* the table holds by then.  A new entry may rehash the shard: pointers to
\* its parameters are then stale.
AssignParam(s, x) ==
    LET Rehashed(y) == IF y.at \in {"read", "write"} /\ ShardOf(y.key) = ShardOf(x.key)
                       THEN [y EXCEPT !.stale = TRUE] ELSE y
        Others == work[s] \ {x}
    IN  /\ At(s, x, "assign")
        /\ table' = Extend(table, x.key, {})
        /\ \E rehash \in {FALSE, x.key \notin DOMAIN table} :
              work' = [work EXCEPT ![s] =
                         {Done(x, x.key, {})} \cup
                         IF rehash THEN {Rehashed(y) : y \in Others} ELSE Others]
        /\ UNCHANGED <<async_exec_num, backup, failed, msgs, stored, WorkerSide, acked>>

\* PushAccessAgent::apply_push_value: find returns a pointer, and CHECKs.
FindPointer(s, x, k) ==
    /\ At(s, x, "next") /\ x.req.class = "push"
    /\ k \in Todo(x)
    /\ IF k \in DOMAIN table
       THEN /\ Become(s, x, [at |-> "read", req |-> x.req, done |-> x.done,
                             key |-> k, stale |-> FALSE])
            /\ UNCHANGED failed
       ELSE failed' = [failed EXCEPT ![s] = "new key"] /\ UNCHANGED work
    /\ UNCHANGED <<async_exec_num, backup, table, msgs, stored, WorkerSide, acked>>

\* The access method reads the parameter through the pointer ...
ReadParam(s, x) ==
    /\ At(s, x, "read")
    /\ Become(s, x, [at |-> "write", req |-> x.req, done |-> x.done, key |-> x.key,
                     stale |-> x.stale, old |-> table[x.key]])
    /\ UNCHANGED <<async_exec_num, backup, table, failed, msgs, stored, WorkerSide, acked>>

\* Mutant: the gradient replaces what has been pushed before.
ReplaceParam(s, x) ==
    /\ At(s, x, "write")
    /\ table' = [table EXCEPT ![x.key] = x.req.items[x.key]]
    /\ Become(s, x, Done(x, x.key, {}))
    /\ UNCHANGED <<async_exec_num, backup, failed, msgs, stored, WorkerSide, acked>>

\* ... and writes it back with the gradient applied.  What is written
\* through a stale pointer is lost, or ends the process.
WriteParam(s, x) ==
    /\ At(s, x, "write")
    /\ IF x.stale
       THEN /\ failed' \in {failed, [failed EXCEPT ![s] = "stray write"]}
            /\ UNCHANGED table
       ELSE /\ table' = [table EXCEPT ![x.key] = x.old \cup x.req.items[x.key]]
            /\ UNCHANGED failed
    /\ Become(s, x, Done(x, x.key, {}))
    /\ UNCHANGED <<async_exec_num, backup, msgs, stored, WorkerSide, acked>>

\* Mutant: the counter's old value is tested.
TestBackupOld(s, x) ==
    /\ At(s, x, "counted")
    /\ Become(s, x, [x EXCEPT !.at =
          IF BackupPeriod > 0 /\ (push_counter[s] - 1) % BackupPeriod = 0
          THEN "backup" ELSE "reply"])
    /\ UNCHANGED <<async_exec_num, backup, table, failed, msgs, stored, WorkerSide, acked>>

\* The push handler, when it has applied the gradients: push_counter++,
CountPush(s, x) ==
    /\ At(s, x, "next") /\ x.req.class = "push"
    /\ Todo(x) = {}
    /\ push_counter' = [push_counter EXCEPT ![s] = @ + 1]
    /\ Become(s, x, [x EXCEPT !.at = "counted"])
    /\ UNCHANGED <<async_exec_num, backups, table, failed, msgs, stored, WorkerSide, acked>>

\* ... then the counter is read again, to see whether a backup is due ...
TestBackup(s, x) ==
    /\ At(s, x, "counted")
    /\ Become(s, x, [x EXCEPT !.at =
          IF BackupPeriod > 0 /\ push_counter[s] % BackupPeriod = 0
          THEN "backup" ELSE "reply"])
    /\ UNCHANGED <<async_exec_num, backup, table, failed, msgs, stored, WorkerSide, acked>>

\* ... and once more by backup_param, to name its file.
BackupParam(s, x) ==
    /\ At(s, x, "backup")
    /\ backups' = [backups EXCEPT ![s] = Append(@, push_counter[s])]
    /\ Become(s, x, [x EXCEPT !.at = "reply"])
    /\ UNCHANGED <<async_exec_num, push_counter, table, failed, msgs, stored, WorkerSide, acked>>

\* The handler returns, and its response is sent.
Reply(s, x) ==
    LET req == x.req IN
    /\ At(s, x, IF req.class = "pull" THEN "next" ELSE "reply")
    /\ Todo(x) = {}
    /\ msgs' = msgs \cup {Message("response", req.class, req.worker, s, x.done)}
    /\ acked' = [k \in Keys |-> IF req.class = "push" /\ k \in DOMAIN req.items
                                THEN acked[k] \cup req.items[k] ELSE acked[k]]
    /\ work' = [work EXCEPT ![s] = @ \ {x}]
    /\ UNCHANGED <<async_exec_num, backup, table, failed, stored, WorkerSide>>

-----------------------------------------------------------------------------
TrainStep(w) ==
    \E b \in Batches : Pull(w, b) \/ Train(w, b) \/ Push(w, b)

Callback(m) == StoreParams(m) \/ CountDown(m)

PoolStep(s) ==
    \/ \E m \in msgs : TakeRequest(s, m)
    \/ \E x \in work[s] :
          \/ \E k \in Keys : FindParam(s, x, k) \/ FindPointer(s, x, k)
          \/ AssignParam(s, x)
          \/ ReadParam(s, x)
          \/ WriteParam(s, x)
          \/ CountPush(s, x)
          \/ TestBackup(s, x)
          \/ BackupParam(s, x)
          \/ Reply(s, x)

Next ==
    \/ \E w \in Workers : TrainStep(w) \/ PassBarrier(w)
    \/ \E m \in msgs \cup stored : Callback(m)
    \/ \E s \in Servers : PoolStep(s)

Spec == Init /\ [][Next]_vars

(***************************************************************************)
(* The threads of the pools and a worker whose barrier is open are         *)
(* scheduled.  The Algorithm may stop after any step.                      *)
(***************************************************************************)
Fairness ==
    /\ \A w \in Workers : WF_vars(PassBarrier(w))
    /\ WF_vars(\E m \in msgs \cup stored : Callback(m))
    /\ \A s \in Servers : WF_vars(PoolStep(s))

FairSpec == Spec /\ Fairness
-----------------------------------------------------------------------------
(* Properties.                                                             *)

Gradients == Workers \X (0 .. MaxSteps - 1)

TypeOK ==
    /\ async_exec_num \in 1 .. MaxThreads
    /\ DOMAIN table \subseteq Keys
    /\ \A k \in DOMAIN table : table[k] \subseteq Gradients
    /\ \A s \in Servers :
          /\ Cardinality(work[s]) <= async_exec_num
          /\ \A x \in work[s] : /\ x.at \in {"next", "assign", "read", "write",
                                            "counted", "backup", "reply"}
                                /\ DOMAIN x.done \subseteq DOMAIN x.req.items
    /\ push_counter \in [Servers -> Nat]
    /\ backups \in [Servers -> Seq(Nat)]
    /\ failed \in [Servers -> {"no", "new key", "stray write"}]
    /\ \A m \in msgs \cup stored :
          /\ m.type \in {"request", "response"} /\ m.class \in {"pull", "push"}
          /\ m.worker \in Workers /\ m.server \in Servers
          /\ DOMAIN m.items \subseteq {k \in Keys : NodeOf(k) = m.server}
    /\ pc \in [Workers -> {"ready", "pulling", "pushing"}]
    /\ \A w \in Workers : /\ batch[w] \in SUBSET Keys
                          /\ DOMAIN params[w] = DOMAIN grads[w]
                          /\ \A k \in DOMAIN params[w] : params[w][k] \subseteq Gradients
                          /\ \A k \in DOMAIN grads[w] : grads[w][k] \subseteq Gradients
    /\ num_reqs \in [Workers -> 0 .. ServerNum]
    /\ open \in [Workers -> BOOLEAN]
    /\ rounds \in [Workers -> 0 .. MaxRounds]
    /\ steps \in [Workers -> 0 .. MaxSteps]

(***************************************************************************)
(* The CHECK of apply_push_value, that a pushed key has been initialised   *)
(* (sparsetable.h:184), never fails for a worker that pushes only what it  *)
(* has pulled: the answer that put the key into the worker's cache was     *)
(* sent after assign, on whichever pool thread.                            *)
(***************************************************************************)
NewKeysAreInited == \A s \in Servers : failed[s] # "new key"

(***************************************************************************)
(* When pull_with_barrier returns, every key asked for is in the cache:    *)
(* the barrier is opened by the last callback of the round, after it has   *)
(* written its response (global_pull_access.h:92-113), and no callback of  *)
(* the round runs afterwards, when its captured counter is gone.           *)
(***************************************************************************)
BatchIsCached ==
    \A w \in Workers : open[w] =>
       /\ pc[w] = "pulling" => batch[w] \subseteq DOMAIN params[w]
       /\ \A m \in msgs \cup stored : m.worker # w

(***************************************************************************)
(* The response to a push says that the gradients have been applied: they  *)
(* are part of the parameter from then on.                                 *)
(***************************************************************************)
AnsweredPushCounts == \A k \in Keys : acked[k] # {} =>
    k \in DOMAIN table /\ acked[k] \subseteq table[k]

\* With one pool thread per server (async_exec_num) it is so.
PushCountsOnOneThread == async_exec_num = 1 => AnsweredPushCounts

(***************************************************************************)
(* With one pool thread per server, a worker that has pulled a key sees    *)
(* every gradient whose push was answered, to whatever worker, before it   *)
(* asked; so its own pushes are in what it pulls next.                     *)
(***************************************************************************)
PullSeesAnsweredPushes ==
    \A w \in Workers :
       async_exec_num = 1 /\ pc[w] = "pulling" /\ open[w] =>
          \A k \in batch[w] : before[w][k] \subseteq params[w][k]

\* The gradients for key k that are on their way to its server.
Pushed(k) ==
    UNION {m.items[k] : m \in {x \in msgs : x.type = "request" /\ k \in DOMAIN x.items}}

(***************************************************************************)
(* No gradient is pushed twice: what a worker still has to push is neither *)
(* on its way nor applied (reset_local_grad, global_push_access.h:95).     *)
(***************************************************************************)
NoGradientTwice ==
    \A w \in Workers : \A k \in DOMAIN grads[w] :
       /\ grads[w][k] \cap Pushed(k) = {}
       /\ k \in DOMAIN table => grads[w][k] \cap table[k] = {}

(***************************************************************************)
(* A barrier waits for as many callbacks as are still to run: each request *)
(* of the round that is on its way, being handled, answered, or in its     *)
(* callback is counted once in num_reqs, whatever the order of the answers.*)
(* arrange_... counts servers before send makes the requests.              *)
(***************************************************************************)
BarrierCountsRequests ==
    \A w \in Workers :
       num_reqs[w] = Cardinality({m \in msgs \cup stored : m.worker = w}
                       \cup UNION {{x.req : x \in {y \in work[s] : y.req.worker = w}}
                                   : s \in Servers})

(***************************************************************************)
(* A worker that is blocked is owed an answer that will wake it: the       *)
(* callback that counted down to zero has opened its barrier.  Only a pull *)
(* or a push of no keys at all sends no request and is woken by nobody     *)
(* (global_pull_access.h:45-54).                                           *)
(***************************************************************************)
WaiterIsOwedAnAnswer ==
    \A w \in Workers :
       pc[w] # "ready" /\ ~open[w] => num_reqs[w] > 0 \/ batch[w] = {}

\* The pushes that have been counted and looked at for a backup.
LookedAt(s) ==
    push_counter[s] - Cardinality({x \in work[s] : x.at \in {"counted", "backup"}})

(***************************************************************************)
(* With one pool thread a server writes a backup after every BackupPeriod  *)
(* pushes, each under a number of its own and none left out, although the  *)
(* counter is read again after it was incremented (server/init.h:128-131). *)
(***************************************************************************)
BackupsOnOneThread ==
    async_exec_num = 1 =>
       \A s \in Servers :
          backups[s] = IF BackupPeriod = 0 THEN <<>>
                       ELSE [i \in 1 .. LookedAt(s) \div BackupPeriod |-> i * BackupPeriod]

-----------------------------------------------------------------------------
(* The abstract table.                                                     *)

\* What is under way: requests and responses in messages, and requests that
\* a pool thread is handling.
AbstractCalls ==
    {[message |-> m, done |-> NoEntries] : m \in msgs \cup stored}
    \cup UNION {{[message |-> x.req, done |-> x.done] : x \in work[s]} : s \in Servers}

T == INSTANCE ParamTable WITH threads <- async_exec_num, calls <- AbstractCalls

(***************************************************************************)
(* With one pool thread per server the servers are one table whose keys    *)
(* are looked up and updated in single steps (ParamTable), although find,  *)
(* the initialisation and assign, or find, read and write, are steps of    *)
(* their own in the code (sparsetable.h:138-160, 180-198).                 *)
(***************************************************************************)
RefinesTable == T!Spec

(***************************************************************************)
(* A pull or a push returns (Barrier.h:10-11, global_push_access.h:10).    *)
(***************************************************************************)
RoundReturns ==
    \A w \in Workers : pc[w] # "ready" ~> pc[w] = "ready" \/ \E s \in Servers : failed[s] # "no"
=============================================================================
