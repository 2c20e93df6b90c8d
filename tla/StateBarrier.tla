--------------------------- MODULE StateBarrier ---------------------------
(***************************************************************************)
(* A StateBarrier (utils/Barrier.h) as its users employ it: one thread     *)
(* blocks until the callbacks of all its requests have run on pool         *)
(* threads.  The last callback sets the flag and notifies, both without    *)
(* the mutex under which the blocked thread tests the flag.  The barriers  *)
(* of the start-up code have a time limit too, kept by a detached thread.  *)
(***************************************************************************)
EXTENDS Naturals, FiniteSets

CONSTANTS
    Callbacks,  \* the callbacks the thread waits for (num_reqs)
    LongLimit   \* whether the time limit, of seconds, outlasts the moment
                \* between the waiter's test and its wait

ASSUME StateBarrierAssumption ==
    /\ IsFiniteSet(Callbacks) /\ Callbacks # {}
    /\ LongLimit \in BOOLEAN

(***************************************************************************)
(* How a barrier is used:                                                  *)
(*   "timed"  - a member of the start-up code, with a time limit           *)
(*   "member" - a member of the termination code, without one              *)
(*   "stack"  - local to pull_with_barrier, push_with_barrier, async_exec, *)
(*              so that it dies when block returns                         *)
(***************************************************************************)
Kinds == {"timed", "member", "stack"}

VARIABLES
    kind,           \* how the barrier is used
    waiter,         \* the thread that calls block
    callback,       \* the callbacks
    timer,          \* the thread started by time_limit
    num_reqs,       \* callbacks that have not counted themselves
    unblock_state,  \* the flag
    process         \* "up", or how the process ended

barrierVars == <<kind, waiter, callback, timer, num_reqs, unblock_state, process>>

BarrierInit ==
    /\ waiter = "start"
    /\ callback = [c \in Callbacks |-> "pending"]
    /\ kind \in Kinds
    /\ timer = IF kind = "timed" THEN "sleeping" ELSE "done"
    /\ num_reqs = Cardinality(Callbacks)
    /\ unblock_state = FALSE
    /\ process = "up"

Destroyed == kind = "stack" /\ waiter = "returned"

\* cond.notify_one: a notification nobody waits for is gone.  On a destroyed
\* condition variable it is undefined: it may do nothing, or crash.
NotifyOne ==
    /\ waiter' = IF waiter = "waiting" THEN "woken" ELSE waiter
    /\ \/ UNCHANGED process
       \/ Destroyed /\ process' = "crashed"

-----------------------------------------------------------------------------
(* block: lock the mutex; while the flag is not set, wait.                 *)

Block ==
    /\ waiter \in {"start", "woken"}
    /\ waiter' = "locked"

\* The predicate, with the mutex held.
TestState ==
    /\ waiter = "locked"
    /\ waiter' = IF unblock_state THEN "returned" ELSE "unready"

\* cond.wait releases the mutex and joins the waiting threads in one step.
Wait ==
    /\ waiter = "unready"
    /\ waiter' = "waiting"

WaiterStep ==
    /\ process = "up"
    /\ Block \/ TestState \/ Wait
    /\ UNCHANGED <<kind, callback, timer, num_reqs, unblock_state, process>>

\* A condition variable may wake a thread without a notification.
SpuriousWakeup ==
    /\ process = "up"
    /\ waiter = "waiting"
    /\ waiter' = "woken"
    /\ UNCHANGED <<kind, callback, timer, num_reqs, unblock_state, process>>

-----------------------------------------------------------------------------
(* extra_rsp_callback: if (--num_reqs == 0) ...                            *)

\* Mutant: the count is tested before it is decremented, by one too many.
CountDownEarly(c) ==
    /\ callback[c] = "pending"
    /\ num_reqs' = num_reqs - 1
    /\ callback' = [callback EXCEPT ![c] = IF num_reqs <= 2 THEN "last" ELSE "done"]
    /\ UNCHANGED <<waiter, unblock_state, process>>

CountDown(c) ==
    /\ callback[c] = "pending"
    /\ num_reqs' = num_reqs - 1
    /\ callback' = [callback EXCEPT ![c] = IF num_reqs = 1 THEN "last" ELSE "done"]
    /\ UNCHANGED <<waiter, unblock_state, process>>

SetStateValid(c) ==
    /\ callback[c] = "last"
    /\ unblock_state' = TRUE
    /\ callback' = [callback EXCEPT ![c] = "valid"]
    /\ UNCHANGED <<waiter, num_reqs, process>>

TryUnblock(c) ==
    /\ callback[c] = "valid"
    /\ NotifyOne
    /\ callback' = [callback EXCEPT ![c] = "done"]
    /\ UNCHANGED <<num_reqs, unblock_state>>

CallbackStep(c) ==
    /\ process = "up"
    /\ CountDown(c) \/ SetStateValid(c) \/ TryUnblock(c)
    /\ UNCHANGED <<kind, timer>>

\* Mutant: the timer does not notify again when the flag is set.
TimeLimitSilent ==
    /\ process = "up"
    /\ timer = "sleeping"
    /\ LongLimit => waiter # "unready"
    /\ timer' = "done"
    /\ process' = IF unblock_state THEN process ELSE "timed out"
    /\ UNCHANGED <<kind, waiter, callback, num_reqs, unblock_state>>

\* The thread of time_limit, after its sleep.
TimeLimit ==
    /\ process = "up"
    /\ timer = "sleeping"
    /\ LongLimit => waiter # "unready"
    /\ timer' = "done"
    /\ IF unblock_state THEN NotifyOne
                        ELSE process' = "timed out" /\ UNCHANGED waiter
    /\ UNCHANGED <<kind, callback, num_reqs, unblock_state>>

BarrierNext ==
    \/ WaiterStep
    \/ SpuriousWakeup
    \/ \E c \in Callbacks : CallbackStep(c)
    \/ TimeLimit

BarrierSpec == BarrierInit /\ [][BarrierNext]_barrierVars

\* Threads are scheduled, sleeps end and the responses arrive; nothing
\* obliges a condition variable to wake a thread spuriously.
BarrierFairness ==
    /\ WF_barrierVars(WaiterStep)
    /\ \A c \in Callbacks : WF_barrierVars(CallbackStep(c))
    /\ WF_barrierVars(TimeLimit)

FairBarrierSpec == BarrierSpec /\ BarrierFairness

-----------------------------------------------------------------------------
BarrierTypeOK ==
    /\ kind \in Kinds
    /\ waiter \in {"start", "locked", "unready", "waiting", "woken", "returned"}
    /\ callback \in [Callbacks -> {"pending", "last", "valid", "done"}]
    /\ timer \in {"sleeping", "done"}
    /\ num_reqs \in 0 .. Cardinality(Callbacks)
    /\ unblock_state \in BOOLEAN
    /\ process \in {"up", "timed out", "crashed"}

(***************************************************************************)
(* The thread passes the barrier only when every callback has counted      *)
(* itself, whichever of them was the last and however often the thread was *)
(* woken before.                                                           *)
(***************************************************************************)
PassesOnlyWhenComplete ==
    waiter = "returned" => \A c \in Callbacks : callback[c] # "pending"

(***************************************************************************)
(* Exactly one callback opens the barrier: the count that reaches zero is  *)
(* seen by one of them.                                                    *)
(***************************************************************************)
OneOpener ==
    /\ Cardinality({c \in Callbacks : callback[c] \in {"last", "valid"}}) <= 1
    /\ (num_reqs = 0 /\ ~unblock_state) => \E c \in Callbacks : callback[c] = "last"

(***************************************************************************)
(* A thread that waits under a time limit does not wait for ever, though   *)
(* the last callback's notification can be lost: the timer's thread        *)
(* notifies it again or ends the process (Barrier.h:91-98), provided that  *)
(* the limit outlasts the moment between the waiter's test and its wait.   *)
(***************************************************************************)
TimeLimitRescues ==
    kind = "timed" ~> (waiter = "returned" \/ process # "up")

(***************************************************************************)
(* The class's comment: it blocks "current thread and wait for future      *)
(* flag" (Barrier.h:10-11), so the blocked thread comes back once the flag *)
(* is set, or the time limit ends the process.                             *)
(***************************************************************************)
WaiterComesBack == <>(waiter = "returned" \/ process # "up")
=============================================================================
