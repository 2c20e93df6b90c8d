------------------------ MODULE StateBarrierProofs ------------------------
(***************************************************************************)
(* For any number of callbacks, however they interleave with each other,   *)
(* with the waiter, the timer and spurious wake-ups: the barrier is opened *)
(* by one of them, and passed only when all have counted themselves; and a *)
(* time limit leaves nobody waiting.                                       *)
(***************************************************************************)
EXTENDS StateBarrier, FiniteSetTheorems, TLAPS

Pending == {c \in Callbacks : callback[c] = "pending"}

Opening(c) == callback[c] \in {"last", "valid"}

(***************************************************************************)
(* The count is that of the pending callbacks; the callback that takes it  *)
(* to zero is alone with setting the flag and notifying, and the waiter    *)
(* passes on the flag only.                                                *)
(***************************************************************************)
CountIsPending == num_reqs = Cardinality(Pending)

OpenerIsAlone ==
    /\ \A c, d \in Callbacks : Opening(c) /\ Opening(d) => c = d
    /\ \A c \in Callbacks : Opening(c) => num_reqs = 0

FlagIsSetOnce ==
    /\ unblock_state => num_reqs = 0 /\ \A c \in Callbacks : callback[c] # "last"
    /\ \A c \in Callbacks : callback[c] = "valid" => unblock_state
    /\ num_reqs = 0 /\ ~unblock_state => \E c \in Callbacks : callback[c] = "last"

WaiterSawFlag == waiter = "returned" => unblock_state

IInv ==
    /\ BarrierTypeOK
    /\ CountIsPending
    /\ OpenerIsAlone
    /\ FlagIsSetOnce
    /\ WaiterSawFlag

-----------------------------------------------------------------------------
LEMMA PendingIsFinite ==
    IsFiniteSet(Pending) /\ Cardinality(Pending) \in 0 .. Cardinality(Callbacks)
<1>1. Pending \subseteq Callbacks
  BY DEF Pending
<1> QED
  BY <1>1, StateBarrierAssumption, FS_Subset, FS_CardinalityType

LEMMA InitIInv == BarrierInit => IInv
<1> SUFFICES ASSUME BarrierInit PROVE IInv
  OBVIOUS
<1> USE DEF BarrierInit
<1>1. Cardinality(Callbacks) \in Nat /\ Cardinality(Callbacks) > 0
  BY StateBarrierAssumption, FS_CardinalityType, FS_EmptySet
<1>2. Pending = Callbacks
  BY DEF Pending
<1>3. num_reqs \in 0 .. Cardinality(Callbacks)
  BY <1>1
<1>4. BarrierTypeOK
  BY <1>3 DEF BarrierTypeOK, Kinds
<1> QED
  BY <1>1, <1>2, <1>4
     DEF IInv, CountIsPending, OpenerIsAlone, FlagIsSetOnce, WaiterSawFlag, Opening

\* A callback counts itself: it leaves the pending ones.
LEMMA InvCountDown ==
    ASSUME IInv, NEW c \in Callbacks, CountDown(c), UNCHANGED <<kind, timer>>
    PROVE  IInv'
<1> USE DEF CountDown
<1>1. callback' = [callback EXCEPT ![c] = IF num_reqs = 1 THEN "last" ELSE "done"]
  OBVIOUS
<1>2. callback \in [Callbacks -> {"pending", "last", "valid", "done"}]
  BY DEF IInv, BarrierTypeOK
<1>3. Pending' = Pending \ {c} /\ c \in Pending
  BY <1>1, <1>2 DEF Pending
<1>4. Cardinality(Pending') = num_reqs - 1 /\ num_reqs > 0
  <2>1. num_reqs = Cardinality(Pending)
    BY DEF IInv, CountIsPending
  <2>2. Cardinality(Pending \ {c}) = Cardinality(Pending) - 1
    BY <1>3, PendingIsFinite, FS_RemoveElement
  <2>3. Cardinality(Pending) # 0
    BY <1>3, PendingIsFinite, FS_EmptySet
  <2> QED
    BY <1>3, <2>1, <2>2, <2>3, PendingIsFinite
<1>5. \A d \in Callbacks : ~Opening(d)
  BY <1>4 DEF IInv, OpenerIsAlone
<1>6. ~unblock_state
  BY <1>4 DEF IInv, FlagIsSetOnce
<1>7. num_reqs \in 0 .. Cardinality(Callbacks) /\ num_reqs \in Int
  BY PendingIsFinite DEF IInv, CountIsPending
<1>8. BarrierTypeOK'
  <2>1. num_reqs' \in 0 .. Cardinality(Callbacks)
    BY <1>4, <1>7, StateBarrierAssumption, FS_CardinalityType
  <2>2. callback' \in [Callbacks -> {"pending", "last", "valid", "done"}]
    BY <1>1, <1>2
  <2> QED
    BY <2>1, <2>2 DEF IInv, BarrierTypeOK
<1>9. CountIsPending'
  BY <1>4 DEF CountIsPending
<1>10. OpenerIsAlone'
  BY <1>1, <1>2, <1>5, <1>7 DEF OpenerIsAlone, Opening
<1>11. FlagIsSetOnce'
  BY <1>1, <1>2, <1>5, <1>6, <1>7 DEF FlagIsSetOnce, Opening
<1>12. WaiterSawFlag'
  BY <1>6 DEF IInv, WaiterSawFlag
<1> QED
  BY <1>8, <1>9, <1>10, <1>11, <1>12 DEF IInv

\* The other steps leave the pending callbacks alone.
LEMMA InvSetStateValid ==
    ASSUME IInv, NEW c \in Callbacks, SetStateValid(c), UNCHANGED <<kind, timer>>
    PROVE  IInv'
<1> USE DEF SetStateValid
<1>1. callback \in [Callbacks -> {"pending", "last", "valid", "done"}]
  BY DEF IInv, BarrierTypeOK
<1>2. Pending' = Pending
  BY <1>1 DEF Pending
<1>3. num_reqs = 0 /\ \A d \in Callbacks : Opening(d) => d = c
  BY DEF IInv, OpenerIsAlone, Opening
<1> QED
  BY <1>1, <1>2, <1>3
     DEF IInv, BarrierTypeOK, CountIsPending, OpenerIsAlone, FlagIsSetOnce, WaiterSawFlag, Opening

LEMMA InvTryUnblock ==
    ASSUME IInv, NEW c \in Callbacks, TryUnblock(c), UNCHANGED <<kind, timer>>
    PROVE  IInv'
<1> USE DEF TryUnblock, NotifyOne
<1>1. callback \in [Callbacks -> {"pending", "last", "valid", "done"}]
  BY DEF IInv, BarrierTypeOK
<1>2. Pending' = Pending
  BY <1>1 DEF Pending
<1>3. num_reqs = 0 /\ unblock_state /\ \A d \in Callbacks : Opening(d) => d = c
  BY DEF IInv, OpenerIsAlone, FlagIsSetOnce, Opening
<1>4. BarrierTypeOK'
  BY <1>1 DEF IInv, BarrierTypeOK
<1> QED
  BY <1>1, <1>2, <1>3, <1>4
     DEF IInv, CountIsPending, OpenerIsAlone, FlagIsSetOnce, WaiterSawFlag, Opening

LEMMA InvOtherThreads ==
    ASSUME IInv, WaiterStep \/ SpuriousWakeup \/ TimeLimit
    PROVE  IInv'
<1>1. UNCHANGED <<kind, callback, num_reqs, unblock_state>>
  BY DEF WaiterStep, SpuriousWakeup, TimeLimit
<1>2. Pending' = Pending
  BY <1>1 DEF Pending
<1>3. BarrierTypeOK' /\ WaiterSawFlag'
  BY <1>1 DEF WaiterStep, Block, TestState, Wait, SpuriousWakeup, TimeLimit, NotifyOne,
              IInv, BarrierTypeOK, WaiterSawFlag
<1> QED
  BY <1>1, <1>2, <1>3 DEF IInv, CountIsPending, OpenerIsAlone, FlagIsSetOnce, Opening

LEMMA InvNext == IInv /\ [BarrierNext]_barrierVars => IInv'
<1> SUFFICES ASSUME IInv, [BarrierNext]_barrierVars PROVE IInv'
  OBVIOUS
<1>1. ASSUME NEW c \in Callbacks, CallbackStep(c) PROVE IInv'
  BY <1>1, InvCountDown, InvSetStateValid, InvTryUnblock DEF CallbackStep
<1>2. CASE UNCHANGED barrierVars
  BY <1>2 DEF barrierVars, IInv, BarrierTypeOK, CountIsPending, OpenerIsAlone,
              FlagIsSetOnce, WaiterSawFlag, Opening, Pending
<1> QED
  BY <1>1, <1>2, InvOtherThreads DEF BarrierNext

(***************************************************************************)
(* In every reachable state num_reqs counts the callbacks that have still  *)
(* to count down, at most one is on its way to open the barrier, and the   *)
(* flag is set by that one only (global_pull_access.h:45-54,               *)
(* Barrier.h:83-102).                                                      *)
(***************************************************************************)
THEOREM InductiveInvariant == BarrierSpec => []IInv
  BY InitIInv, InvNext, PTL DEF BarrierSpec

-----------------------------------------------------------------------------
(***************************************************************************)
(* block returns only when every callback has counted itself, for any      *)
(* number of callbacks (Barrier.h:83-86, global_pull_access.h:45-54).      *)
(***************************************************************************)
THEOREM PassesComplete == BarrierSpec => []PassesOnlyWhenComplete
<1>1. IInv => PassesOnlyWhenComplete
  <2> SUFFICES ASSUME IInv, waiter = "returned", NEW c \in Callbacks
               PROVE  callback[c] # "pending"
    BY DEF PassesOnlyWhenComplete
  <2>1. Cardinality(Pending) = 0
    BY DEF IInv, WaiterSawFlag, FlagIsSetOnce, CountIsPending
  <2>2. Pending = {}
    BY <2>1, PendingIsFinite, FS_EmptySet
  <2> QED
    BY <2>2 DEF Pending
<1> QED
  BY <1>1, InductiveInvariant, PTL

(***************************************************************************)
(* Exactly one callback sees the count reach zero and opens the barrier    *)
(* (global_pull_access.h:48-51), for any number of callbacks.              *)
(***************************************************************************)
THEOREM OnlyOneOpens == BarrierSpec => []OneOpener
<1>1. IInv => OneOpener
  <2> SUFFICES ASSUME IInv PROVE OneOpener
    OBVIOUS
  <2> DEFINE Openers == {c \in Callbacks : callback[c] \in {"last", "valid"}}
  <2>1. CASE Openers = {}
    BY <2>1, FS_EmptySet DEF IInv, FlagIsSetOnce, OneOpener
  <2>2. CASE Openers # {}
    <3>1. PICK c \in Callbacks : Opening(c)
      BY <2>2 DEF Opening
    <3>2. Openers = {c}
      BY <3>1 DEF IInv, OpenerIsAlone, Opening
    <3>3. Cardinality(Openers) = 1
      BY <3>2, FS_Singleton
    <3> QED
      BY <3>3 DEF IInv, FlagIsSetOnce, OneOpener
  <2> QED
    BY <2>1, <2>2
<1> QED
  BY <1>1, InductiveInvariant, PTL
-----------------------------------------------------------------------------
(* The time limit.                                                         *)

\* A thread that has seen the flag unset, or waits, has the timer behind it.
TimerStandsBy ==
    kind = "timed" /\ process = "up" /\ waiter \in {"unready", "waiting"}
       => timer = "sleeping"

\* A timer that has let the process live has seen the flag.
TimerSawFlag == kind = "timed" /\ process = "up" /\ timer = "done" => unblock_state

(***************************************************************************)
(* Under a time limit that outlasts the moment between the waiter's test   *)
(* and its wait, no thread is left waiting by a timer that has done its    *)
(* work: it has notified the thread again, after which the test succeeds,  *)
(* or it has ended the process (Barrier.h:83-98).  So the notification     *)
(* that may be lost is never the last one: the safety half of              *)
(* TimeLimitRescues.                                                       *)
(***************************************************************************)
THEOREM TimerIsNeverTooEarly ==
    ASSUME LongLimit
    PROVE  BarrierSpec => []TimerStandsBy
<1>1. BarrierInit => TimerStandsBy /\ TimerSawFlag
  BY DEF BarrierInit, TimerStandsBy, TimerSawFlag, Kinds
<1>2. BarrierTypeOK /\ TimerStandsBy /\ TimerSawFlag /\ [BarrierNext]_barrierVars
         => TimerStandsBy' /\ TimerSawFlag'
  <2> SUFFICES ASSUME BarrierTypeOK, TimerStandsBy, TimerSawFlag, [BarrierNext]_barrierVars
               PROVE  TimerStandsBy' /\ TimerSawFlag'
    OBVIOUS
  <2> USE DEF TimerStandsBy, TimerSawFlag
  <2>1. CASE WaiterStep
    BY <2>1 DEF WaiterStep, Block, TestState, Wait, BarrierTypeOK
  <2>2. CASE SpuriousWakeup
    BY <2>2 DEF SpuriousWakeup
  <2>3. ASSUME NEW c \in Callbacks, CallbackStep(c)
        PROVE  TimerStandsBy' /\ TimerSawFlag'
    BY <2>3 DEF CallbackStep, CountDown, SetStateValid, TryUnblock, NotifyOne, BarrierTypeOK
  <2>4. CASE TimeLimit
    BY <2>4 DEF TimeLimit, NotifyOne, BarrierTypeOK
  <2>5. CASE UNCHANGED barrierVars
    BY <2>5 DEF barrierVars
  <2> QED
    BY <2>1, <2>2, <2>3, <2>4, <2>5 DEF BarrierNext
<1>3. IInv => BarrierTypeOK
  BY DEF IInv
<1> QED
  BY <1>1, <1>2, <1>3, InductiveInvariant, PTL DEF BarrierSpec
=============================================================================
