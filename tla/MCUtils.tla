------------------------------ MODULE MCUtils ------------------------------
(***************************************************************************)
(* The parts of the system that can be checked on their own, side by side: *)
(* the fragment table, the barrier, the queue, the buffers and the         *)
(* configuration parser.  They share no state; a behaviour is a behaviour  *)
(* of one of them, chosen at the start, while the others stay at their     *)
(* initial state.                                                          *)
(***************************************************************************)
EXTENDS FragTable, StateBarrier, WorkQueue, Buffer, Config

VARIABLE part  \* the part whose behaviour this is

Parts == {"fragments", "barrier", "queue", "buffer", "config"}

vars == <<part, fragVars, barrierVars, queueVars, bufferVars, configVars>>

\* Only the chosen part has a choice of initial states.
Init ==
    /\ part \in Parts
    /\ FragInit
    /\ BarrierInit /\ (part # "barrier" => kind = "member")
    /\ QueueInit
    /\ BufferInit
    /\ ConfigInit /\ (part # "config" => content = [f \in ConfFiles |-> <<>>])

FragPart ==
    /\ part = "fragments" /\ FragNext
    /\ UNCHANGED <<part, barrierVars, queueVars, bufferVars, configVars>>

BarrierPart ==
    /\ part = "barrier" /\ BarrierNext
    /\ UNCHANGED <<part, fragVars, queueVars, bufferVars, configVars>>

QueuePart ==
    /\ part = "queue" /\ QueueNext
    /\ UNCHANGED <<part, fragVars, barrierVars, bufferVars, configVars>>

BufferPart ==
    /\ part = "buffer" /\ BufferNext
    /\ UNCHANGED <<part, fragVars, barrierVars, queueVars, configVars>>

ConfigPart ==
    /\ part = "config" /\ ConfigNext
    /\ UNCHANGED <<part, fragVars, barrierVars, queueVars, bufferVars>>

Next == FragPart \/ BarrierPart \/ QueuePart \/ BufferPart \/ ConfigPart

\* The chosen part is scheduled as its module says.
Fairness ==
    /\ part = "barrier" => BarrierFairness
    /\ part = "queue" => QueueFairness

Spec == Init /\ [][Next]_vars /\ Fairness

\* The state of every part has its type.
TypeOK ==
    /\ part \in Parts
    /\ FragTypeOK
    /\ BarrierTypeOK
    /\ QueueTypeOK
    /\ BufferTypeOK
    /\ ConfigTypeOK

(***************************************************************************)
(* A queue in use is emptied at last, and its threads end                  *)
(* (EverythingIsTaken, queue.h:89-110).                                    *)
(***************************************************************************)
QueueDrains == part = "queue" => EverythingIsTaken
=============================================================================
