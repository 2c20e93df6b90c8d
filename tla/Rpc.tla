-------------------------------- MODULE Rpc --------------------------------
(***************************************************************************)
(* What the transfer layer (core/transfer/transfer.h) promises to the code *)
(* that calls Transfer::send: the handler of the request's message class   *)
(* runs once on the node the request was sent to, and afterwards the       *)
(* callback given to send runs once on the node that sent it.              *)
(*                                                                         *)
(* A call is abstract here; Transfer shows how messages, threads and       *)
(* queues implement one.                                                   *)
(***************************************************************************)
CONSTANT Calls

VARIABLE status     \* how far each call has come

Status == {"idle", "called", "served", "returned"}

Init == status = [c \in Calls |-> "idle"]

Step(c, from, to) ==
    /\ status[c] = from
    /\ status' = [status EXCEPT ![c] = to]

Call(c)   == Step(c, "idle", "called")      \* Transfer::send
Serve(c)  == Step(c, "called", "served")    \* the message class's handler
Return(c) == Step(c, "served", "returned")  \* the caller's callback

Next == \E c \in Calls : Call(c) \/ Serve(c) \/ Return(c)

Safety == Init /\ [][Next]_status
=============================================================================
