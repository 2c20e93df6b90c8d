----------------------------- MODULE ParamTable -----------------------------
(***************************************************************************)
(* What the parameter servers promise the workers: one table in which each *)
(* key of a pull is looked up, and created when it is new, in one step,    *)
(* and each gradient of a push is applied in one step.  The keys of a      *)
(* request are handled in any order, those of several requests by turns.   *)
(* The promise is made for servers with one pool thread.                   *)
(***************************************************************************)
EXTENDS Naturals

VARIABLES
    threads,  \* the pool threads of a server
    table,    \* the parameters
    calls     \* the pulls and pushes that are under way, and their answers

\* A call is its request, or its response when it is answered, and the keys
\* that have been handled with what a pull has read of them.
Call(message, done) == [message |-> message, done |-> done]

Nothing == [k \in {} |-> {}]

\* Map f with the entry of key k set to v.
Set(f, k, v) == [x \in DOMAIN f \cup {k} |-> IF x = k THEN v ELSE f[x]]

IsAsked(c) == c.message.type = "request"

Todo(c) == DOMAIN c.message.items \ DOMAIN c.done

Progress(c, k, v) == calls' = (calls \ {c}) \cup {[c EXCEPT !.done = Set(@, k, v)]}

Init ==
    /\ table = Nothing
    /\ calls = {}

\* A worker sends the requests of a pull or a push, one to each server.
Ask(worker) ==
    /\ calls \subseteq calls'
    /\ \A c \in calls' \ calls :
          IsAsked(c) /\ c.message.worker = worker /\ c.done = Nothing
    /\ UNCHANGED table

\* The answer holds the value of the key at this moment.
PullKey(c, k) ==
    /\ IsAsked(c) /\ c.message.class = "pull"
    /\ k \in Todo(c)
    /\ LET v == IF k \in DOMAIN table THEN table[k] ELSE {} IN
          /\ table' = Set(table, k, v)
          /\ Progress(c, k, v)

PushKey(c, k) ==
    /\ IsAsked(c) /\ c.message.class = "push"
    /\ k \in Todo(c) \cap DOMAIN table
    /\ table' = Set(table, k, table[k] \cup c.message.items[k])
    /\ Progress(c, k, {})

Answer(c) ==
    /\ IsAsked(c)
    /\ Todo(c) = {}
    /\ calls' = (calls \ {c}) \cup
          {Call([c.message EXCEPT !.type = "response", !.items = c.done], Nothing)}
    /\ UNCHANGED table

\* The worker has its answer.
Take(c) ==
    /\ ~IsAsked(c)
    /\ calls' = calls \ {c}
    /\ UNCHANGED table

Next ==
    \/ \E c \in calls' : Ask(c.message.worker)
    \/ \E c \in calls :
          \/ \E k \in DOMAIN c.message.items : PullKey(c, k) \/ PushKey(c, k)
          \/ Answer(c)
          \/ Take(c)

Spec == Init /\ [][threads = 1 => Next]_<<table, calls>>
=============================================================================
