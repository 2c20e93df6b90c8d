----------------------------- MODULE FragTable -----------------------------
(***************************************************************************)
(* Two BasicHashFrag objects (core/parameter/hashfrag.h): the master's,    *)
(* which is computed by set_num_nodes and init, and a node's, which is     *)
(* read from the master's answer to NODE_ASKFOR_HASHFRAG.  A failed CHECK  *)
(* and a division by zero both end the process.                            *)
(***************************************************************************)
EXTENDS HashFrag

CONSTANTS
    MaxNodes,   \* bound: servers that may have registered
    MaxFrags    \* bound: frag_num in the configuration

ASSUME FragTableAssumption == MaxNodes \in Nat /\ MaxFrags \in Nat

VARIABLES
    master,     \* the master's object
    node,       \* a node's object
    answers,    \* serialized tables on their way to the node
    crashed     \* the processes that have ended

fragVars == <<master, node, answers, crashed>>

NoTable == [i \in {} |-> 0]

Fresh == [num_nodes |-> 0, num_frags |-> 0, map |-> NoTable]

HasTable(frag) == frag.map # NoTable

FragInit ==
    /\ master = Fresh
    /\ node = Fresh
    /\ answers = {}
    /\ crashed = {}

Crash(process) ==
    /\ crashed' = crashed \cup {process}
    /\ UNCHANGED <<master, node, answers>>

\* set_num_nodes(registered_server_num)
SetNumNodes(x) ==
    /\ "master" \notin crashed
    /\ master = Fresh
    /\ IF x > 0
       THEN /\ master' = [master EXCEPT !.num_nodes = x]
            /\ UNCHANGED <<node, answers, crashed>>
       ELSE Crash("master")

\* init, with frag_num = frags; num_frags() checks that it is positive.
InitTable(frags) ==
    LET nodes == master.num_nodes IN
    /\ "master" \notin crashed
    /\ nodes > 0
    /\ ~HasTable(master)
    /\ IF frags > 0 /\ FragsEachNode(frags, nodes) > 0
       THEN /\ master' = [num_nodes |-> nodes, num_frags |-> frags,
                          map |-> Table(frags, nodes)]
            /\ UNCHANGED <<node, answers, crashed>>
       ELSE Crash("master")

\* The handler of NODE_ASKFOR_HASHFRAG: serialize.
Serialize ==
    /\ "master" \notin crashed
    /\ HasTable(master)
    /\ answers' = answers \cup {master}
    /\ UNCHANGED <<master, node, crashed>>

\* Mutant: the number of fragments is not taken over.
DeserializeWithoutCount(a) ==
    /\ "node" \notin crashed
    /\ a \in answers
    /\ node' = [node EXCEPT !.num_nodes = a.num_nodes, !.map = a.map]
    /\ answers' = answers \ {a}
    /\ UNCHANGED <<master, crashed>>

\* Mutant: the table is read one entry late.
DeserializeShifted(a) ==
    /\ "node" \notin crashed
    /\ a \in answers
    /\ node' = [a EXCEPT !.map = [i \in 0 .. a.num_frags - 1 |->
                                    a.map[IF i = 0 THEN 0 ELSE i - 1]]]
    /\ answers' = answers \ {a}
    /\ UNCHANGED <<master, crashed>>

\* The callback of askfor_hashfrag: deserialize.
Deserialize(a) ==
    /\ "node" \notin crashed
    /\ a \in answers
    /\ IF a.num_frags > 0 /\ (HasTable(node) => a.num_frags = node.num_frags)
       THEN /\ node' = [num_nodes |-> a.num_nodes,
                        num_frags |-> IF node.num_frags = 0 THEN a.num_frags
                                                            ELSE node.num_frags,
                        map |-> [i \in 0 .. a.num_frags - 1 |-> a.map[i]]]
            /\ answers' = answers \ {a}
            /\ UNCHANGED <<master, crashed>>
       ELSE Crash("node")

FragNext ==
    \/ \E x \in 0 .. MaxNodes : SetNumNodes(x)
    \/ \E frags \in 0 .. MaxFrags : InitTable(frags)
    \/ Serialize
    \/ \E a \in answers : Deserialize(a)

FragSpec == FragInit /\ [][FragNext]_fragVars

-----------------------------------------------------------------------------
FragTypeOK ==
    /\ master.num_nodes \in 0 .. MaxNodes
    /\ master.num_frags \in 0 .. MaxFrags
    /\ DOMAIN master.map = 0 .. master.num_frags - 1
    /\ DOMAIN node.map = 0 .. node.num_frags - 1
    /\ crashed \subseteq {"master", "node"}

(***************************************************************************)
(* Every server is given fragments and nobody else is: an id that          *)
(* to_node_id returns is a server's (hashfrag.h:36-45), whatever the       *)
(* remainder of the division.  The shares are equal but for the last       *)
(* server, which takes the remainder.                                      *)
(***************************************************************************)
EveryServerOwnsItsShare ==
    HasTable(master) =>
       LET N    == master.num_nodes
           F    == master.num_frags
           each == FragsEachNode(F, N)
           Share(k) == {i \in 0 .. F - 1 : ToNodeId(master.map, F, i) = k}
       IN  /\ \A i \in 0 .. F - 1 : master.map[i] \in 1 .. N
           /\ \A k \in 1 .. N - 1 : Cardinality(Share(k)) = each
           /\ Cardinality(Share(N)) = each + (F % N)

(***************************************************************************)
(* A node that has read the master's answer sends a key to the server the  *)
(* master assigned it to, whatever its hash code.                          *)
(***************************************************************************)
NodesAgreeOnOwners ==
    HasTable(node) =>
       \A hash \in 0 .. 2 * MaxFrags :
          ToNodeId(node.map, node.num_frags, hash)
             = ToNodeId(master.map, master.num_frags, hash)
=============================================================================
