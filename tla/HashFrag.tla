----------------------------- MODULE HashFrag -----------------------------
(***************************************************************************)
(* BasicHashFrag (core/parameter/hashfrag.h): the table that divides the   *)
(* key space, cut into frag_num fragments, among the servers 1 .. N.  The  *)
(* master computes it once (init) and sends it to every node               *)
(* (serialize, deserialize), which looks keys up in its copy               *)
(* (to_node_id).  Id 0 is the master's, which owns no fragment.            *)
(***************************************************************************)
EXTENDS Integers, FiniteSets

\* init's num_frag_each_node, a division of ints.
FragsEachNode(frags, nodes) == frags \div nodes

\* Mutant: the master's id is not skipped.
OwnerFromZero(i, frags, nodes) ==
    LET id == i \div FragsEachNode(frags, nodes)
    IN  IF id > nodes THEN nodes ELSE id

\* init's body for fragment i, clipped to 1 .. nodes.
OwnerOf(i, frags, nodes) ==
    LET id == (i \div FragsEachNode(frags, nodes)) + 1
    IN  IF id > nodes THEN nodes ELSE id

Table(frags, nodes) ==
    [i \in 0 .. frags - 1 |-> OwnerOf(i, frags, nodes)]

\* to_node_id, of a key's hash code.
ToNodeId(table, frags, hash) == table[hash % frags]

\* The ids to_node_id can return.
Owners(frags, nodes) ==
    {OwnerOf(i, frags, nodes) : i \in 0 .. frags - 1}
=============================================================================
