-------------------------- MODULE HashFragProofs --------------------------
(***************************************************************************)
(* Facts about the fragment table for every number of fragments and of     *)
(* servers, provided there is a fragment for each server.  (With fewer     *)
(* fragments than servers init divides by zero.)                           *)
(***************************************************************************)
EXTENDS HashFrag, TLAPS

LEMMA Quotient ==
    ASSUME NEW a \in Nat, NEW b \in Nat, b > 0
    PROVE  /\ a \div b \in Nat
           /\ b * (a \div b) <= a
           /\ a < b * (a \div b) + b
  OBVIOUS

LEMMA QuotientOfProduct ==
    ASSUME NEW q \in Nat, NEW b \in Nat, b > 0
    PROVE  (q * b) \div b = q
  OBVIOUS

LEMMA QuotientMonotone ==
    ASSUME NEW a \in Nat, NEW c \in Nat, NEW b \in Nat, b > 0, a <= c
    PROVE  a \div b <= c \div b
  OBVIOUS

LEMMA QuotientBounds ==
    ASSUME NEW a \in Nat, NEW b \in Nat, b > 0, NEW q \in Nat
    PROVE  a \div b = q <=> q * b <= a /\ a < q * b + b
<1>1. a \div b \in Nat /\ b * (a \div b) <= a /\ a < b * (a \div b) + b
  BY Quotient
<1>2. ASSUME NEW r \in Nat, q < r PROVE q * b + b <= r * b
  BY <1>2
<1>3. ASSUME NEW r \in Nat, r < q PROVE r * b + b <= q * b
  BY <1>3
<1> QED
  BY <1>1, <1>2, <1>3

\* num_frag_each_node is positive, and the shares fit into the table.
LEMMA EachNodeHasFrags ==
    ASSUME NEW frags \in Nat, NEW nodes \in Nat, nodes > 0, nodes <= frags
    PROVE  /\ FragsEachNode(frags, nodes) \in Nat
           /\ FragsEachNode(frags, nodes) > 0
           /\ nodes * FragsEachNode(frags, nodes) <= frags
  BY Quotient DEF FragsEachNode

(***************************************************************************)
(* init assigns every fragment to a server: never to the master, whose id  *)
(* is 0, and never to an id beyond the last server (hashfrag.h:37-45).     *)
(***************************************************************************)
THEOREM OwnersAreServers ==
    ASSUME NEW frags \in Nat, NEW nodes \in Nat, nodes > 0, nodes <= frags
    PROVE  Owners(frags, nodes) \subseteq 1 .. nodes
<1> SUFFICES ASSUME NEW i \in 0 .. frags - 1
             PROVE  OwnerOf(i, frags, nodes) \in 1 .. nodes
  BY DEF Owners
<1>1. FragsEachNode(frags, nodes) \in Nat /\ FragsEachNode(frags, nodes) > 0
  BY EachNodeHasFrags
<1>2. i \div FragsEachNode(frags, nodes) \in Nat
  BY <1>1, Quotient
<1> QED
  BY <1>2 DEF OwnerOf

(***************************************************************************)
(* init leaves no server without a fragment, so every registered server    *)
(* can be asked for keys (hashfrag.h:36-45).                               *)
(***************************************************************************)
THEOREM EveryServerOwns ==
    ASSUME NEW frags \in Nat, NEW nodes \in Nat, nodes > 0, nodes <= frags
    PROVE  1 .. nodes \subseteq Owners(frags, nodes)
<1> DEFINE each == FragsEachNode(frags, nodes)
<1> SUFFICES ASSUME NEW k \in 1 .. nodes
             PROVE  \E i \in 0 .. frags - 1 : OwnerOf(i, frags, nodes) = k
  BY DEF Owners
<1>1. each \in Nat /\ each > 0 /\ nodes * each <= frags
  BY EachNodeHasFrags
<1> HIDE DEF each
<1> DEFINE i == (k - 1) * each
<1>2. i \in 0 .. frags - 1
  <2>1. (k - 1) * each \in Nat
    BY <1>1
  <2>2. (k - 1) * each + each <= nodes * each
    BY <1>1
  <2> QED
    BY <1>1, <2>1, <2>2
<1>3. i \div each = k - 1
  BY <1>1, QuotientOfProduct
<1>4. OwnerOf(i, frags, nodes) = k
  BY <1>3 DEF OwnerOf, each
<1> QED
  BY <1>2, <1>4

(***************************************************************************)
(* The servers' shares are contiguous and in the order of their ids: a     *)
(* later fragment never belongs to an earlier server.                      *)
(***************************************************************************)
THEOREM OwnersInOrder ==
    ASSUME NEW frags \in Nat, NEW nodes \in Nat, nodes > 0, nodes <= frags,
           NEW i \in 0 .. frags - 1, NEW j \in 0 .. frags - 1, i <= j
    PROVE  OwnerOf(i, frags, nodes) <= OwnerOf(j, frags, nodes)
<1> DEFINE each == FragsEachNode(frags, nodes)
<1>1. each \in Nat /\ each > 0
  BY EachNodeHasFrags
<1>2. /\ i \div each \in Nat /\ j \div each \in Nat
      /\ i \div each <= j \div each
  BY <1>1, Quotient, QuotientMonotone
<1> QED
  BY <1>2 DEF OwnerOf
=============================================================================
