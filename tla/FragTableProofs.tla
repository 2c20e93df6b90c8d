-------------------------- MODULE FragTableProofs --------------------------
(***************************************************************************)
(* For any number of servers and of fragments: the table that init has     *)
(* computed gives every server its share, and a node that has read the     *)
(* master's answer has the master's table.                                 *)
(***************************************************************************)
EXTENDS FragTable, HashFragProofs, FiniteSetTheorems

-----------------------------------------------------------------------------
(* The shares.                                                             *)

\* Server k's share is an interval; the last server's reaches to the end.
LEMMA ShareIsInterval ==
    ASSUME NEW frags \in Nat, NEW nodes \in Nat, nodes > 0, nodes <= frags,
           NEW i \in 0 .. frags - 1, NEW k \in 1 .. nodes
    PROVE  OwnerOf(i, frags, nodes) = k <=>
              /\ (k - 1) * FragsEachNode(frags, nodes) <= i
              /\ k < nodes => i < k * FragsEachNode(frags, nodes)
<1> DEFINE each == FragsEachNode(frags, nodes)
           q == i \div each
<1>1. each \in Nat /\ each > 0
  BY EachNodeHasFrags
<1> HIDE DEF each
<1>2. q \in Nat /\ each * q <= i /\ i < each * q + each
  BY <1>1, Quotient
<1>3. OwnerOf(i, frags, nodes) = IF q + 1 > nodes THEN nodes ELSE q + 1
  BY DEF OwnerOf, each
<1>4. k - 1 \in Nat /\ (k - 1) * each + each = k * each
  BY <1>1
<1>5. q = k - 1 <=> (k - 1) * each <= i /\ i < k * each
  BY <1>1, <1>4, QuotientBounds
<1>6. q >= k - 1 <=> (k - 1) * each <= i
  <2>1. ASSUME q >= k - 1 PROVE (k - 1) * each <= each * q
    BY <1>1, <1>2, <1>4, <2>1
  <2>2. ASSUME q < k - 1 PROVE each * q + each <= (k - 1) * each
    BY <1>1, <1>2, <1>4, <2>2
  <2>3. (k - 1) * each \in Nat /\ each * q \in Nat
    BY <1>1, <1>2, <1>4
  <2> DEFINE low == (k - 1) * each
             full == each * q
  <2>4. low \in Nat /\ full \in Nat /\ full <= i /\ i < full + each /\ i \in Nat
    BY <1>2, <2>3
  <2>5. q >= k - 1 => low <= full
    BY <2>1
  <2>6. q < k - 1 => full + each <= low
    BY <2>2
  <2> HIDE DEF low, full, q
  <2>7. q >= k - 1 <=> low <= i
    BY <1>1, <1>2, <1>4, <2>4, <2>5, <2>6
  <2> QED
    BY <2>7 DEF low
<1> HIDE DEF q
<1>7. CASE k < nodes
  BY <1>2, <1>3, <1>5, <1>7 DEF each
<1>8. CASE k = nodes
  BY <1>2, <1>3, <1>6, <1>8 DEF each
<1> QED
  BY <1>7, <1>8

(***************************************************************************)
(* Each server but the last owns num_frag_each_node fragments, the last    *)
(* one the remainder too (hashfrag.h:36-45).                               *)
(***************************************************************************)
THEOREM SharesAreEqual ==
    ASSUME NEW frags \in Nat, NEW nodes \in Nat, nodes > 0, nodes <= frags,
           NEW k \in 1 .. nodes
    PROVE  Cardinality({i \in 0 .. frags - 1 : OwnerOf(i, frags, nodes) = k})
              = IF k < nodes THEN FragsEachNode(frags, nodes)
                             ELSE FragsEachNode(frags, nodes) + (frags % nodes)
<1> DEFINE each == FragsEachNode(frags, nodes)
           Share == {i \in 0 .. frags - 1 : OwnerOf(i, frags, nodes) = k}
           first == (k - 1) * each
           last == IF k < nodes THEN k * each - 1 ELSE frags - 1
<1>1. each \in Nat /\ each > 0 /\ nodes * each <= frags
  BY EachNodeHasFrags
<1>2. \A i \in 0 .. frags - 1 :
         OwnerOf(i, frags, nodes) = k <=> first <= i /\ (k < nodes => i < k * each)
  BY ShareIsInterval
<1>3. frags % nodes = frags - nodes * each
  BY DEF FragsEachNode
<1> HIDE DEF each
<1>4. first \in Nat /\ k * each \in Nat /\ first + each = k * each
  BY <1>1
<1>5. k * each <= nodes * each /\ nodes * each \in Nat
  BY <1>1
<1> HIDE DEF first
<1>6. Share = first .. last
  <2>1. ASSUME NEW i \in Share PROVE i \in first .. last
    BY <1>1, <1>2, <1>4, <2>1
  <2>2. ASSUME NEW i \in first .. last PROVE i \in Share
    <3>1. i \in 0 .. frags - 1 /\ first <= i /\ (k < nodes => i < k * each)
      BY <1>1, <1>4, <1>5
    <3> QED
      BY <1>2, <3>1
  <2> QED
    BY <2>1, <2>2
<1>7. first \in Int /\ last \in Int /\ last >= first
  BY <1>1, <1>4, <1>5
<1> HIDE DEF last
<1>8. Cardinality(Share) = last - first + 1
  <2>1. Cardinality(first .. last) = IF first > last THEN 0 ELSE last - first + 1
    BY <1>7, FS_Interval
  <2> HIDE DEF Share
  <2> QED
    BY <1>6, <1>7, <2>1
<1>9. CASE k < nodes
  BY <1>1, <1>4, <1>8, <1>9 DEF each, last
<1>10. CASE k = nodes
  BY <1>1, <1>3, <1>4, <1>8, <1>10 DEF each, last
<1> QED
  BY <1>9, <1>10

-----------------------------------------------------------------------------
(* The two objects.                                                        *)

FragRecord == [num_nodes : 0 .. MaxNodes, num_frags : 0 .. MaxFrags,
               map : {NoTable} \cup {Table(f, n) : f \in 1 .. MaxFrags, n \in 1 .. MaxNodes}]

\* The master's object is empty or computed by init from its own numbers.
MasterIsComputed ==
    IF HasTable(master)
    THEN /\ master.num_nodes > 0 /\ master.num_frags > 0
         /\ master.num_nodes <= master.num_frags
         /\ master.map = Table(master.num_frags, master.num_nodes)
    ELSE master.num_frags = 0 /\ master.map = NoTable

\* What is on its way or was read is what the master has now.
CopiesAreCurrent ==
    /\ \A a \in answers : a = master /\ HasTable(master)
    /\ node # Fresh => node = master /\ HasTable(master)

FragIInv ==
    /\ master \in FragRecord
    /\ crashed \subseteq {"master", "node"}
    /\ MasterIsComputed
    /\ CopiesAreCurrent

LEMMA TableIsNew ==
    ASSUME NEW frags \in Nat, frags > 0, NEW nodes \in Nat
    PROVE  Table(frags, nodes) # NoTable
<1>1. DOMAIN Table(frags, nodes) = 0 .. frags - 1 /\ 0 \in 0 .. frags - 1
  BY DEF Table
<1>2. DOMAIN NoTable = {}
  BY DEF NoTable
<1> QED
  BY <1>1, <1>2

LEMMA InitFragIInv == FragInit => FragIInv
  BY FragTableAssumption
     DEF FragInit, FragIInv, Fresh, FragRecord, MasterIsComputed, CopiesAreCurrent, HasTable

LEMMA InvInitTable ==
    ASSUME FragIInv, NEW frags \in 0 .. MaxFrags, InitTable(frags)
    PROVE  FragIInv'
<1> DEFINE nodes == master.num_nodes
<1>1. nodes \in 1 .. MaxNodes /\ frags \in Nat
  BY FragTableAssumption DEF FragIInv, FragRecord, InitTable
<1>2. answers = {} /\ node = Fresh
  BY DEF FragIInv, CopiesAreCurrent, InitTable
<1>3. CASE frags > 0 /\ FragsEachNode(frags, nodes) > 0
  <2>1. master' = [num_nodes |-> nodes, num_frags |-> frags, map |-> Table(frags, nodes)]
    BY <1>3 DEF InitTable
  <2>2. UNCHANGED <<node, answers, crashed>>
    BY <1>3 DEF InitTable
  <2>3. nodes <= frags
    <3>1. /\ FragsEachNode(frags, nodes) \in Nat
          /\ nodes * FragsEachNode(frags, nodes) <= frags
      BY <1>1, Quotient, FragTableAssumption DEF FragsEachNode
    <3> HIDE DEF nodes
    <3>2. nodes <= nodes * FragsEachNode(frags, nodes)
      BY <1>1, <1>3, <3>1, FragTableAssumption
    <3> QED
      BY <1>1, <3>1, <3>2, FragTableAssumption
  <2>4. Table(frags, nodes) # NoTable
    BY <1>1, <1>3, TableIsNew, FragTableAssumption
  <2>5. master' \in FragRecord
    BY <1>1, <1>3, <2>1, FragTableAssumption DEF FragRecord
  <2>6. MasterIsComputed'
    BY <1>1, <1>3, <2>1, <2>3, <2>4, FragTableAssumption DEF MasterIsComputed, HasTable
  <2> QED
    BY <1>2, <2>2, <2>5, <2>6 DEF FragIInv, CopiesAreCurrent
<1>4. CASE ~(frags > 0 /\ FragsEachNode(frags, nodes) > 0)
  BY <1>4 DEF InitTable, Crash, FragIInv, MasterIsComputed, CopiesAreCurrent
<1> QED
  BY <1>3, <1>4

\* The table a node reads from an answer is the answer.
LEMMA InvDeserialize ==
    ASSUME FragIInv, NEW a \in answers, Deserialize(a)
    PROVE  FragIInv'
<1> DEFINE reads == a.num_frags > 0 /\ (HasTable(node) => a.num_frags = node.num_frags)
<1>1. /\ a = master /\ HasTable(master)
      /\ a.map = Table(a.num_frags, a.num_nodes)
      /\ a \in FragRecord
  BY DEF FragIInv, CopiesAreCurrent, MasterIsComputed
<1>2. a.map = [i \in 0 .. a.num_frags - 1 |-> a.map[i]]
  BY <1>1 DEF Table
<1>3. a = [num_nodes |-> a.num_nodes, num_frags |-> a.num_frags, map |-> a.map]
  BY <1>1 DEF FragRecord
<1>4. CASE reads
  <2>1. (IF node.num_frags = 0 THEN a.num_frags ELSE node.num_frags) = a.num_frags
    BY <1>1, <1>4 DEF FragIInv, CopiesAreCurrent, Fresh
  <2>2. node' = a /\ UNCHANGED <<master, crashed>> /\ answers' = answers \ {a}
    BY <1>2, <1>3, <1>4, <2>1 DEF Deserialize
  <2> QED
    BY <1>1, <2>2 DEF FragIInv, CopiesAreCurrent, MasterIsComputed, HasTable
<1>5. CASE ~reads
  BY <1>5 DEF Deserialize, Crash, FragIInv, MasterIsComputed, CopiesAreCurrent
<1> QED
  BY <1>4, <1>5

LEMMA FragInvNext == FragIInv /\ [FragNext]_fragVars => FragIInv'
<1> SUFFICES ASSUME FragIInv, [FragNext]_fragVars PROVE FragIInv'
  OBVIOUS
<1>1. ASSUME NEW x \in 0 .. MaxNodes, SetNumNodes(x) PROVE FragIInv'
  <2>1. answers = {} /\ node = Fresh /\ ~HasTable(master)
    BY <1>1 DEF SetNumNodes, FragIInv, CopiesAreCurrent, HasTable, Fresh
  <2>2. CASE x > 0
    <3>1. master' = [num_nodes |-> x, num_frags |-> 0, map |-> NoTable]
      BY <1>1, <2>2 DEF SetNumNodes, Fresh
    <3> QED
      BY <1>1, <2>1, <2>2, <3>1, FragTableAssumption
         DEF SetNumNodes, FragIInv, CopiesAreCurrent, MasterIsComputed, FragRecord, HasTable
  <2>3. CASE ~(x > 0)
    BY <1>1, <2>3 DEF SetNumNodes, Crash, FragIInv, MasterIsComputed, CopiesAreCurrent
  <2> QED
    BY <2>2, <2>3
<1>2. ASSUME Serialize PROVE FragIInv'
  BY <1>2 DEF Serialize, FragIInv, MasterIsComputed, CopiesAreCurrent
<1>3. CASE UNCHANGED fragVars
  BY <1>3 DEF fragVars, FragIInv, MasterIsComputed, CopiesAreCurrent
<1> QED
  BY <1>1, <1>2, <1>3, InvInitTable, InvDeserialize DEF FragNext

(***************************************************************************)
(* In every reachable state the master's object is empty or computed by    *)
(* init from the numbers it has, and an answer under way and what a node   *)
(* has read from one are that object (hashfrag.h:30-47, 56-93).            *)
(***************************************************************************)
THEOREM FragInductiveInvariant == FragSpec => []FragIInv
  BY InitFragIInv, FragInvNext, PTL DEF FragSpec

-----------------------------------------------------------------------------
(***************************************************************************)
(* Whatever the number of servers and fragments init was called with, the  *)
(* table it has computed gives every server, and nobody else, its share    *)
(* (hashfrag.h:36-45): a division by zero is a crash, not a wrong table.   *)
(***************************************************************************)
THEOREM MasterSharesOut == FragSpec => []EveryServerOwnsItsShare
<1>1. FragIInv => EveryServerOwnsItsShare
  <2> SUFFICES ASSUME FragIInv, HasTable(master) PROVE EveryServerOwnsItsShare
    BY DEF EveryServerOwnsItsShare
  <2> DEFINE N == master.num_nodes
             F == master.num_frags
             Share(k) == {i \in 0 .. F - 1 : ToNodeId(master.map, F, i) = k}
  <2>1. N \in Nat /\ F \in Nat /\ N > 0 /\ N <= F /\ master.map = Table(F, N)
    BY FragTableAssumption DEF FragIInv, FragRecord, MasterIsComputed
  <2> HIDE DEF N, F
  <2>2. ASSUME NEW i \in 0 .. F - 1
        PROVE  master.map[i] = OwnerOf(i, F, N) /\ ToNodeId(master.map, F, i) = OwnerOf(i, F, N)
    <3>1. i % F = i
      BY <2>1
    <3> QED
      BY <2>1, <3>1 DEF Table, ToNodeId
  <2>3. \A i \in 0 .. F - 1 : master.map[i] \in 1 .. N
    BY <2>1, <2>2, OwnersAreServers DEF Owners
  <2>4. ASSUME NEW k \in 1 .. N
        PROVE  Cardinality(Share(k)) = IF k < N THEN FragsEachNode(F, N)
                                                ELSE FragsEachNode(F, N) + (F % N)
    <3>1. Share(k) = {i \in 0 .. F - 1 : OwnerOf(i, F, N) = k}
      BY <2>2
    <3> QED
      BY <2>1, <3>1, SharesAreEqual
  <2>5. \A k \in 1 .. N - 1 : Cardinality(Share(k)) = FragsEachNode(F, N)
    BY <2>1, <2>4
  <2>6. Cardinality(Share(N)) = FragsEachNode(F, N) + (F % N)
    BY <2>1, <2>4
  <2> QED
    BY <2>3, <2>5, <2>6 DEF EveryServerOwnsItsShare, N, F
<1> QED
  BY <1>1, FragInductiveInvariant, PTL

(***************************************************************************)
(* A node that has read an answer sends a key where the master would       *)
(* (hashfrag.h:20-27, 56-80), for any table and however many answers it    *)
(* has asked for.                                                          *)
(***************************************************************************)
THEOREM CopiesAgree == FragSpec => []NodesAgreeOnOwners
<1>1. FragIInv => NodesAgreeOnOwners
  BY DEF FragIInv, CopiesAreCurrent, NodesAgreeOnOwners, HasTable, Fresh
<1> QED
  BY <1>1, FragInductiveInvariant, PTL
=============================================================================
