----------------------------- MODULE MCCluster -----------------------------
(* Cluster on small instances.                                             *)
EXTENDS Cluster, TLC

\* Processes of a kind, and the pool threads, are interchangeable; no
\* liveness is checked with this.
ProcessSymmetry ==
    Permutations(Servers) \cup Permutations(Workers) \cup Permutations(PoolThreads)
=============================================================================
