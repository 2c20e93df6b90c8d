---------------------------- MODULE MCTransfer ----------------------------
(* Transfer on small instances.                                            *)
EXTENDS Transfer, TLC

\* The threads of a pool are interchangeable; no liveness is checked with it.
ThreadSymmetry == Permutations(Listeners) \cup Permutations(Workers)
=============================================================================
