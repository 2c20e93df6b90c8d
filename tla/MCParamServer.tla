--------------------------- MODULE MCParamServer ---------------------------
(* ParamServer on a small instance: server 1 owns key 0, server 2 owns    *)
(* keys 1 and 2, which share a shard.                                      *)
EXTENDS ParamServer, TLC

MCKeys == 0 .. 2

\* The batches overlap, one of them needs both servers, one of them none.
MCBatches == {{}, {0, 1}, {1, 2}}

\* A batch for each server.
MCApart == {{0}, {0, 1}}

WorkerSymmetry == Permutations(Workers)
=============================================================================
