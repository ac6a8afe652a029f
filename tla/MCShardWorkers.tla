--------------------------- MODULE MCShardWorkers ---------------------------
(***************************************************************************)
(* Instances of ShardWorkers for TLC.                                      *)
(***************************************************************************)
EXTENDS ShardWorkers, TLC

Symmetry == Permutations(Workers)
=============================================================================
