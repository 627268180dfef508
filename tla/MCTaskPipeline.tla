--------------------------- MODULE MCTaskPipeline ---------------------------
(***************************************************************************)
(* TaskPipeline over interchangeable digests, for the runs that check no   *)
(* liveness property.                                                      *)
(***************************************************************************)
EXTENDS TaskPipeline, TLC

DigestSymmetry == Permutations(Hashes)
=============================================================================
