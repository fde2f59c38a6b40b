------------------------------- MODULE MCLoadPool -------------------------------
(***************************************************************************)
(* Three object files, two loaders at a time: the pool is full, refilled   *)
(* and drained.  The first file takes two commits, the last one none (an   *)
(* empty class).                                                           *)
(***************************************************************************)
EXTENDS LoadPool, TLC

MCBatches == 1 :> 2 @@ 2 :> 1 @@ 3 :> 0
=============================================================================
