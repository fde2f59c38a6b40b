------------------------------ MODULE MCImportDB ------------------------------
(***************************************************************************)
(* A dump of two tables that refer to each other, so that every rebuild    *)
(* and every FK has somewhere to go wrong: a has a primary key and a       *)
(* unique, b a primary key; a -> b comes before b -> a in the schema file. *)
(* b's rows take two commits of loaddb, so a kill can leave half of them.  *)
(***************************************************************************)
EXTENDS ImportDBInv, TLC

CONSTANTS a, b, pk_a, uk_a, pk_b, fk_ab, fk_ba

MCParentPk   == fk_ab :> pk_b @@ fk_ba :> pk_a
MCParentKeys == fk_ab :> {pk_b} @@ fk_ba :> {pk_a, uk_a}
MCFkPos      == fk_ab :> 1 @@ fk_ba :> 2
MCBatches    == a :> 1 @@ b :> 2
=============================================================================
