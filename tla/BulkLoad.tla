-------------------------------- MODULE BulkLoad --------------------------------
(***************************************************************************)
(* What the import pipeline relies on when it loads the rows of a dump:    *)
(* rows arrive batch by batch, in any order of the object files, only      *)
(* while a run is loading; a run that says it is through has every row     *)
(* once; and a run that loads again first empties the tables.  ImportDB    *)
(* takes this for granted (LoadBatch, LoadEnd, Truncate); LoadPool is      *)
(* shown to implement it.                                                  *)
(***************************************************************************)
EXTENDS Naturals

CONSTANTS
  File,     \* the object files to load
  Batches   \* [File -> Nat]: commits loaddb makes for each

VARIABLES
  rows,     \* batches of each file that are committed
  status    \* "down", "loading" or "loaded"

vars == <<rows, status>>

Init ==
  /\ rows = [f \in File |-> 0]
  /\ status = "down"

(* Only what was emptied is loaded.                                        *)
Begin ==
  /\ status = "down"
  /\ rows' = [f \in File |-> 0]
  /\ status' = "loading"

Batch(f) ==
  /\ status = "loading"
  /\ rows[f] < Batches[f]
  /\ rows' = [rows EXCEPT ![f] = @ + 1]
  /\ UNCHANGED status

Loaded ==
  /\ status = "loading"
  /\ rows = Batches
  /\ status' = "loaded"
  /\ UNCHANGED rows

(* The run is killed or fails, before its success is recorded too.         *)
Stop ==
  /\ status # "down"
  /\ status' = "down"
  /\ UNCHANGED rows

Next ==
  \/ Begin \/ Loaded \/ Stop
  \/ \E f \in File : Batch(f)

Spec == Init /\ [][Next]_vars
=============================================================================
