---------------------------- MODULE MCRecordFiles ----------------------------
(* Three edges in the order of the dump, the last of them perhaps held.    *)
EXTENDS RecordFiles

CONSTANTS e1, e2, e3

MCEdges == {e1, e2, e3}
MCPlace == [e \in MCEdges |-> CASE e = e1 -> 1 [] e = e2 -> 2 [] OTHER -> 3]
MCHeld == {e3}
================================================================================
