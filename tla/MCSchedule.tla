------------------------------ MODULE MCSchedule ------------------------------
(* Small graphs for TLC: the names are interchangeable.                    *)
EXTENDS Schedule, TLC

Symmetry ==
  Permutations(Node) \cup Permutations(KeyName) \cup Permutations(FkName)
================================================================================
