--------------------------- MODULE MCDependencyGraph ---------------------------
(***************************************************************************)
(* Three or four classes.  Their names are interchangeable, except for one *)
(* that looks like a partition's.                                          *)
(***************************************************************************)
EXTENDS DependencyGraph, TLC

Symmetry == Permutations(Class \ PseudoName)
=============================================================================
