------------------------------- MODULE MCDumpDir -------------------------------
(***************************************************************************)
(* Two databases and one dump directory.  DistinctNames: the ordinary case *)
(* of one dump imported into two databases.  SameName: two hosts share the *)
(* dump directory and each has a database of that name.                    *)
(***************************************************************************)
EXTENDS DumpDir, TLC

CONSTANTS d1, d2, d3

DistinctNames == d1 :> "one" @@ d2 :> "two"
Names == d1 :> "one" @@ d2 :> "two" @@ d3 :> "one"
SameName == d1 :> "one" @@ d2 :> "one"
=============================================================================
