----------------------------- MODULE DumpDir_proofs -----------------------------
(***************************************************************************)
(* Proofs about DumpDir, for any number of databases, names and backups:   *)
(* the record of an interrupted import is kept, and a database in use is   *)
(* left alone under the three conditions on which that depends.            *)
(***************************************************************************)
EXTENDS DumpDir, WellFoundedInduction, TLAPS

USE DEF DISCOVERED, DEFINED, STRIPPED, LOADED, REBUILT, STATS_UPDATED, DONE

(* Some name is the first that is not taken, or the last is.               *)
LEMMA FreeSlotExists ==
  ASSUME NEW taken \in [Slot -> BOOLEAN]
  PROVE  \E i \in Slot : /\ i = LastPrev \/ ~taken[i]
                         /\ \A j \in 0 .. (i - 1) : taken[j]
<1> DEFINE T == {i \in Slot : i = LastPrev \/ ~taken[i]}
<1>1. T \subseteq Nat /\ LastPrev \in T
  BY DumpDirAssumption DEF Slot
<1>2. PICK i \in T : \A j \in T : ~(<<j, i>> \in OpToRel(<, Nat))
  BY <1>1, NatLessThanWellFounded, WFMin
<1>3. ASSUME NEW j \in 0 .. (i - 1) PROVE taken[j]
  <2>1. i \in Nat /\ i <= LastPrev
    BY DumpDirAssumption DEF Slot
  <2>2. j \in Slot /\ j \in Nat /\ j < i
    BY <2>1, <1>3, DumpDirAssumption DEF Slot
  <2>3. j \notin T
    BY <1>2, <2>1, <2>2 DEF OpToRel
  <2> QED
    BY <2>2, <2>3
<1> QED
  BY <1>2, <1>3

(* FreeSlot is a name, and a free one as long as there is one.             *)
LEMMA FreeSlotIsFree ==
  ASSUME prev \in [Slot -> ManifestRecord]
  PROVE  /\ FreeSlot \in Slot
         /\ (\E i \in Slot : ~prev[i].exists) => ~prev[FreeSlot].exists
<1>1. \A i \in Slot : prev[i].exists \in BOOLEAN
  BY DEF ManifestRecord, None
<1>2. [i \in Slot |-> prev[i].exists] \in [Slot -> BOOLEAN]
  BY <1>1
<1>3. \E i \in Slot : /\ i = LastPrev \/ ~prev[i].exists
                      /\ \A j \in 0 .. (i - 1) : prev[j].exists
  <2>1. \A i \in Slot : 0 .. (i - 1) \subseteq Slot
    BY DumpDirAssumption DEF Slot
  <2> QED
    BY <1>2, <2>1, FreeSlotExists
<1>4. /\ FreeSlot \in Slot
      /\ FreeSlot = LastPrev \/ ~prev[FreeSlot].exists
      /\ \A j \in 0 .. (FreeSlot - 1) : prev[j].exists
  BY <1>3 DEF FreeSlot
<1>5. ASSUME FreeSlot = LastPrev, NEW i \in Slot, ~prev[i].exists
      PROVE  ~prev[FreeSlot].exists
  <2>1. CASE i = LastPrev
    BY <1>5, <2>1
  <2>2. CASE i # LastPrev
    BY <1>4, <1>5, <2>2, DumpDirAssumption DEF Slot
  <2> QED
    BY <2>1, <2>2
<1> QED
  BY <1>4, <1>5

-----------------------------------------------------------------------------
(* Whose record the manifest is at each step of a run.                     *)
Owned ==
  /\ manifest.exists = FALSE => manifest = None
  /\ pc \in {"open", "preserve"} /\ ~Resuming /\ ~keep => ~manifest.exists
  /\ pc = "preserve" => ~Resuming /\ keep
  /\ pc = "write_discovered" => ~manifest.exists
  /\ pc \in {"define", "write_defined"} =>
       manifest.exists /\ manifest.phase = DISCOVERED
  /\ \/ pc = "open" /\ Resuming
     \/ pc \in {"graph", "write_graph", "guard", "truncate", "work", "mark"}
     =>
       /\ manifest.exists
       /\ manifest.name = DbName[target]
       /\ manifest.phase = at
       /\ at \in DEFINED .. STATS_UPDATED
  /\ pc = "truncate" => at = STRIPPED
  /\ pc = "write_graph" => at = DEFINED
  /\ pc \in {"idle", "decide"} => ~Resuming

Inv == TypeOK /\ Owned

(* The absent manifest is of its type.                                     *)
LEMMA NoneType ==
  None \in ManifestRecord /\ ~None.exists /\ None.phase = DISCOVERED
  BY DEF None, ManifestRecord, Graph

(* The parts of TypeOK that a step which ends a run disturbs.              *)
LEMMA ExitTypes ==
  ASSUME TypeOK, NEW how, Exit(how), UNCHANGED <<manifest, prev>>,
         how \in {"stopped", "already", "not_empty", "mismatch", "imported",
                  "imported_partial"},
         db' \in [Target -> [cls : BOOLEAN, keys : BOOLEAN, rows : Rows]]
  PROVE  TypeOK'
<1>1. keep' \in BOOLEAN /\ restart' \in BOOLEAN
  BY Zenon DEF Exit, TypeOK
<1>2. /\ pc' \in Steps
      /\ target' \in Target
      /\ prior' \in 0 .. 6
      /\ at' \in 0 .. 7
      /\ graph' \in Graph
      /\ outcome' \in {"none", "stopped", "already", "not_empty", "mismatch",
                       "imported", "imported_partial"}
  BY DEF Exit, TypeOK, Steps, Graph
<1>3. manifest' \in ManifestRecord /\ prev' \in [Slot -> ManifestRecord]
  BY DEF TypeOK
<1> QED
  BY <1>1, <1>2, <1>3 DEF TypeOK

(* A run that ends leaves the manifest to nobody.                          *)
LEMMA ExitInv ==
  ASSUME Inv, NEW how, Exit(how), UNCHANGED <<manifest, prev>>,
         how \in {"stopped", "already", "not_empty", "mismatch", "imported",
                  "imported_partial"},
         db' \in [Target -> [cls : BOOLEAN, keys : BOOLEAN, rows : Rows]]
  PROVE  Inv'
<1>1. TypeOK'
  BY ExitTypes DEF Inv
<1>2. Owned'
  BY DEF Inv, Owned, Exit, Resuming
<1> QED
  BY <1>1, <1>2 DEF Inv

(* The types, and whose record the manifest is, hold throughout.           *)
THEOREM RecordOwned == Spec => []Inv
<1> USE DumpDirAssumption DEF Inv
<1>1. Init => Inv
  <2> SUFFICES ASSUME Init PROVE Inv
    OBVIOUS
  <2>1. TypeOK
    <3>1. \A t \in Target :
            (IF t \in Production THEN InUse ELSE Empty)
              \in [cls : BOOLEAN, keys : BOOLEAN, rows : Rows]
      BY DEF InUse, Empty, Rows
    <3>2. restart \in BOOLEAN /\ keep \in BOOLEAN
      BY Zenon DEF Init
    <3>3. manifest \in ManifestRecord /\ prev \in [Slot -> ManifestRecord]
      BY NoneType DEF Init
    <3> QED
      BY <3>1, <3>2, <3>3 DEF Init, TypeOK, Steps, Graph
  <2>2. Owned
    BY NoneType DEF Init, Owned, Resuming
  <2> QED
    BY <2>1, <2>2
<1>2. Inv /\ [Next]_vars => Inv'
  <2> SUFFICES ASSUME Inv, [Next]_vars PROVE Inv'
    OBVIOUS
  <2> USE DEF TypeOK, Owned, Resuming, files, proc, Goto, Exit, Write, Steps
  <2>1. ASSUME NEW t \in Target, NEW r \in BOOLEAN, Start(t, r) PROVE Inv'
    BY <2>1 DEF Start
  <2>2. ASSUME NEW t \in Recreatable, Recreate(t) PROVE Inv'
    <3>1. Empty \in [cls : BOOLEAN, keys : BOOLEAN, rows : Rows]
      BY DEF Empty, Rows
    <3> QED
      BY <2>2, <3>1 DEF Recreate
  <2>3. CASE Stop
    BY <2>3, ExitInv DEF Stop
  <2>4. CASE Decide
    <3>1. CASE \E p \in BOOLEAN : Fresh(p)
      BY <2>4, <3>1 DEF Decide, Fresh
    <3>2. CASE Exit("already")
      BY <2>4, <3>2, ExitInv DEF Decide
    <3>3. CASE /\ manifest.exists
               /\ manifest.phase \in DEFINED .. STATS_UPDATED
               /\ SameIdentity
               /\ prior' = manifest.phase
               /\ at' = manifest.phase
               /\ graph' = manifest.graph
               /\ keep' = FALSE
               /\ Goto("open")
               /\ UNCHANGED <<target, restart>>
      <4>1. graph' \in Graph
        BY <3>3 DEF ManifestRecord, None, Graph
      <4>2. UNCHANGED <<db, manifest, prev>> /\ manifest.exists
        BY <2>4, <3>3 DEF Decide
      <4>3. TypeOK'
        <5>1. keep' \in BOOLEAN
          BY <3>3, Zenon
        <5> QED
          BY <3>3, <4>1, <4>2, <5>1
      <4>4. Owned'
        BY <3>3, <4>2 DEF SameIdentity
      <4> QED
        BY <4>3, <4>4
    <3> QED
      BY <2>4, <3>1, <3>2, <3>3 DEF Decide
  <2>5. CASE Open
    <3>1. CASE Exit("not_empty")
      BY <2>5, <3>1, ExitInv DEF Open
    <3>2. CASE ~Exit("not_empty")
      BY <2>5, <3>2 DEF Open
    <3> QED
      BY <3>1, <3>2
  <2>6. CASE Preserve
    <3>1. manifest' = None /\ None \in ManifestRecord /\ ~None.exists
      BY <2>6, NoneType DEF Preserve
    <3>2. prev' \in [Slot -> ManifestRecord]
      BY <2>6 DEF Preserve
    <3> QED
      BY <2>6, <3>1, <3>2 DEF Preserve
  <2>7. ASSUME NEW phase \in 0 .. 7, NEW g \in Graph
        PROVE  /\ Record(phase, g) \in ManifestRecord
               /\ Record(phase, g).exists
               /\ Record(phase, g).name = DbName[target]
               /\ Record(phase, g).phase = phase
    BY DEF Record, ManifestRecord
  <2>8. CASE WriteDiscovered
    BY <2>8, <2>7 DEF WriteDiscovered, Graph
  <2>9. CASE Define
    <3>1. db' \in [Target -> [cls : BOOLEAN, keys : BOOLEAN, rows : Rows]]
      <4>1. db[target] \in [cls : BOOLEAN, keys : BOOLEAN, rows : Rows]
        OBVIOUS
      <4>2. CASE db' = [db EXCEPT ![target].cls = TRUE]
        BY <4>1, <4>2
      <4>3. CASE db' = [db EXCEPT ![target].cls = TRUE,
                                 ![target].keys = HasKeys]
        BY <4>1, <4>3
      <4> QED
        BY <2>9, <4>2, <4>3 DEF Define
    <3>2. CASE Exit("stopped")
      BY <2>9, <3>1, <3>2, ExitInv DEF Define
    <3>3. CASE ~Exit("stopped")
      BY <2>9, <3>1, <3>3 DEF Define
    <3> QED
      BY <3>2, <3>3
  <2>10. CASE WriteDefined
    BY <2>10, <2>7 DEF WriteDefined, Graph
  <2>11. CASE BuildGraph
    BY <2>11 DEF BuildGraph, Graph
  <2>12. CASE WriteGraph
    BY <2>12, <2>7 DEF WriteGraph
  <2>13. CASE Guard
    <3>1. CASE Exit("mismatch")
      BY <2>13, <3>1, ExitInv DEF Guard
    <3>2. CASE /\ Goto(IF at = STRIPPED THEN "truncate" ELSE "work")
               /\ UNCHANGED proc
      BY <2>13, <3>2 DEF Guard
    <3> QED
      BY <2>13, <3>1, <3>2 DEF Guard
  <2>14. CASE Truncate
    <3>1. db' \in [Target -> [cls : BOOLEAN, keys : BOOLEAN, rows : Rows]]
      BY <2>14 DEF Truncate, Rows
    <3> QED
      BY <2>14, <3>1 DEF Truncate
  <2>15. CASE Load
    <3>1. db' \in [Target -> [cls : BOOLEAN, keys : BOOLEAN, rows : Rows]]
      BY <2>15 DEF Load, Rows
    <3>2. CASE Exit("stopped")
      BY <2>15, <3>1, <3>2, ExitInv DEF Load
    <3>3. CASE ~Exit("stopped")
      BY <2>15, <3>1, <3>3 DEF Load
    <3> QED
      BY <3>2, <3>3
  <2>16. CASE Work
    <3>1. db' \in [Target -> [cls : BOOLEAN, keys : BOOLEAN, rows : Rows]]
      <4>1. db[target].keys \in BOOLEAN
        OBVIOUS
      <4>2. at \in 1 .. 6 /\ at # 2
        BY <2>16 DEF Work
      <4>3. CASE graph # "full" \/ at > 3
        <5>1. /\ ~(graph = "full" /\ at + 1 = STRIPPED)
              /\ ~(graph = "full" /\ at + 1 = REBUILT)
          BY <4>2, <4>3
        <5>2. db' = [db EXCEPT ![target].keys = db[target].keys]
          BY <2>16, <5>1, Zenon DEF Work
        <5> QED
          BY <4>1, <5>2
      <4>4. CASE graph = "full" /\ at = 1
        <5>1. db' = [db EXCEPT ![target].keys = FALSE]
          BY <2>16, <4>4 DEF Work
        <5> QED
          BY <5>1
      <4>5. CASE graph = "full" /\ at = 3
        <5>1. db' = [db EXCEPT ![target].keys = HasKeys]
          BY <2>16, <4>5 DEF Work
        <5> QED
          BY <5>1
      <4> QED
        BY <4>2, <4>3, <4>4, <4>5
    <3> QED
      BY <2>16, <3>1 DEF Work
  <2>17. CASE Mark
    BY <2>17, <2>7 DEF Mark
  <2>18. CASE Close
    BY <2>18, ExitInv DEF Close
  <2>19. CASE UNCHANGED vars
    BY <2>19 DEF vars
  <2> QED
    BY <2>1, <2>2, <2>3, <2>4, <2>5, <2>6, <2>8, <2>9, <2>10, <2>11, <2>12,
       <2>13, <2>14, <2>15, <2>16, <2>17, <2>18, <2>19 DEF Next
<1> QED
  BY <1>1, <1>2, PTL DEF Spec
-----------------------------------------------------------------------------
(* Every step of a run keeps the record of an interrupted import and what  *)
(* was moved aside before (RecordKept, import_db.cpp l.804).               *)
THEOREM InterruptedRecordKept == Spec => RecordKept
<1>1. ASSUME Inv, [Next]_vars, vars' # vars
      PROVE  /\ manifest' # manifest /\ manifest.phase > DISCOVERED =>
                  \/ /\ manifest'.name = manifest.name
                     /\ manifest'.phase >= manifest.phase
                  \/ \E i \in Slot : prev'[i] = manifest
             /\ (\E i \in Slot : ~prev[i].exists) =>
                  \A i \in Slot : prev[i].exists => prev'[i] = prev[i]
  <2> USE DEF Inv
  <2>1. CASE UNCHANGED <<manifest, prev>>
    BY <2>1
  <2>2. CASE Preserve
    <3>1. prev' = [prev EXCEPT ![FreeSlot] = manifest]
      BY <2>2 DEF Preserve
    <3>2. FreeSlot \in Slot /\ prev \in [Slot -> ManifestRecord]
      BY <1>1, FreeSlotIsFree DEF TypeOK
    <3>3. prev'[FreeSlot] = manifest
      BY <3>1, <3>2
    <3>4. ASSUME \E i \in Slot : ~prev[i].exists,
                 NEW i \in Slot, prev[i].exists
          PROVE  prev'[i] = prev[i]
      <4>1. ~prev[FreeSlot].exists
        BY <3>2, <3>4, FreeSlotIsFree
      <4> QED
        BY <3>1, <3>2, <3>4, <4>1
    <3> QED
      BY <3>2, <3>3, <3>4
  <2>3. ASSUME NEW to, NEW record, Write(record, to), record.name = DbName[target],
               \/ manifest.phase = DISCOVERED
               \/ /\ manifest.name = DbName[target]
                  /\ record.phase >= manifest.phase
        PROVE  \/ manifest.phase = DISCOVERED
               \/ /\ manifest'.name = manifest.name
                  /\ manifest'.phase >= manifest.phase
    BY <2>3 DEF Write
  <2>4. CASE WriteDiscovered \/ WriteDefined
    <3>1. manifest.phase = DISCOVERED
      BY <1>1, <2>4, NoneType DEF Owned, WriteDiscovered, WriteDefined
    <3>2. prev' = prev
      BY <2>4 DEF WriteDiscovered, WriteDefined, Write
    <3> QED
      BY <3>1, <3>2
  <2>5. CASE WriteGraph
    <3>1. manifest.name = DbName[target] /\ manifest.phase = DEFINED
      BY <1>1, <2>5 DEF Owned, WriteGraph
    <3>2. manifest' = Record(DEFINED, graph) /\ prev' = prev
      BY <2>5 DEF WriteGraph, Write
    <3>3. manifest'.name = DbName[target] /\ manifest'.phase = DEFINED
      BY <3>2 DEF Record
    <3> QED
      BY <3>1, <3>2, <3>3
  <2>6. CASE Mark
    <3>1. manifest.name = DbName[target] /\ manifest.phase = at /\ at \in 1 .. 6
      BY <1>1, <2>6 DEF Owned, Mark
    <3>2. manifest' = Record(at + 1, graph) /\ prev' = prev
      BY <2>6 DEF Mark, Write
    <3>3. manifest'.name = DbName[target] /\ manifest'.phase = at + 1
      BY <3>2 DEF Record
    <3> QED
      BY <3>1, <3>2, <3>3
  <2> QED
    BY <1>1, <2>1, <2>2, <2>4, <2>5, <2>6
       DEF Next, vars, files, Start, Recreate, Stop, Decide, Open, Define,
           BuildGraph, Guard, Truncate, Load, Work, Close
<1>2. Inv /\ [Next]_vars =>
        [/\ manifest' # manifest /\ manifest.phase > DISCOVERED =>
              \/ /\ manifest'.name = manifest.name
                 /\ manifest'.phase >= manifest.phase
              \/ \E i \in Slot : prev'[i] = manifest
         /\ (\E i \in Slot : ~prev[i].exists) =>
              \A i \in Slot : prev[i].exists => prev'[i] = prev[i]]_vars
  BY <1>1
<1> QED
  BY <1>2, RecordOwned, PTL DEF Spec, RecordKept

-----------------------------------------------------------------------------
(* The three conditions under which the targets are kept apart.  Without   *)
(* any one of them they are not: a dump without keys gives the resume      *)
(* guard nothing to look for at STRIPPED; a second empty target of the     *)
(* manifest's name lets a resume build an empty graph; and so does a       *)
(* target that was emptied, after which the manifest with the empty graph  *)
(* matches every database of that name.                                    *)
Guardable ==
  /\ HasKeys
  /\ \A t, u \in Target \ Production : DbName[t] = DbName[u] => t = u
  /\ \A r \in Recreatable, t \in Target : DbName[r] = DbName[t] => r = t

(* What a record of a phase says of the target it names.                   *)
IsEmpty(d) == ~d.cls /\ ~d.keys /\ d.rows = "none"
Says(phase, d) ==
  \/ IsEmpty(d)
  \/ /\ d.cls
     /\ phase = DEFINED => d.rows = "none"
     /\ phase = STRIPPED => ~d.keys
     /\ phase >= LOADED => d.rows = "all"

InUseKept ==
  \A t \in Production : db[t].cls /\ db[t].keys /\ db[t].rows = "own"

FreeRows ==
  \A t \in Target \ Production :
    /\ ~db[t].cls => IsEmpty(db[t])
    /\ db[t].rows # "own" /\ db[t].rows # "wrong"

(* The record holds of the target of its name, and an empty graph in it    *)
(* means a target that was emptied since.                                  *)
RecordTrue ==
  manifest.exists /\ manifest.phase >= DEFINED =>
    /\ \A t \in Target \ Production : manifest.name = DbName[t] =>
         /\ Says(manifest.phase, db[t])
         /\ ~db[t].cls => t \in Recreatable
         /\ manifest.graph = "empty" => ~db[t].cls
    /\ manifest.graph = "empty" =>
         /\ manifest.phase <= STRIPPED
         /\ \E r \in Recreatable : manifest.name = DbName[r]
    /\ manifest.phase > DEFINED => manifest.graph # "unbuilt"

(* A run on a database in use passes the guard only after the load.        *)
RunInUse ==
  target \in Production =>
    /\ pc \notin {"preserve", "write_discovered", "define", "write_defined",
                  "truncate"}
    /\ pc \in {"work", "mark"} => at >= LOADED
    /\ pc \in {"graph", "write_graph"} => Resuming
    /\ graph # "empty"

(* Where the graph of the run comes from.                                  *)
RunGraph ==
  /\ pc \in {"idle", "decide", "preserve", "write_discovered", "define",
             "write_defined"} => graph = "unbuilt"
  /\ pc = "open" /\ ~Resuming => graph = "unbuilt"
  /\ pc \in {"open", "graph"} /\ Resuming => graph = manifest.graph
  /\ pc = "graph" /\ (graph = "unbuilt" \/ ~Resuming) => at = DEFINED
  /\ pc \in {"write_graph", "guard", "truncate", "work", "mark", "close"} =>
       graph # "unbuilt"
  /\ pc \in {"guard", "truncate", "work", "mark"} => graph = manifest.graph
  /\ graph = "empty" => target \in Recreatable /\ ~db[target].cls

(* What a run on any other target has done so far.                         *)
RunTarget ==
  target \notin Production =>
    /\ pc \in {"preserve", "write_discovered", "define"} =>
         IsEmpty(db[target])
    /\ pc = "write_defined" => db[target].cls /\ db[target].rows = "none"
    /\ pc \in {"graph", "write_graph"} /\ ~Resuming => db[target].cls
    /\ pc \in {"work", "truncate"} /\ graph = "full" => db[target].cls
    /\ pc = "work" /\ at = STRIPPED => db[target].rows = "none"
    /\ pc = "mark" /\ graph = "full" =>
         /\ db[target].cls
         /\ at = DEFINED => ~db[target].keys
         /\ at >= STRIPPED => db[target].rows = "all"
    /\ pc = "mark" /\ graph = "empty" => at = DEFINED
    /\ pc = "close" =>
         graph = "full" /\ db[target].cls /\ db[target].rows = "all"

ImportedHere ==
  /\ pc # "idle" => outcome = "none"
  /\ outcome = "imported" /\ target \notin Production =>
       db[target].cls /\ db[target].keys /\ db[target].rows = "all"

Apart ==
  /\ InUseKept
  /\ FreeRows
  /\ RecordTrue
  /\ RunInUse
  /\ RunGraph
  /\ RunTarget
  /\ ImportedHere

(* The parts that a step which ends a run leaves as they are.              *)
LEMMA ExitApart ==
  ASSUME Apart, NEW how, Exit(how), UNCHANGED manifest,
         InUseKept', FreeRows', RecordTrue',
         how = "imported" /\ target \notin Production =>
           db'[target].cls /\ db'[target].keys /\ db'[target].rows = "all"
  PROVE  Apart'
<1>1. /\ pc' = "idle" /\ outcome' = how /\ prior' = 0 /\ at' = 0
      /\ graph' = "unbuilt" /\ target' = target
  BY DEF Exit
<1>2. RunInUse'
  BY <1>1 DEF RunInUse
<1>3. RunGraph'
  BY <1>1 DEF RunGraph
<1>4. RunTarget'
  BY <1>1 DEF RunTarget
<1>5. ImportedHere'
  BY <1>1 DEF ImportedHere
<1> QED
  BY <1>2, <1>3, <1>4, <1>5 DEF Apart

(* The pipeline keeps every target to what the manifest says of it.        *)
LEMMA ApartInductive ==
  ASSUME Guardable, Inv, Inv', Apart, [Next]_vars
  PROVE  Apart'
<1> USE DumpDirAssumption DEF Inv, Guardable, TypeOK, Owned, Apart, Resuming,
        files, proc, Goto, Write
<1>0. /\ \A t \in Target : /\ db[t].cls \in BOOLEAN
                           /\ db[t].keys \in BOOLEAN
                           /\ db[t].rows \in Rows
      /\ target \in Target
      /\ manifest.exists /\ manifest.phase >= DEFINED =>
           manifest.phase \in 1 .. 7
  <2>1. \A t \in Target : db[t] \in [cls : BOOLEAN, keys : BOOLEAN, rows : Rows]
    OBVIOUS
  <2>2. \A t \in Target : /\ db[t].cls \in BOOLEAN
                          /\ db[t].keys \in BOOLEAN
                          /\ db[t].rows \in Rows
    BY <2>1
  <2>3. manifest.phase \in 0 .. 7
    BY DEF ManifestRecord
  <2> QED
    BY <2>2, <2>3
<1>1. ASSUME NEW t \in Target, NEW r \in BOOLEAN, Start(t, r) PROVE Apart'
  <2>1. /\ pc = "idle" /\ pc' = "decide" /\ outcome' = "none"
        /\ UNCHANGED <<db, manifest, prev, prior, at, graph>>
    BY <1>1 DEF Start
  <2>2. graph = "unbuilt"
    BY <2>1 DEF RunGraph
  <2>3. InUseKept' /\ FreeRows' /\ RecordTrue'
    BY <2>1 DEF InUseKept, FreeRows, RecordTrue
  <2> QED
    BY <2>1, <2>2, <2>3 DEF RunInUse, RunGraph, RunTarget, ImportedHere
<1>2. ASSUME NEW t \in Recreatable, Recreate(t) PROVE Apart'
  <2>1. /\ pc = "idle" /\ outcome' = "none" /\ db' = [db EXCEPT ![t] = Empty]
        /\ UNCHANGED <<manifest, prev, pc, target, prior, at, graph>>
    BY <1>2 DEF Recreate
  <2>2. t \in Target \ Production /\ IsEmpty(Empty)
    BY DEF IsEmpty, Empty
  <2>3. /\ db'[t] = Empty
        /\ \A u \in Target \ {t} : db'[u] = db[u]
    BY <2>1, <2>2
  <2>4. InUseKept'
    BY <2>2, <2>3 DEF InUseKept
  <2>5. FreeRows'
    BY <2>2, <2>3 DEF FreeRows, IsEmpty
  <2>6. RecordTrue'
    BY <2>1, <2>2, <2>3 DEF RecordTrue, Says, IsEmpty
  <2>7. graph = "unbuilt"
    BY <2>1 DEF RunGraph
  <2> QED
    BY <2>1, <2>4, <2>5, <2>6, <2>7
       DEF RunInUse, RunGraph, RunTarget, ImportedHere
<1>3. ASSUME NEW how, Exit(how), UNCHANGED <<db, manifest, prev>>,
             how # "imported"
      PROVE  Apart'
  <2>1. InUseKept' /\ FreeRows' /\ RecordTrue'
    BY <1>3 DEF InUseKept, FreeRows, RecordTrue
  <2> QED
    BY <1>3, <2>1, ExitApart
<1>4. CASE Decide
  <2>1. ASSUME NEW p \in BOOLEAN, Fresh(p), UNCHANGED <<db, manifest, prev>>,
               pc = "decide"
        PROVE  Apart'
    <3>1. /\ pc' = "open" /\ graph = "unbuilt" /\ ~Resuming /\ outcome = "none"
          /\ UNCHANGED <<target, prior, at, graph, outcome>>
      BY <2>1 DEF Fresh, RunGraph, ImportedHere
    <3>2. InUseKept' /\ FreeRows' /\ RecordTrue'
      BY <2>1 DEF InUseKept, FreeRows, RecordTrue
    <3> QED
      BY <3>1, <3>2 DEF RunInUse, RunGraph, RunTarget, ImportedHere
  <2>2. CASE /\ manifest.exists
             /\ manifest.phase \in DEFINED .. STATS_UPDATED
             /\ SameIdentity
             /\ prior' = manifest.phase
             /\ at' = manifest.phase
             /\ graph' = manifest.graph
             /\ Goto("open")
             /\ UNCHANGED <<target, restart>>
    <3>1. /\ pc = "decide" /\ pc' = "open" /\ outcome' = outcome
          /\ UNCHANGED <<db, manifest, prev>>
      BY <1>4, <2>2 DEF Decide
    <3>2. manifest.name = DbName[target]
      BY <2>2 DEF SameIdentity
    <3>3. ASSUME manifest.graph = "empty"
          PROVE  target \in Recreatable /\ ~db[target].cls
      <4>1. target \in Recreatable
        BY <1>0, <2>2, <3>2, <3>3 DEF RecordTrue
      <4> QED
        BY <1>0, <2>2, <3>2, <3>3, <4>1 DEF RecordTrue
    <3>4. InUseKept' /\ FreeRows' /\ RecordTrue'
      BY <3>1 DEF InUseKept, FreeRows, RecordTrue
    <3>5. RunInUse' /\ RunTarget' /\ ImportedHere'
      BY <2>2, <3>1, <3>3 DEF RunInUse, RunTarget, ImportedHere
    <3>6. RunGraph'
      BY <2>2, <3>1, <3>3 DEF RunGraph
    <3> QED
      BY <3>4, <3>5, <3>6
  <2> QED
    BY <1>3, <1>4, <2>1, <2>2 DEF Decide
<1>5. CASE Open
  <2>1. CASE ~Resuming /\ ~db[target].cls /\ UNCHANGED proc
             /\ Goto(IF keep THEN "preserve" ELSE "write_discovered")
    <3>1. /\ pc = "open" /\ pc' \in {"preserve", "write_discovered"}
          /\ graph = "unbuilt" /\ outcome = "none"
          /\ UNCHANGED <<db, manifest, prev, target, prior, at, graph, outcome>>
      BY <1>5, <2>1 DEF Open, RunGraph, ImportedHere
    <3>2. target \notin Production /\ IsEmpty(db[target])
      BY <1>0, <2>1 DEF InUseKept, FreeRows
    <3>3. InUseKept' /\ FreeRows' /\ RecordTrue'
      BY <3>1 DEF InUseKept, FreeRows, RecordTrue
    <3> QED
      BY <3>1, <3>2, <3>3 DEF RunInUse, RunGraph, RunTarget, ImportedHere
  <2>2. CASE Resuming /\ UNCHANGED proc /\ Goto("graph")
    <3>1. /\ pc = "open" /\ pc' = "graph" /\ outcome = "none"
          /\ UNCHANGED <<db, manifest, prev, target, prior, at, graph, outcome>>
      BY <1>5, <2>2 DEF Open, ImportedHere
    <3>2. graph = manifest.graph /\ manifest.exists /\ manifest.phase = at
          /\ at \in DEFINED .. STATS_UPDATED
      BY <2>2, <3>1 DEF RunGraph
    <3>3. graph = "unbuilt" => at = DEFINED
      BY <3>2 DEF RecordTrue
    <3>4. InUseKept' /\ FreeRows' /\ RecordTrue'
      BY <3>1 DEF InUseKept, FreeRows, RecordTrue
    <3> QED
      BY <2>2, <3>1, <3>2, <3>3, <3>4
         DEF RunInUse, RunGraph, RunTarget, ImportedHere
  <2> QED
    BY <1>3, <1>5, <2>1, <2>2 DEF Open
<1>6. CASE Preserve
  <2>1. /\ pc = "preserve" /\ pc' = "write_discovered" /\ manifest' = None
        /\ UNCHANGED <<db, target, prior, at, graph, outcome>>
    BY <1>6 DEF Preserve
  <2>2. InUseKept' /\ FreeRows' /\ RecordTrue'
    BY <2>1, NoneType DEF InUseKept, FreeRows, RecordTrue
  <2> QED
    BY <2>1, <2>2 DEF RunInUse, RunGraph, RunTarget, ImportedHere
<1>7. ASSUME NEW phase, NEW g
      PROVE  /\ Record(phase, g).exists
             /\ Record(phase, g).name = DbName[target]
             /\ Record(phase, g).phase = phase
             /\ Record(phase, g).graph = g
  BY DEF Record
<1>8. CASE WriteDiscovered
  <2>1. /\ pc = "write_discovered" /\ pc' = "define" /\ manifest'.phase = 0
        /\ UNCHANGED <<db, target, prior, at, graph, outcome>>
    BY <1>7, <1>8 DEF WriteDiscovered
  <2>2. InUseKept' /\ FreeRows' /\ RecordTrue'
    BY <2>1 DEF InUseKept, FreeRows, RecordTrue
  <2> QED
    BY <2>1, <2>2 DEF RunInUse, RunGraph, RunTarget, ImportedHere
<1>9. CASE Define
  <2>1. /\ pc = "define" /\ target \notin Production /\ IsEmpty(db[target])
        /\ manifest.phase = 0 /\ outcome = "none" /\ graph = "unbuilt"
        /\ UNCHANGED <<manifest, prev>>
    BY <1>9 DEF Define, RunInUse, RunTarget, ImportedHere, RunGraph
  <2>2. /\ \A t \in Target \ {target} : db'[t] = db[t]
        /\ db'[target].cls /\ db'[target].rows = "none"
    BY <1>0, <1>9, <2>1 DEF Define, IsEmpty
  <2>3. InUseKept' /\ FreeRows' /\ RecordTrue'
    <3>1. InUseKept'
      BY <2>1, <2>2 DEF InUseKept
    <3>2. FreeRows'
      BY <2>1, <2>2 DEF FreeRows
    <3>3. RecordTrue'
      BY <2>1 DEF RecordTrue
    <3> QED
      BY <3>1, <3>2, <3>3
  <2>4. CASE Exit("stopped")
    BY <2>1, <2>3, <2>4, ExitApart
  <2>5. CASE Goto("write_defined") /\ UNCHANGED proc
    BY <2>1, <2>2, <2>3, <2>5 DEF RunInUse, RunGraph, RunTarget, ImportedHere
  <2> QED
    BY <1>9, <2>4, <2>5 DEF Define
<1>10. CASE WriteDefined
  <2>1. /\ pc = "write_defined" /\ pc' = "graph" /\ outcome = "none"
        /\ graph = "unbuilt" /\ target \notin Production
        /\ db[target].cls /\ db[target].rows = "none"
        /\ UNCHANGED <<db, target, prior, graph, outcome>>
        /\ at' = DEFINED
    BY <1>10 DEF WriteDefined, RunGraph, RunInUse, RunTarget, ImportedHere
  <2>2. /\ manifest'.exists /\ manifest'.name = DbName[target]
        /\ manifest'.phase = DEFINED /\ manifest'.graph = "unbuilt"
    BY <1>7, <1>10 DEF WriteDefined
  <2>3. ASSUME NEW t \in Target \ Production, DbName[target] = DbName[t]
        PROVE  t = target
    BY <1>0, <2>1, <2>3
  <2>4. RecordTrue'
    BY <2>1, <2>2, <2>3 DEF RecordTrue, Says
  <2>5. InUseKept' /\ FreeRows'
    BY <2>1 DEF InUseKept, FreeRows
  <2> QED
    BY <2>1, <2>2, <2>4, <2>5 DEF RunInUse, RunGraph, RunTarget, ImportedHere
<1>11. CASE BuildGraph
  <2>1. /\ pc = "graph" /\ pc' = IF at = DEFINED THEN "write_graph" ELSE "guard"
        /\ graph' = IF graph # "unbuilt" THEN graph
                    ELSE IF db[target].cls THEN "full" ELSE "empty"
        /\ UNCHANGED <<db, manifest, prev, target, prior, at, outcome>>
        /\ outcome = "none"
    BY <1>11 DEF BuildGraph, ImportedHere
  <2>2. /\ manifest.exists /\ manifest.name = DbName[target]
        /\ manifest.phase = at /\ at \in DEFINED .. STATS_UPDATED
    BY <2>1
  <2>3. ~db[target].cls => target \in Recreatable
    BY <1>0, <2>2 DEF RecordTrue, InUseKept
  <2>4. target \in Production => db[target].cls
    BY DEF InUseKept
  <2>5. InUseKept' /\ FreeRows' /\ RecordTrue'
    BY <2>1 DEF InUseKept, FreeRows, RecordTrue
  <2>6. RunInUse' /\ RunTarget' /\ ImportedHere'
    BY <2>1, <2>4 DEF RunInUse, RunTarget, ImportedHere
  <2>7. RunGraph'
    <3>1. graph = "unbuilt" => at = DEFINED
      BY <2>1 DEF RunGraph
    <3>2. CASE graph = "unbuilt"
      BY <2>1, <2>3, <3>1, <3>2 DEF RunGraph
    <3>3. CASE graph # "unbuilt"
      <4>1. at # DEFINED => Resuming
        BY <2>1 DEF RunGraph
      <4> QED
        BY <2>1, <3>3, <4>1 DEF RunGraph
    <3> QED
      BY <3>2, <3>3
  <2> QED
    BY <2>5, <2>6, <2>7
<1>12. CASE WriteGraph
  <2>1. /\ pc = "write_graph" /\ at = DEFINED /\ outcome = "none"
        /\ pc' = IF Resuming THEN "guard" ELSE "work"
        /\ UNCHANGED <<db, target, prior, at, graph, outcome>>
        /\ graph # "unbuilt"
    BY <1>12 DEF WriteGraph, ImportedHere, RunGraph
  <2>2. /\ manifest'.exists /\ manifest'.name = DbName[target]
        /\ manifest'.phase = DEFINED /\ manifest'.graph = graph
    BY <1>7, <1>12 DEF WriteGraph
  <2>3. /\ manifest.exists /\ manifest.name = DbName[target]
        /\ manifest.phase = DEFINED
    BY <2>1
  <2>4. graph = "empty" => target \in Recreatable /\ ~db[target].cls
    BY DEF RunGraph
  <2>5. RecordTrue'
    <3>1. ASSUME NEW t \in Target \ Production, DbName[target] = DbName[t]
          PROVE  /\ Says(DEFINED, db[t])
                 /\ ~db[t].cls => t \in Recreatable
                 /\ graph = "empty" => ~db[t].cls
      <4>1. graph = "empty" => t = target
        BY <1>0, <2>4, <3>1
      <4> QED
        BY <2>3, <2>4, <3>1, <4>1 DEF RecordTrue
    <3> QED
      BY <2>1, <2>2, <2>4, <3>1 DEF RecordTrue
  <2>6. InUseKept' /\ FreeRows'
    BY <2>1 DEF InUseKept, FreeRows
  <2>7. RunInUse' /\ RunTarget' /\ ImportedHere'
    BY <2>1 DEF RunInUse, RunTarget, ImportedHere
  <2>8. RunGraph'
    BY <2>1, <2>2, <2>4 DEF RunGraph
  <2> QED
    BY <2>5, <2>6, <2>7, <2>8
<1>13. CASE Guard
  <2>1. CASE TargetMatches /\ UNCHANGED proc
             /\ Goto(IF at = STRIPPED THEN "truncate" ELSE "work")
    <3>1. /\ pc = "guard" /\ outcome = "none"
          /\ pc' = IF at = STRIPPED THEN "truncate" ELSE "work"
          /\ UNCHANGED <<db, manifest, prev, target, prior, at, graph, outcome>>
          /\ at \in DEFINED .. STATS_UPDATED /\ graph # "unbuilt"
      BY <1>13, <2>1 DEF Guard, ImportedHere, RunGraph
    <3>2. target \in Production => graph = "full" /\ at >= LOADED
      <4>1. target \in Production => graph = "full"
        BY <3>1 DEF RunInUse, Graph
      <4> QED
        BY <2>1, <3>1, <4>1 DEF TargetMatches, InUseKept
    <3>3. graph = "full" => db[target].cls
      BY <2>1 DEF TargetMatches
    <3>4. InUseKept' /\ FreeRows' /\ RecordTrue'
      BY <3>1 DEF InUseKept, FreeRows, RecordTrue
    <3> QED
      BY <3>1, <3>2, <3>3, <3>4
         DEF RunInUse, RunGraph, RunTarget, ImportedHere
  <2> QED
    BY <1>3, <1>13, <2>1 DEF Guard
<1>14. CASE Truncate
  <2>1. /\ pc = "truncate" /\ pc' = "work" /\ outcome = "none"
        /\ target \notin Production /\ at = STRIPPED
        /\ UNCHANGED <<manifest, prev, target, prior, at, graph, outcome>>
        /\ graph = "full" => db[target].cls
        /\ graph = "full" \/ graph = "empty"
    BY <1>14 DEF Truncate, RunInUse, RunTarget, ImportedHere, RunGraph, Graph
  <2>2. /\ \A t \in Target \ {target} : db'[t] = db[t]
        /\ db'[target].cls = db[target].cls
        /\ db'[target].keys = db[target].keys
        /\ db'[target].rows = "none"
    <3>1. CASE graph = "full"
      BY <1>0, <1>14, <3>1 DEF Truncate
    <3>2. CASE graph = "empty"
      BY <1>0, <1>14, <2>1, <3>2 DEF Truncate, RunGraph, FreeRows, IsEmpty
    <3> QED
      BY <2>1, <3>1, <3>2
  <2>3. InUseKept'
    BY <2>1, <2>2 DEF InUseKept
  <2>4. FreeRows'
    BY <2>1, <2>2 DEF FreeRows, IsEmpty
  <2>5. RecordTrue'
    <3>1. manifest.phase = STRIPPED
      BY <2>1
    <3> QED
      BY <2>1, <2>2, <3>1 DEF RecordTrue, Says, IsEmpty
  <2> QED
    BY <2>1, <2>2, <2>3, <2>4, <2>5
       DEF RunInUse, RunGraph, RunTarget, ImportedHere
<1>15. CASE Load
  <2>1. /\ pc = "work" /\ outcome = "none" /\ at = STRIPPED
        /\ target \notin Production /\ manifest.phase = STRIPPED
        /\ manifest.exists /\ manifest.name = DbName[target]
        /\ UNCHANGED <<manifest, prev>>
        /\ db[target].rows = "none" /\ graph # "unbuilt"
    BY <1>15 DEF Load, RunInUse, RunTarget, ImportedHere, RunGraph
  <2>2. CASE db' = db /\ Exit("stopped")
    BY <1>3, <2>1, <2>2
  <2>3. CASE db[target].cls
    <3>1. /\ \A t \in Target \ {target} : db'[t] = db[t]
          /\ db'[target].cls
          /\ db'[target].keys = db[target].keys
          /\ db'[target].rows \in {"some", "all"}
      BY <1>0, <1>15, <2>1, <2>3 DEF Load
    <3>2. InUseKept'
      BY <2>1, <3>1 DEF InUseKept
    <3>3. FreeRows'
      BY <2>1, <3>1 DEF FreeRows, IsEmpty
    <3>4. graph = "full"
      BY <2>1, <2>3 DEF RunGraph, Graph
    <3>5. ~db[target].keys
      BY <1>0, <2>1, <2>3 DEF RecordTrue, Says, IsEmpty
    <3>6. RecordTrue'
      <4>1. manifest.graph # "empty"
        BY <2>1, <3>4 DEF RunGraph
      <4> QED
        BY <2>1, <2>3, <3>1, <3>5, <4>1 DEF RecordTrue, Says, IsEmpty
    <3>7. CASE Exit("stopped")
      BY <2>1, <3>2, <3>3, <3>6, <3>7, ExitApart
    <3>8. CASE /\ db' = [db EXCEPT ![target].rows = "all"]
               /\ Goto("mark")
               /\ UNCHANGED proc
      <4>1. db'[target].rows = "all"
        BY <1>0, <3>8
      <4> QED
        BY <2>1, <3>1, <3>2, <3>3, <3>4, <3>6, <3>8, <4>1
           DEF RunInUse, RunGraph, RunTarget, ImportedHere
    <3> QED
      BY <1>15, <2>1, <2>3, <3>7, <3>8 DEF Load
  <2> QED
    BY <1>15, <2>2, <2>3 DEF Load
<1>16. CASE Work
  <2>1. /\ pc = "work" /\ pc' = "mark" /\ outcome = "none"
        /\ at \in {1, 3, 4, 5, 6} /\ manifest.phase = at
        /\ manifest.exists /\ manifest.name = DbName[target]
        /\ manifest.graph = graph /\ graph \in {"full", "empty"}
        /\ target \in Production => graph = "full" /\ at >= LOADED
        /\ UNCHANGED <<manifest, prev, target, prior, at, graph, outcome>>
    BY <1>16 DEF Work, RunInUse, ImportedHere, RunGraph, Graph
  <2>2. /\ \A t \in Target \ {target} : db'[t] = db[t]
        /\ db'[target].cls = db[target].cls
        /\ db'[target].rows = db[target].rows
    BY <1>0, <1>16 DEF Work
  <2>3. db'[target].keys = IF graph = "full" /\ at = DEFINED THEN FALSE
                           ELSE IF graph = "full" /\ at = LOADED THEN TRUE
                           ELSE db[target].keys
    <3>1. CASE graph = "full" /\ at = DEFINED
      BY <1>0, <1>16, <3>1 DEF Work
    <3>2. CASE graph = "full" /\ at = LOADED
      BY <1>0, <1>16, <3>2 DEF Work
    <3>3. CASE graph # "full" \/ at \notin {DEFINED, LOADED}
      <4>1. /\ ~(graph = "full" /\ at + 1 = STRIPPED)
            /\ ~(graph = "full" /\ at + 1 = REBUILT)
        BY <2>1, <3>3
      <4>2. db' = [db EXCEPT ![target].keys = db[target].keys]
        BY <1>16, <4>1, Zenon DEF Work
      <4> QED
        BY <1>0, <3>3, <4>2
    <3> QED
      BY <3>1, <3>2, <3>3
  <2>4. target \notin Production =>
          /\ graph = "empty" => at = DEFINED /\ ~db[target].cls
          /\ graph = "full" => db[target].cls
          /\ at >= LOADED => db[target].rows = "all"
    <3>1. graph = "empty" => at = DEFINED /\ ~db[target].cls
      BY <2>1 DEF RecordTrue, RunGraph
    <3>2. target \notin Production /\ graph = "full" => db[target].cls
      BY <2>1 DEF RunTarget
    <3>3. target \notin Production => Says(at, db[target])
      BY <1>0, <2>1 DEF RecordTrue
    <3> QED
      BY <2>1, <3>1, <3>2, <3>3 DEF Says, IsEmpty
  <2>5. InUseKept'
    <3>1. target \in Production => db'[target].keys
      <4>1. target \in Production => db[target].keys /\ graph = "full" /\ at >= LOADED
        BY <2>1 DEF InUseKept
      <4>2. CASE at = LOADED
        BY <2>3, <4>1, <4>2
      <4>3. CASE at # LOADED
        <5>1. target \in Production => at # DEFINED
          BY <4>1
        <5>2. target \in Production => db'[target].keys = db[target].keys
          BY <2>3, <4>3, <5>1
        <5> QED
          BY <4>1, <5>2
      <4> QED
        BY <4>2, <4>3
    <3> QED
      BY <2>2, <3>1 DEF InUseKept
  <2>6. FreeRows'
    <3>1. target \notin Production /\ ~db[target].cls =>
            db'[target].keys = db[target].keys
      BY <2>1, <2>3, <2>4
    <3> QED
      BY <2>2, <3>1 DEF FreeRows, IsEmpty
  <2>7. RecordTrue'
    <3>1. ASSUME NEW t \in Target \ Production, DbName[target] = DbName[t]
          PROVE  Says(at, db'[t])
      <4>1. CASE t = target
        <5>1. Says(at, db[target])
          BY <1>0, <2>1, <3>1, <4>1 DEF RecordTrue
        <5>2. CASE graph = "full"
          <6>1. db'[target].cls
            BY <2>2, <2>4, <3>1, <4>1, <5>2
          <6>2. at = DEFINED => db'[target].rows = "none"
            BY <2>2, <5>1 DEF Says, IsEmpty
          <6>3. at >= LOADED => db'[target].rows = "all"
            BY <2>2, <2>4, <3>1, <4>1
          <6> QED
            BY <2>1, <4>1, <6>1, <6>2, <6>3 DEF Says
        <5>3. CASE graph = "empty"
          <6>1. db'[target].keys = db[target].keys
            BY <2>3, <5>3
          <6> QED
            BY <2>2, <4>1, <5>1, <6>1 DEF Says, IsEmpty
        <5> QED
          BY <2>1, <5>2, <5>3
      <4>2. CASE t # target
        BY <2>1, <2>2, <3>1, <4>2 DEF RecordTrue
      <4> QED
        BY <4>1, <4>2
    <3>2. \A t \in Target : db'[t].cls = db[t].cls
      BY <2>2
    <3> QED
      BY <2>1, <3>1, <3>2 DEF RecordTrue
  <2>8. RunInUse' /\ RunGraph' /\ ImportedHere'
    BY <2>1, <2>2 DEF RunInUse, RunGraph, ImportedHere
  <2>9. RunTarget'
    BY <2>1, <2>2, <2>3, <2>4 DEF RunTarget
  <2> QED
    BY <2>5, <2>6, <2>7, <2>8, <2>9
<1>17. CASE Mark
  <2>1. /\ pc = "mark" /\ outcome = "none" /\ at \in 1 .. 6
        /\ pc' = IF at + 1 = DONE THEN "close" ELSE "work"
        /\ at' = at + 1 /\ manifest.phase = at
        /\ manifest.exists /\ manifest.name = DbName[target]
        /\ manifest.graph = graph /\ graph \in {"full", "empty"}
        /\ target \in Production => graph = "full" /\ at >= LOADED
        /\ UNCHANGED <<db, target, prior, graph, outcome>>
    BY <1>17 DEF Mark, RunInUse, ImportedHere, RunGraph, Graph
  <2>2. /\ manifest'.exists /\ manifest'.name = DbName[target]
        /\ manifest'.phase = at + 1 /\ manifest'.graph = graph
    BY <1>7, <1>17 DEF Mark
  <2>3. target \notin Production =>
          /\ graph = "empty" => at = DEFINED
          /\ graph = "full" =>
               /\ db[target].cls
               /\ at = DEFINED => ~db[target].keys
               /\ at >= STRIPPED => db[target].rows = "all"
    BY <2>1 DEF RunTarget
  <2>4. graph = "empty" => target \in Recreatable /\ ~db[target].cls
    BY DEF RunGraph
  <2>5. target \notin Production => Says(at, db[target])
    BY <1>0, <2>1 DEF RecordTrue
  <2>6. RecordTrue'
    <3>1. ASSUME NEW t \in Target \ Production, DbName[target] = DbName[t]
          PROVE  /\ Says(at + 1, db[t])
                 /\ ~db[t].cls => t \in Recreatable
                 /\ graph = "empty" => ~db[t].cls
      <4>1. /\ ~db[t].cls => t \in Recreatable
            /\ graph = "empty" => ~db[t].cls
            /\ Says(at, db[t])
        BY <2>1, <3>1 DEF RecordTrue
      <4>2. CASE target \in Production
        BY <2>1, <4>1, <4>2 DEF Says
      <4>3. CASE target \notin Production
        <5>1. t = target
          BY <1>0, <3>1, <4>3
        <5>2. CASE graph = "empty"
          BY <1>0, <2>4, <4>1, <5>1, <5>2 DEF Says, FreeRows
        <5>3. CASE graph = "full"
          BY <2>1, <2>3, <4>3, <5>1, <5>3 DEF Says
        <5> QED
          BY <2>1, <4>1, <5>2, <5>3
      <4> QED
        BY <4>2, <4>3
    <3>2. graph = "empty" => at + 1 <= STRIPPED
      BY <2>1, <2>3, <2>4
    <3> QED
      BY <2>1, <2>2, <2>4, <3>1, <3>2 DEF RecordTrue
  <2>7. InUseKept' /\ FreeRows'
    BY <2>1 DEF InUseKept, FreeRows
  <2>8. RunInUse' /\ ImportedHere'
    BY <2>1 DEF RunInUse, ImportedHere
  <2>9. RunGraph'
    BY <2>1, <2>2, <2>4 DEF RunGraph
  <2>10. RunTarget'
    <3>1. target \notin Production /\ at = DEFINED => db[target].rows = "none"
      BY <2>1, <2>5 DEF Says, IsEmpty
    <3>2. target \notin Production /\ at >= STRIPPED =>
            graph = "full" /\ db[target].cls /\ db[target].rows = "all"
      BY <2>1, <2>3
    <3> QED
      BY <2>1, <2>3, <3>1, <3>2 DEF RunTarget
  <2> QED
    BY <2>6, <2>7, <2>8, <2>9, <2>10
<1>18. CASE Close
  <2>1. /\ pc = "close" /\ UNCHANGED <<db, manifest, prev>>
        /\ target \notin Production =>
             graph = "full" /\ db[target].cls /\ db[target].rows = "all"
    BY <1>18 DEF Close, RunTarget
  <2>2. InUseKept' /\ FreeRows' /\ RecordTrue'
    BY <2>1 DEF InUseKept, FreeRows, RecordTrue
  <2>3. CASE graph = "full" /\ HasKeys /\ ~db[target].keys
    BY <1>3, <1>18, <2>1, <2>3 DEF Close
  <2>4. CASE ~(graph = "full" /\ HasKeys /\ ~db[target].keys)
    <3>1. Exit("imported")
      BY <1>18, <2>4 DEF Close
    <3>2. target \notin Production =>
            db'[target].cls /\ db'[target].keys /\ db'[target].rows = "all"
      BY <1>0, <2>1, <2>4
    <3> QED
      BY <2>1, <2>2, <3>1, <3>2, ExitApart
  <2> QED
    BY <2>3, <2>4
<1>19. CASE UNCHANGED vars
  BY <1>19 DEF vars, InUseKept, FreeRows, RecordTrue, RunInUse, RunGraph,
               RunTarget, ImportedHere
<1> QED
  BY <1>1, <1>2, <1>3, <1>4, <1>5, <1>6, <1>8, <1>9, <1>10, <1>11, <1>12,
     <1>13, <1>14, <1>15, <1>16, <1>17, <1>18, <1>19 DEF Next, Stop

(* Under the three conditions, the targets are kept apart throughout.      *)
THEOREM TargetsApart ==
  ASSUME Guardable
  PROVE  Spec => [](Inv /\ Apart)
<1>1. Init => Apart
  <2> SUFFICES ASSUME Init PROVE Apart
    OBVIOUS
  <2>1. \A t \in Target : db[t] = IF t \in Production THEN InUse ELSE Empty
    BY DEF Init
  <2>2. InUseKept
    <3>1. InUse.cls /\ InUse.keys = HasKeys /\ InUse.rows = "own"
      BY DEF InUse
    <3>2. \A t \in Production : db[t] = InUse
      BY <2>1, DumpDirAssumption
    <3> QED
      BY <3>1, <3>2 DEF InUseKept, Guardable
  <2>3. FreeRows
    <3>1. IsEmpty(Empty)
      BY DEF Empty, IsEmpty
    <3>2. \A t \in Target \ Production : db[t] = Empty
      BY <2>1
    <3> QED
      BY <3>1, <3>2 DEF FreeRows, IsEmpty
  <2>4. RecordTrue
    BY NoneType DEF Init, RecordTrue
  <2>5. RunInUse /\ RunGraph /\ RunTarget /\ ImportedHere
    BY DEF Init, RunInUse, RunGraph, RunTarget, ImportedHere, Resuming
  <2> QED
    BY <2>2, <2>3, <2>4, <2>5 DEF Apart
<1>2. Inv /\ Inv' /\ Apart /\ [Next]_vars => Apart'
  BY ApartInductive
<1> QED
  BY <1>1, <1>2, RecordOwned, PTL DEF Spec

(* A database in use is left alone, also where a manifest in a shared      *)
(* directory names it (ProductionUntouched, import_db.cpp l.988).          *)
THEOREM ProductionSafe ==
  ASSUME Guardable
  PROVE  Spec => []ProductionUntouched
<1>1. Inv /\ Apart => ProductionUntouched
  BY DumpDirAssumption
     DEF Inv, TypeOK, Apart, InUseKept, ProductionUntouched, InUse, Guardable
<1> QED
  BY <1>1, TargetsApart, PTL

(* The dump's rows are in a target once, and alone (RowsNotMixed: the      *)
(* guard and truncate_classes, import_db.cpp l.988 and l.683).             *)
THEOREM RowsSafe ==
  ASSUME Guardable
  PROVE  Spec => []RowsNotMixed
<1>1. Apart => RowsNotMixed
  BY DumpDirAssumption DEF Apart, InUseKept, FreeRows, RowsNotMixed
<1> QED
  BY <1>1, TargetsApart, PTL

(* Exit 0 means the dump is in the database the run was pointed at         *)
(* (ImportedThisTarget, import_db.cpp l.983).                              *)
THEOREM ImportedSafe ==
  ASSUME Guardable
  PROVE  Spec => []ImportedThisTarget
<1>1. Inv /\ Apart => ImportedThisTarget
  BY DumpDirAssumption
     DEF Inv, TypeOK, Apart, ImportedHere, ImportedThisTarget, Imported,
         Guardable
<1> QED
  BY <1>1, TargetsApart, PTL
=============================================================================
