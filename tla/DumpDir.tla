-------------------------------- MODULE DumpDir --------------------------------
(***************************************************************************)
(* One dump directory, several databases.  The manifest lives beside the   *)
(* dump, so the runs of importdb on every target read and replace the same *)
(* file: a run resumes, starts over, or answers "already imported" from a  *)
(* record that may be about another database.  This module models what     *)
(* keeps them apart (the [set] identity, check_target_empty,               *)
(* verify_resume_target, preserve_manifest) over the pipeline of ImportDB  *)
(* cut down to what those tell apart: are the dump's classes there, are    *)
(* their keys, and whose rows are they.                                    *)
(*                                                                         *)
(* Simplifications. One run at a time, and a dump whose import succeeds    *)
(* (no pending keys, no withheld edges). The commit that ends define() is  *)
(* taken to succeed: its result is not looked at (import_define.cpp        *)
(* l.665), and what a refused one leads to is in ImportDB. A phase's work  *)
(* and its marker are two steps; the three writes of the DEFINED record    *)
(* are two.                                                                *)
(***************************************************************************)
EXTENDS Naturals

CONSTANTS
  Target,       \* the databases importdb may be pointed at
  DbName,       \* [Target -> names]: what the manifest's [set] records
  Production,   \* targets in use: the dump's schema with rows of their own
  Recreatable,  \* targets the operator may drop and create again
  HasKeys,      \* does the dump have a PK, UNIQUE or FK at all
  LastPrev      \* the last suffix preserve_manifest tries (99)

ASSUME DumpDirAssumption ==
  /\ Production \subseteq Target
  /\ Recreatable \subseteq Target \ Production
  /\ HasKeys \in BOOLEAN
  /\ LastPrev \in Nat

VARIABLES
  db,        \* what each target durably holds
  manifest,  \* importdb.manifest
  prev,      \* importdb.manifest.prev, .prev.1, ..., by suffix
  pc,        \* the next step of the run, "idle" when none is running
  target,    \* the database it was pointed at
  restart,   \* --restart
  keep,      \* preserve_prior
  prior,     \* prior.reached, DISCOVERED if the run does not resume
  at,        \* the last phase this run has recorded or resumed from
  graph,     \* the nodes of its graph: not built, none, or the dump's
  outcome    \* how the last run ended

files == <<manifest, prev>>
proc == <<target, restart, keep, prior, at, graph>>
vars == <<db, files, pc, proc, outcome>>

DISCOVERED    == 0
DEFINED       == 1
STRIPPED      == 2
LOADED        == 3
REBUILT       == 4
STATS_UPDATED == 6
DONE          == 7

Slot == 0 .. LastPrev

Graph == {"unbuilt", "empty", "full"}
Rows == {"none", "some", "all", "own", "wrong"}

Empty == [cls |-> FALSE, keys |-> FALSE, rows |-> "none"]
InUse == [cls |-> TRUE, keys |-> HasKeys, rows |-> "own"]
Imported == [cls |-> TRUE, keys |-> HasKeys, rows |-> "all"]

(* A record is about a database name.  The absent file is the record None. *)
None == [exists |-> FALSE, name |-> "", phase |-> DISCOVERED,
         graph |-> "unbuilt"]
Record(phase, g) ==
  [exists |-> TRUE, name |-> DbName[target], phase |-> phase, graph |-> g]

Resuming == prior > DISCOVERED

-----------------------------------------------------------------------------
Init ==
  /\ db = [t \in Target |-> IF t \in Production THEN InUse ELSE Empty]
  /\ manifest = None
  /\ prev = [i \in Slot |-> None]
  /\ pc = "idle"
  /\ target \in Target
  /\ restart = FALSE
  /\ keep = FALSE
  /\ prior = DISCOVERED
  /\ at = DISCOVERED
  /\ graph = "unbuilt"
  /\ outcome = "none"

Exit(how) ==
  /\ pc' = "idle"
  /\ outcome' = how
  /\ keep' = FALSE
  /\ prior' = DISCOVERED
  /\ at' = DISCOVERED
  /\ graph' = "unbuilt"
  /\ UNCHANGED <<target, restart>>

Goto(step) == pc' = step /\ UNCHANGED outcome

Start(t, r) ==
  /\ pc = "idle"
  /\ target' = t
  /\ restart' = r
  /\ pc' = "decide"
  /\ outcome' = "none"
  /\ UNCHANGED <<db, files, keep, prior, at, graph>>

(* The operator drops a target and creates it again, empty.                *)
Recreate(t) ==
  /\ pc = "idle"
  /\ db' = [db EXCEPT ![t] = Empty]
  /\ outcome' = "none"
  /\ UNCHANGED <<files, pc, proc>>

(* A kill, or an error that ends the run, at any step.                     *)
Stop ==
  /\ pc # "idle"
  /\ Exit("stopped")
  /\ UNCHANGED <<db, files>>

-----------------------------------------------------------------------------
Fresh(preserve) ==
  /\ keep' = preserve
  /\ Goto("open")
  /\ UNCHANGED <<target, restart, prior, at, graph>>

(* Mutant: an interrupted import is resumed whatever target it names.      *)
MutSameIdentity == TRUE

(* found.database, compared with the name the run was given.               *)
SameIdentity == manifest.name = DbName[target]

(* The order of the branches matters: DONE is answered before the identity *)
(* is looked at.                                                           *)
Decide ==
  /\ pc = "decide"
  /\ UNCHANGED <<db, files>>
  /\ \/ /\ ~manifest.exists
        /\ Fresh(FALSE)
     \/ /\ manifest.exists /\ restart
        /\ Fresh(TRUE)
     \/ /\ manifest.exists /\ ~restart
        /\ manifest.phase = DONE
        /\ Exit("already")
     \/ /\ manifest.exists /\ ~restart
        /\ manifest.phase < DONE
        /\ ~SameIdentity \/ manifest.phase = DISCOVERED
        /\ Fresh(TRUE)
     \/ /\ manifest.exists /\ ~restart
        /\ manifest.phase \in DEFINED .. STATS_UPDATED
        /\ SameIdentity
        /\ prior' = manifest.phase
        /\ at' = manifest.phase
        /\ graph' = manifest.graph
        /\ keep' = FALSE
        /\ Goto("open")
        /\ UNCHANGED <<target, restart>>

(* session_open and check_target_empty.                                    *)
Open ==
  /\ pc = "open"
  /\ UNCHANGED <<db, files>>
  /\ \/ /\ ~Resuming /\ db[target].cls
        /\ Exit("not_empty")
     \/ /\ Resuming \/ ~db[target].cls
        /\ Goto(IF Resuming THEN "graph"
                ELSE IF keep THEN "preserve" ELSE "write_discovered")
        /\ UNCHANGED proc

(* Mutant: always renames to the first name, .prev.                        *)
MutFreeSlot == 0

(* The name preserve_manifest settles on: the first one not taken, and the *)
(* last one without looking.                                               *)
FreeSlot ==
  CHOOSE i \in Slot :
    /\ i = LastPrev \/ ~prev[i].exists
    /\ \A j \in 0 .. (i - 1) : prev[j].exists

Preserve ==
  /\ pc = "preserve"
  /\ prev' = [prev EXCEPT ![FreeSlot] = manifest]
  /\ manifest' = None
  /\ Goto("write_discovered")
  /\ UNCHANGED <<db, proc>>

Write(record, to) ==
  /\ manifest' = record
  /\ Goto(to)
  /\ UNCHANGED <<db, prev>>

WriteDiscovered ==
  /\ pc = "write_discovered"
  /\ Write(Record(DISCOVERED, "unbuilt"), "define")
  /\ UNCHANGED proc

(* define(), whose schema file may commit before it is through. Its own    *)
(* commit, the last, is not refused here.                                  *)
Define ==
  /\ pc = "define"
  /\ \/ /\ db' = [db EXCEPT ![target].cls = TRUE]
        /\ Exit("stopped")
     \/ /\ db' = [db EXCEPT ![target].cls = TRUE, ![target].keys = HasKeys]
        /\ Goto("write_defined")
        /\ UNCHANGED proc
  /\ UNCHANGED files

WriteDefined ==
  /\ pc = "write_defined"
  /\ Write(Record(DEFINED, "unbuilt"), "graph")
  /\ at' = DEFINED
  /\ UNCHANGED <<target, restart, keep, prior, graph>>

(* The graph comes from the manifest, or from whatever catalog is there.   *)
BuildGraph ==
  /\ pc = "graph"
  /\ graph' = IF graph # "unbuilt" THEN graph
              ELSE IF db[target].cls THEN "full" ELSE "empty"
  /\ Goto(IF at = DEFINED THEN "write_graph" ELSE "guard")
  /\ UNCHANGED <<db, files, target, restart, keep, prior, at>>

WriteGraph ==
  /\ pc = "write_graph"
  /\ Write(Record(DEFINED, graph), IF Resuming THEN "guard" ELSE "work")
  /\ UNCHANGED proc

(* Mutant: the stripped constraints are not looked for in the target.      *)
MutTargetMatches ==
  graph = "full" =>
    /\ db[target].cls
    /\ at = DEFINED => db[target].rows = "none"

(* verify_resume_target: every node must be a class of the target; what    *)
(* was stripped must be absent at STRIPPED, the nodes empty at DEFINED.    *)
TargetMatches ==
  graph = "full" =>
    /\ db[target].cls
    /\ at = STRIPPED => ~db[target].keys
    /\ at = DEFINED => db[target].rows = "none"

(* Mutant: a half-finished load goes on without emptying the tables.       *)
MutGuard ==
  /\ pc = "guard"
  /\ UNCHANGED <<db, files>>
  /\ \/ TargetMatches /\ Goto("work") /\ UNCHANGED proc
     \/ ~TargetMatches /\ Exit("mismatch")

Guard ==
  /\ pc = "guard"
  /\ UNCHANGED <<db, files>>
  /\ \/ /\ TargetMatches
        /\ Goto(IF at = STRIPPED THEN "truncate" ELSE "work")
        /\ UNCHANGED proc
     \/ ~TargetMatches /\ Exit("mismatch")

(* truncate_classes empties the graph's nodes.                             *)
Truncate ==
  /\ pc = "truncate"
  /\ db' = IF graph = "full" THEN [db EXCEPT ![target].rows = "none"] ELSE db
  /\ Goto("work")
  /\ UNCHANGED <<files, proc>>

(* loaddb appends to what the classes hold, and fails without them.        *)
Load ==
  /\ pc = "work" /\ at = STRIPPED
  /\ UNCHANGED files
  /\ \/ /\ db[target].cls
        /\ LET clean == db[target].rows = "none"
           IN \/ /\ db' = [db EXCEPT ![target].rows =
                                       IF clean THEN "some" ELSE "wrong"]
                 /\ Exit("stopped")
              \/ /\ db' = [db EXCEPT ![target].rows =
                                       IF clean THEN "all" ELSE "wrong"]
                 /\ Goto("mark")
                 /\ UNCHANGED proc
     \/ /\ ~db[target].cls
        /\ db' = db
        /\ Exit("stopped")

(* Strip drops the keys of the nodes, Rebuild puts them back (the FKs that *)
(* FK_DEFINED adds are counted with them); the phases after it do not      *)
(* change what is modelled.                                                *)
Work ==
  /\ pc = "work" /\ at # STRIPPED
  /\ db' = [db EXCEPT ![target].keys =
              IF graph = "full" /\ at + 1 = STRIPPED THEN FALSE
              ELSE IF graph = "full" /\ at + 1 = REBUILT THEN HasKeys ELSE @]
  /\ Goto("mark")
  /\ UNCHANGED <<files, proc>>

Mark ==
  /\ pc = "mark"
  /\ Write(Record(at + 1, graph), IF at + 1 = DONE THEN "close" ELSE "work")
  /\ at' = at + 1
  /\ UNCHANGED <<target, restart, keep, prior, graph>>

(* check_catalog_restored looks for the keys of the nodes.                 *)
Close ==
  /\ pc = "close"
  /\ Exit(IF graph = "full" /\ HasKeys /\ ~db[target].keys
          THEN "imported_partial" ELSE "imported")
  /\ UNCHANGED <<db, files>>

Next ==
  \/ \E t \in Target, r \in BOOLEAN : Start(t, r)
  \/ \E t \in Recreatable : Recreate(t)
  \/ Stop
  \/ Decide \/ Open \/ Preserve \/ WriteDiscovered
  \/ Define \/ WriteDefined \/ BuildGraph \/ WriteGraph
  \/ Guard \/ Truncate \/ Load \/ Work \/ Mark \/ Close

Spec == Init /\ [][Next]_vars

-----------------------------------------------------------------------------
Steps == {"idle", "decide", "open", "preserve", "write_discovered", "define",
          "write_defined", "graph", "write_graph", "guard", "truncate",
          "work", "mark", "close"}

ManifestRecord ==
  [exists : BOOLEAN, name : {DbName[t] : t \in Target} \cup {""},
   phase : DISCOVERED .. DONE, graph : Graph]

(* The type of every variable.                                             *)
TypeOK ==
  /\ db \in [Target -> [cls : BOOLEAN, keys : BOOLEAN, rows : Rows]]
  /\ manifest \in ManifestRecord
  /\ prev \in [Slot -> ManifestRecord]
  /\ pc \in Steps
  /\ target \in Target
  /\ restart \in BOOLEAN
  /\ keep \in BOOLEAN
  /\ prior \in DISCOVERED .. STATS_UPDATED
  /\ at \in DISCOVERED .. DONE
  /\ graph \in Graph
  /\ outcome \in {"none", "stopped", "already", "not_empty", "mismatch",
                  "imported", "imported_partial"}

(* A run that went through to the end and exited 0 imported the dump into  *)
(* the database it was pointed at, whatever other targets the manifest has *)
(* been about meanwhile (import_db.cpp l.983).  Databases in use that look *)
(* like the target are another matter: see ProductionUntouched.            *)
ImportedThisTarget ==
  outcome = "imported" /\ target \notin Production => db[target] = Imported

(* So did a run that answered "already imported": an unrelated manifest    *)
(* never drives the run (import_db.cpp l.536).                             *)
AlreadyThisTarget == outcome = "already" => db[target] = Imported

(* The rows of the dump are never in a target twice, nor mixed with rows   *)
(* of its own.                                                             *)
RowsNotMixed == \A t \in Target : db[t].rows # "wrong"

(* A database in use is left alone, even one that has the name and the     *)
(* schema of the target the manifest describes: a manifest in a directory  *)
(* shared by two hosts must not drive a TRUNCATE over a same-named         *)
(* production database (import_db.cpp l.988).                              *)
ProductionUntouched == \A t \in Production : db[t] = InUse

(* The record of an interrupted import is replaced only by a later one of  *)
(* the same database, or moved aside; and what was moved aside stays until *)
(* no name is free (import_db.cpp l.804).                                  *)
RecordKept ==
  [][/\ manifest' # manifest /\ manifest.phase > DISCOVERED =>
          \/ /\ manifest'.name = manifest.name
             /\ manifest'.phase >= manifest.phase
          \/ \E i \in Slot : prev'[i] = manifest
     /\ (\E i \in Slot : ~prev[i].exists) =>
          \A i \in Slot : prev[i].exists => prev'[i] = prev[i]]_vars

(* preserve_manifest: "Never overwrite an existing .prev"                  *)
(* (import_manifest.cpp l.1079).                                           *)
PrevNeverOverwritten ==
  [][\A i \in Slot : prev[i].exists => prev'[i] = prev[i]]_vars
=============================================================================
