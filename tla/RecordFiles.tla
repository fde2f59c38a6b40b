----------------------------- MODULE RecordFiles -----------------------------
(***************************************************************************)
(* The two files a run leaves beside the dump, importdb.manifest and       *)
(* importdb.exceptions, written call by call, next to the database they    *)
(* report on.  The run is followed from the record REBUILT to DONE: each   *)
(* phase commits and then replaces the manifest (temporary file, fsync,    *)
(* rename, fsync of the directory); FK_DEFINED first rewrites the          *)
(* exceptions in place, in two parts.  A run may be killed between any two *)
(* calls, any call may fail, and the power may fail: what was not flushed  *)
(* then comes back as it was, or half written.                             *)
(*                                                                         *)
(* Simplifications.  A manifest is its phase and its [fkdefine] record.    *)
(* The temporary file of a killed run has that run's number in its name    *)
(* and is never read.  The database flushes its commits.                   *)
(***************************************************************************)
EXTENDS Naturals, Sequences

CONSTANTS
  Edges,           \* foreign keys of the graph
  Place,           \* where the dump has the statement of each
  Held,            \* edges never attempted: no parent key, or no statement
  ContinueOnError, \* --continue-on-error, the same in every run
  CutOff,          \* stands for the end of a part that is half written
  MaxStops         \* bound: kills, failed calls and power failures

ASSUME RecordFilesAssumption ==
  /\ Place \in [Edges -> Nat]
  /\ Held \subseteq Edges
  /\ ContinueOnError \in BOOLEAN
  /\ CutOff \notin Edges
  /\ MaxStops \in Nat

REBUILT == 0
FK_DEFINED == 1
STATS_UPDATED == 2
DONE == 3

VARIABLES
  pc,       \* the call that comes next; "off" when no run is there
  broken,   \* edges with orphan rows
  db,       \* what is committed: [phase, fks]
  out,      \* what define_fks found: [fks, violated, withheld]
  text,     \* the exceptions that are being written
  art,      \* importdb.exceptions: [now, back], back what a power failure
            \* may leave instead of now
  tmp,      \* the temporary file
  manifest, \* importdb.manifest: [now, back]
  stops,
  late,     \* a commit came while an older manifest could still come back
  lost      \* a power failure took the exceptions back

recordVars == <<pc, broken, db, out, text, art, tmp, manifest, stops, late, lost>>

-----------------------------------------------------------------------------
(* Exceptions: the edges of the orphan part, then sections of withheld     *)
(* edges.  CutOff is in a part that ends too early.                        *)
EmptyFile == [orphans |-> {}, sections |-> <<>>]

(* What a write that is under way has made of the truncated file.          *)
Halves(whole) ==
  {EmptyFile,
   [orphans |-> {CutOff : e \in whole.orphans}, sections |-> <<>>],
   [whole EXCEPT !.sections = [i \in DOMAIN @ |-> {CutOff}]]}

(* A manifest is safe once its content is flushed.                         *)
Text(phase, outcome, safe) ==
  [phase |-> phase, violated |-> outcome.violated, withheld |-> outcome.withheld,
   whole |-> TRUE, safe |-> safe]

NoOutcome == [fks |-> {}, violated |-> {}, withheld |-> {}]

Target == manifest.now.phase + 1

RecordInit ==
  /\ pc = "off"
  /\ broken \in SUBSET Edges
  /\ db = [phase |-> REBUILT, fks |-> {}]
  /\ out = NoOutcome
  /\ text = EmptyFile
  /\ art = [now |-> EmptyFile, back |-> {}]
  /\ tmp = Text(REBUILT, NoOutcome, FALSE)
  /\ manifest = [now |-> Text(REBUILT, NoOutcome, TRUE), back |-> {}]
  /\ stops = 0
  /\ late = FALSE
  /\ lost = FALSE

(* The command is repeated, perhaps after some of the data was repaired.   *)
Start ==
  /\ pc = "off"
  /\ manifest.now.phase < DONE
  /\ pc' = "phase"
  /\ broken' \in SUBSET broken
  /\ UNCHANGED <<db, out, text, art, tmp, manifest, stops, late, lost>>

-----------------------------------------------------------------------------
(* define_fks.  Under fail-fast the first edge that the engine rejects     *)
(* stops the attempts; an edge behind it is withheld without being looked  *)
(* up in the catalog.                                                      *)
Rejectable == (broken \ Held) \ db.fks

Stopped == {e \in Edges : ~ContinueOnError /\ \E f \in Rejectable : Place[f] < Place[e]}

Rejected == Rejectable \ Stopped

Withheld == Held \cup Rejected \cup Stopped

(* All but the report; what it defines is not committed yet.               *)
DefineFks ==
  /\ pc = "phase" /\ Target = FK_DEFINED
  /\ out' = [fks |-> db.fks \cup (Edges \ Withheld), violated |-> Rejected,
             withheld |-> Withheld]
  /\ pc' = CASE Withheld = {} -> "commit"
             [] Rejected # {} -> "open_orphans"
             [] OTHER -> "open_withheld"
  /\ UNCHANGED <<broken, db, text, art, tmp, manifest, stops, late, lost>>

(* Statistics and triggers; the record of the foreign keys is carried on.  *)
LaterPhase ==
  /\ pc = "phase" /\ Target > FK_DEFINED
  /\ out' = [fks |-> db.fks, violated |-> manifest.now.violated,
             withheld |-> manifest.now.withheld]
  /\ pc' = "commit"
  /\ UNCHANGED <<broken, db, text, art, tmp, manifest, stops, late, lost>>

-----------------------------------------------------------------------------
(* fopen truncates, fwrite may reach the file in pieces.                   *)
OpenFile(content) ==
  /\ text' = content
  /\ \E half \in Halves(content) : art' = [art EXCEPT !.now = half, !.back =
       @ \cup {art.now, content} \cup Halves(content)]

OpenOrphans ==
  /\ pc = "open_orphans"
  /\ OpenFile([orphans |-> out.violated, sections |-> <<>>])
  /\ pc' = "close_orphans"
  /\ UNCHANGED <<broken, db, out, tmp, manifest, stops, late, lost>>

(* Mutant: the section is appended to what is there.                       *)
MutOpenWithheld ==
  /\ pc = "open_withheld"
  /\ OpenFile([art.now EXCEPT !.sections = Append(@, out.withheld)])
  /\ pc' = "close_withheld"
  /\ UNCHANGED <<broken, db, out, tmp, manifest, stops, late, lost>>

(* Everything from the first marker of a section on is replaced.           *)
OpenWithheld ==
  /\ pc = "open_withheld"
  /\ OpenFile([orphans |-> art.now.orphans, sections |-> <<out.withheld>>])
  /\ pc' = "close_withheld"
  /\ UNCHANGED <<broken, db, out, tmp, manifest, stops, late, lost>>

CloseFile ==
  /\ art' = [art EXCEPT !.now = text]
  /\ \/ pc = "close_orphans" /\ pc' = "open_withheld" /\ UNCHANGED lost
     \/ pc = "close_withheld" /\ pc' = "commit" /\ lost' = FALSE
  /\ UNCHANGED <<broken, db, out, text, tmp, manifest, stops, late>>

-----------------------------------------------------------------------------
(* Mutant: a commit that failed is not noticed.                            *)
MutCommit ==
  /\ pc = "commit"
  /\ \/ db' = [phase |-> Target, fks |-> out.fks]
     \/ UNCHANGED db
  /\ late' = (late \/ manifest.back # {})
  /\ pc' = "open"
  /\ UNCHANGED <<broken, out, text, art, tmp, manifest, stops, lost>>

Commit ==
  /\ pc = "commit"
  /\ db' = [phase |-> IF db.phase < Target THEN Target ELSE db.phase, fks |-> out.fks]
  /\ late' = (late \/ manifest.back # {})
  /\ pc' = "open"
  /\ UNCHANGED <<broken, out, text, art, tmp, manifest, stops, lost>>

(* atomic_write                                                            *)
WriteTmp ==
  /\ pc = "open"
  /\ tmp' = Text(Target, out, FALSE)
  /\ pc' = "sync"
  /\ UNCHANGED <<broken, db, out, text, art, manifest, stops, late, lost>>

(* Mutant: the file is renamed before it is flushed.                       *)
MutSyncTmp ==
  /\ pc = "sync"
  /\ pc' = "rename"
  /\ UNCHANGED <<broken, db, out, text, art, tmp, manifest, stops, late, lost>>

SyncTmp ==
  /\ pc = "sync"
  /\ tmp' = [tmp EXCEPT !.safe = TRUE]
  /\ pc' = "rename"
  /\ UNCHANGED <<broken, db, out, text, art, manifest, stops, late, lost>>

Rename ==
  /\ pc = "rename"
  /\ manifest' = [now |-> tmp, back |-> manifest.back \cup {manifest.now}]
  /\ pc' = "sync_directory"
  /\ UNCHANGED <<broken, db, out, text, art, tmp, stops, late, lost>>

(* The fsync of the directory may fail, and the run goes on all the same.  *)
SyncDirectory ==
  /\ pc = "sync_directory"
  /\ \/ manifest' = [manifest EXCEPT !.back = {}]
     \/ UNCHANGED manifest
  /\ pc' = IF manifest.now.phase = DONE THEN "off" ELSE "phase"
  /\ UNCHANGED <<broken, db, out, text, art, tmp, stops, late, lost>>

-----------------------------------------------------------------------------
(* A kill, or a call that fails: the rest of the run is skipped and the    *)
(* transaction undone.                                                     *)
Stop ==
  /\ pc # "off"
  /\ stops < MaxStops
  /\ stops' = stops + 1
  /\ pc' = "off"
  /\ UNCHANGED <<broken, db, out, text, art, tmp, manifest, late, lost>>

(* The system flushes a file or the directory some time later.             *)
Settle ==
  /\ \/ manifest' = [manifest EXCEPT !.back = {}] /\ UNCHANGED art
     \/ art' = [art EXCEPT !.back = {}] /\ UNCHANGED manifest
  /\ UNCHANGED <<pc, broken, db, out, text, tmp, stops, late, lost>>

PowerFailure ==
  /\ stops < MaxStops
  /\ stops' = stops + 1
  /\ pc' = "off"
  /\ \E m \in {manifest.now} \cup manifest.back, whole \in BOOLEAN :
       /\ m.safe => whole
       /\ manifest' = [now |-> [m EXCEPT !.whole = whole, !.safe = TRUE], back |-> {}]
  /\ \E a \in {art.now} \cup art.back :
       /\ art' = [now |-> a, back |-> {}]
       /\ lost' = (lost \/ a # art.now)
  /\ UNCHANGED <<broken, db, out, text, tmp, late>>

RecordNext ==
  \/ Start
  \/ DefineFks
  \/ LaterPhase
  \/ OpenOrphans
  \/ OpenWithheld
  \/ CloseFile
  \/ Commit
  \/ WriteTmp
  \/ SyncTmp
  \/ Rename
  \/ SyncDirectory
  \/ Stop
  \/ Settle
  \/ PowerFailure

RecordSpec == RecordInit /\ [][RecordNext]_recordVars

-----------------------------------------------------------------------------
Outcomes == [fks : SUBSET Edges, violated : SUBSET Edges, withheld : SUBSET Edges]
Listings == SUBSET (Edges \cup {CutOff})
Files == [orphans : Listings, sections : Seq(Listings)]
Manifests == [phase : REBUILT .. DONE, violated : SUBSET Edges,
              withheld : SUBSET Edges, whole : BOOLEAN, safe : BOOLEAN]

RecordTypeOK ==
  /\ pc \in {"off", "phase", "open_orphans", "close_orphans", "open_withheld",
             "close_withheld", "commit", "open", "sync", "rename", "sync_directory"}
  /\ broken \in SUBSET Edges
  /\ db \in [phase : REBUILT .. DONE, fks : SUBSET Edges]
  /\ out \in Outcomes
  /\ text \in Files
  /\ art \in [now : Files, back : SUBSET Files]
  /\ tmp \in Manifests
  /\ manifest \in [now : Manifests, back : SUBSET Manifests]
  /\ stops \in Nat /\ late \in BOOLEAN /\ lost \in BOOLEAN

(* Whatever is killed or fails, and whatever is not flushed then, the      *)
(* manifest that the next run reads is a whole one.                        *)
RecordWhole == manifest.now.whole

(* The manifest is never ahead of the database, a power failure or not. It *)
(* is at most one phase behind, which is what a resume can absorb, only as *)
(* long as no phase was committed while the rename of the last manifest    *)
(* was not on the disk: the fsync of the directory failed, which           *)
(* atomic_write() does not look at (import_manifest.cpp l.730), or the run *)
(* was killed before it. After such a commit (`late') a power failure may  *)
(* bring back a manifest that is further behind, and nothing is said of    *)
(* that here.                                                              *)
AtMostOneBehind ==
  /\ manifest.now.phase <= db.phase
  /\ late \/ db.phase <= manifest.now.phase + 1

(* Once FK_DEFINED is on record, the three stores that were written one    *)
(* after another agree: what the manifest withholds is what the catalog    *)
(* lacks, and the exceptions have one section with just these edges, after *)
(* the orphan rows of just those the engine rejected, however often the    *)
(* phase was cut short and entered again, with data repaired in between.   *)
(* A power failure may take the exceptions back: they are not flushed.     *)
RepairsListed ==
  LET m == manifest.now
  IN  m.phase >= FK_DEFINED =>
        /\ m.withheld = Edges \ db.fks
        /\ lost \/ m.withheld = {} \/ art.now.sections = <<m.withheld>>
        /\ lost \/ m.violated = {} \/ art.now.orphans = m.violated

(* import_fkdefine.cpp:148: the two writers "always leave exactly one      *)
(* current copy of each" part.  The orphans of an earlier attempt stay     *)
(* when the next one finds none but withholds an edge all the same.        *)
ExceptionsCurrent ==
  LET m == manifest.now
  IN  (m.phase >= FK_DEFINED /\ ~lost) => art.now.orphans = m.violated
================================================================================
