------------------------------- MODULE ImportDB -------------------------------
(***************************************************************************)
(* The import pipeline of src/src/import_db.cpp: one process that defines  *)
(* the schema of an unloaddb dump, strips its keys, loads the rows,        *)
(* rebuilds the keys, defines the foreign keys, refreshes the statistics   *)
(* and defines the triggers, and that records each finished phase in       *)
(* importdb.manifest so that re-running the command after a kill resumes.  *)
(*                                                                         *)
(* Two stores survive a kill: the database `db' and the manifest file.     *)
(* They are written by separate steps (commit, then write_manifest), and a *)
(* run can be killed, or fail on I/O, between any two steps.  A run is     *)
(* sequential, so `pc' names its next step; the loader children are the    *)
(* only concurrent writers and appear as LoadBatch.                        *)
(*                                                                         *)
(* Simplifications.  One target database and one dump, and nobody else     *)
(* writes to either between runs, except an operator who empties the       *)
(* target when importdb asked for it.  A statement loop inside one         *)
(* transaction is one step: a kill in the middle rolls all of it back.     *)
(* The schema file's own COMMIT WORK, which does make a definition durable *)
(* piecemeal, is kept.  Of a refused commit the server's side is external: *)
(* the transaction is rolled back or still open, and both are possible     *)
(* where the program does not end it itself.                               *)
(***************************************************************************)
EXTENDS Naturals, FiniteSets

CONSTANTS
  Class,       \* the loadable classes of the dump: graph.nodes
  Key,         \* their PRIMARY KEY and UNIQUE constraints
  Fk,          \* their FOREIGN KEY constraints
  Edge,        \* graph.fk_edges: the FKs whose parent is a node as well
  Index,       \* the plain indexes of <prefix>_indexes
  Trigger,     \* the triggers of <prefix>_trigger
  ParentPk,    \* [Fk -> Key]: the primary key an FK refers to
  ParentKeys,  \* [Fk -> SUBSET Key]: every PK/UNIQUE of the FK's parent
  FkPos,       \* [Fk -> Nat]: the order of the FK statements in the dump
  Batches,     \* [Class -> Nat]: commits loaddb makes for the class's rows
  Policies,    \* the values --continue-on-error may take from run to run
  MaxFaults    \* bound: kills and I/O failures in a behaviour

ASSUME ConstantAssumption ==
  /\ Class # {}
  /\ Edge \subseteq Fk
  /\ ParentPk \in [Fk -> Key]
  /\ ParentKeys \in [Fk -> SUBSET Key]
  /\ FkPos \in [Fk -> Nat]
  /\ Batches \in [Class -> Nat]
  /\ Policies \subseteq BOOLEAN
  /\ Key \cap Fk = {} /\ Key \cap Index = {} /\ Fk \cap Index = {}
  /\ MaxFaults \in Nat

VARIABLES
  db,         \* the committed state of the target database
  manifest,   \* importdb.manifest, or NoManifest
  preserved,  \* the manifests renamed to .prev, .prev.1, ...
  lost,       \* history: the commit that ended the definition was refused,
              \* unnoticed, with something left to commit
  flaw,       \* what the dump's rows and DDL cannot satisfy
  faults,     \* kills and I/O failures so far
  pc,         \* the next step of the run, "idle" when none is running
  opt,        \* its options
  prior,      \* prior.reached: where it resumes from, DISCOVERED if fresh
  keep,       \* preserve_prior
  ses,        \* the database as the run's open transaction sees it
  mem,        \* the run's in-memory records, shaped like a manifest
  present,    \* the catalog as read once for the resume guards
  fed,        \* batches this run's loader children have committed
  restored,   \* the answer of check_catalog_restored
  outcome     \* how the last run ended

file == <<manifest, preserved, lost>>
proc == <<opt, prior, keep, ses, mem, present, fed, restored>>
vars == <<db, file, flaw, faults, pc, proc, outcome>>

-----------------------------------------------------------------------------
(* The phases a manifest can record, in order (enum class import_phase).   *)
DISCOVERED    == 0
DEFINED       == 1
STRIPPED      == 2
LOADED        == 3
REBUILT       == 4
FK_DEFINED    == 5
STATS_UPDATED == 6
DONE          == 7
Phase == DISCOVERED .. DONE

Con == Key \cup Fk                      \* what the graph inventories
Flawed == Con \cup Index \cup Trigger   \* what the dump may get wrong

NoRows  == [c \in Class |-> 0]
EmptyDb == [cls |-> {}, con |-> {}, trg |-> {}, rows |-> NoRows]

(* What a manifest carries, and what a run holds in memory for it.  The    *)
(* record of a phase not reached yet is empty.  "plan" says that the       *)
(* [plan] section holds the level sets and not the placeholder.            *)
NoRecord ==
  [phase |-> DISCOVERED, exists |-> TRUE, hasGraph |-> FALSE, nodes |-> {},
   graph |-> {}, plan |-> FALSE, strip |-> {}, pending |-> {}, failedIdx |-> {},
   held |-> {}, violated |-> {}, withheld |-> {}, statsFail |-> {},
   trigFail |-> {}]

NoManifest == [NoRecord EXCEPT !.exists = FALSE]

Options == [dry : BOOLEAN, restart : BOOLEAN, cont : Policies]
PlainRun == {o \in Options : ~o.dry /\ ~o.restart}

Resuming == prior > DISCOVERED

-----------------------------------------------------------------------------
Init ==
  /\ db = EmptyDb
  /\ manifest = NoManifest
  /\ preserved = {}
  /\ lost = FALSE
  /\ flaw \in SUBSET Flawed
  /\ faults = 0
  /\ pc = "idle"
  /\ opt = [dry |-> FALSE, restart |-> FALSE, cont |-> FALSE]
  /\ prior = DISCOVERED
  /\ keep = FALSE
  /\ ses = EmptyDb
  /\ mem = NoRecord
  /\ present = {}
  /\ fed = NoRows
  /\ restored = FALSE
  /\ outcome = "none"

(* The end of a run: whatever its transaction had not committed is gone.   *)
Exit(how) ==
  /\ pc' = "idle"
  /\ outcome' = how
  /\ prior' = DISCOVERED
  /\ keep' = FALSE
  /\ ses' = db'
  /\ mem' = NoRecord
  /\ present' = {}
  /\ fed' = NoRows
  /\ restored' = FALSE
  /\ UNCHANGED <<opt, flaw>>

Goto(step) == pc' = step /\ UNCHANGED <<outcome, flaw>>

NoFault == UNCHANGED faults
Fault == faults < MaxFaults /\ faults' = faults + 1

(* error_exit after a failure of the environment.                          *)
FailAt(steps) ==
  /\ pc \in steps
  /\ Fault
  /\ UNCHANGED <<db, file>>
  /\ Exit("error")

-----------------------------------------------------------------------------
(* Between runs.                                                           *)

Start(o) ==
  /\ pc = "idle"
  /\ opt' = o
  /\ pc' = "decide"
  /\ outcome' = "none"
  /\ NoFault
  /\ UNCHANGED <<db, file, flaw, prior, keep, ses, mem, present, fed, restored>>

(* The remedy the refusal of an unfinished definition asks the operator    *)
(* for: drop the partial schema and re-run.                                *)
EmptyTarget ==
  /\ pc = "idle"
  /\ manifest.phase = DISCOVERED
  /\ db.cls # {}
  /\ db' = EmptyDb
  /\ ses' = EmptyDb
  /\ NoFault
  /\ UNCHANGED <<file, flaw, pc, opt, prior, keep, mem, present, fed,
                 restored, outcome>>

(* A kill -9, a power failure, or the loss of the server connection.  The  *)
(* loader children die with their parent.                                  *)
Kill ==
  /\ pc # "idle"
  /\ Fault
  /\ UNCHANGED <<db, file>>
  /\ Exit("killed")

-----------------------------------------------------------------------------
(* What to do about the manifest found in the dump directory.              *)

(* Mutant: the failed indexes are forgotten, as print_report forgets them. *)
MutUnresolved(m) ==
  m.pending \cup m.withheld \cup m.violated \cup m.statsFail \cup m.trigFail # {}

Unresolved(m) ==
  \/ m.pending \cup m.failedIdx # {}
  \/ m.withheld \cup m.violated # {}
  \/ m.statsFail # {}
  \/ m.trigFail # {}

Fresh(preserve) ==
  /\ keep' = preserve
  /\ mem' = NoRecord
  /\ prior' = DISCOVERED
  /\ Goto("open")
  /\ UNCHANGED <<opt, ses, present, fed, restored>>

(* Mutant: the phase after the recorded one is taken for done.             *)
MutResumeFrom(m) ==
  /\ prior' = m.phase + 1
  /\ mem' = m
  /\ keep' = FALSE
  /\ Goto("open")
  /\ UNCHANGED <<opt, ses, present, fed, restored>>

ResumeFrom(m) ==
  /\ prior' = m.phase
  /\ mem' = m
  /\ keep' = FALSE
  /\ Goto("open")
  /\ UNCHANGED <<opt, ses, present, fed, restored>>

Decide ==
  /\ pc = "decide"
  /\ NoFault
  /\ UNCHANGED <<db, file>>
  /\ \/ /\ opt.dry \/ ~manifest.exists
        /\ Fresh(FALSE)
     \/ /\ ~opt.dry /\ manifest.exists
        /\ opt.restart \/ manifest.phase = DISCOVERED
        /\ Fresh(TRUE)
     \/ /\ ~opt.dry /\ ~opt.restart
        /\ manifest.phase = DONE
        /\ Exit(IF Unresolved(manifest) THEN "already_partial" ELSE "already")
     \/ /\ ~opt.dry /\ ~opt.restart
        /\ manifest.phase \in DEFINED .. STATS_UPDATED
        /\ ResumeFrom(manifest)

(* session_open, then check_target_empty for a run that does not resume.   *)
Open ==
  /\ pc = "open"
  /\ NoFault
  /\ UNCHANGED <<db, file>>
  /\ \/ /\ ~Resuming /\ db.cls # {}
        /\ Exit("not_empty")
     \/ /\ Resuming \/ db.cls = {}
        /\ Goto(IF Resuming THEN "graph"
                ELSE IF opt.dry THEN "define"
                ELSE IF keep THEN "preserve" ELSE "write_discovered")
        /\ UNCHANGED proc

(* preserve_manifest: the record about to be replaced is renamed.          *)
Preserve ==
  /\ pc = "preserve"
  /\ manifest' = NoManifest
  /\ preserved' = preserved \cup {manifest}
  /\ lost' = FALSE
  /\ Goto("write_discovered")
  /\ NoFault
  /\ UNCHANGED <<db, proc>>

-----------------------------------------------------------------------------
(* write_manifest replaces the file atomically.                            *)

Write(from, m, to) ==
  /\ pc = from
  /\ manifest' = m
  /\ Goto(to)
  /\ NoFault
  /\ UNCHANGED <<db, preserved, lost, proc>>

Reached(phase) == [mem EXCEPT !.phase = phase]

WriteDiscovered == Write("write_discovered", NoRecord, "define")
WriteDefined    == Write("write_defined", [NoRecord EXCEPT !.phase = DEFINED],
                         "graph")
WriteGraph      == Write("write_graph",
                         [Reached(DEFINED) EXCEPT !.plan = FALSE], "write_plan")
WritePlan       == Write("write_plan", Reached(DEFINED),
                         IF Resuming THEN "guard" ELSE "strip")
WriteStripped   == Write("write_stripped", Reached(STRIPPED), "commit_bare")
WriteLoaded     == Write("write_loaded", Reached(LOADED), "rebuild")
WriteRebuilt    == Write("write_rebuilt", Reached(REBUILT), "commit_keys")
WriteFkDefined  == Write("write_fk", Reached(FK_DEFINED), "stats")
WriteStats      == Write("write_stats", Reached(STATS_UPDATED), "triggers")
WriteDone       == Write("write_done", Reached(DONE), "close")

WriteManifest ==
  \/ WriteDiscovered \/ WriteDefined \/ WriteGraph \/ WritePlan
  \/ WriteStripped \/ WriteLoaded \/ WriteRebuilt \/ WriteFkDefined
  \/ WriteStats \/ WriteDone

(* session_commit at a phase boundary.                                     *)
CommitAt(from, to) ==
  /\ pc = from
  /\ db' = ses
  /\ Goto(to)
  /\ NoFault
  /\ UNCHANGED <<file, proc>>

Commit ==
  \/ CommitAt("commit_strip", "write_stripped")
  \/ CommitAt("commit_truncate", "commit_bare")
  \/ CommitAt("commit_bare", "load")
  \/ CommitAt("commit_load", "write_loaded")
  \/ CommitAt("commit_rebuild", "write_rebuilt")
  \/ CommitAt("commit_keys", "fkdefine")
  \/ CommitAt("commit_fk", "write_fk")
  \/ CommitAt("commit_stats", "write_stats")
  \/ CommitAt("commit_triggers", "verify")

-----------------------------------------------------------------------------
(* define(): the schema files run in order, classes before keys before     *)
(* foreign keys.  A COMMIT WORK inside them is executed by a real run, so  *)
(* any prefix may be durable; a dry run skips it.                          *)

(* Mutant: a dry run executes the COMMIT WORK of the schema file.          *)
MutDefinePart(from, part, to) ==
  /\ pc = from
  /\ ses' = part
  /\ db' \in {db, part}
  /\ Goto(to)
  /\ NoFault
  /\ UNCHANGED <<file, opt, prior, keep, mem, present, fed, restored>>

DefinePart(from, part, to) ==
  /\ pc = from
  /\ ses' = part
  /\ db' \in IF opt.dry THEN {db} ELSE {db, part}
  /\ Goto(to)
  /\ NoFault
  /\ UNCHANGED <<file, opt, prior, keep, mem, present, fed, restored>>

DefineClasses == DefinePart("define", [ses EXCEPT !.cls = Class],
                            "define_keys")
DefineKeys    == DefinePart("define_keys", [ses EXCEPT !.con = Key],
                            "define_fks")
DefineFks     == DefinePart("define_fks", [ses EXCEPT !.con = Con], "define_end")

(* The commit that ends define().  Its result is not looked at: refused,   *)
(* it leaves in the database what a COMMIT WORK of the schema file had     *)
(* made durable, and the run goes on as if it were defined.                *)
DefineEnd ==
  /\ pc = "define_end"
  /\ Goto(IF opt.dry THEN "graph" ELSE "write_defined")
  /\ UNCHANGED <<manifest, preserved, opt, prior, keep, mem, present, fed,
                 restored>>
  /\ \/ /\ NoFault
        /\ db' = IF opt.dry THEN db ELSE ses
        /\ UNCHANGED <<lost, ses>>
     \/ /\ ~opt.dry
        /\ Fault
        /\ ses' \in {db, ses}
        /\ lost' = (db # ses)
        /\ UNCHANGED db

(* Mutant: every run writes the DEFINED record, not only one that has      *)
(* recorded nothing later (rewrite_defined).                               *)
MutGraph ==
  /\ pc = "graph"
  /\ mem' = IF Resuming /\ mem.hasGraph THEN mem
            ELSE [mem EXCEPT !.hasGraph = TRUE,
                             !.nodes = ses.cls,
                             !.graph = ses.con \ Index,
                             !.plan = TRUE]
  /\ Goto(IF opt.dry THEN "dry_end" ELSE "write_graph")
  /\ NoFault
  /\ UNCHANGED <<db, file, opt, prior, keep, ses, present, fed, restored>>

(* build_graph reads classes and constraints from the catalog; a resumed   *)
(* run takes the recorded graph when there is one.  build_schedule needs   *)
(* nothing but the graph.                                                  *)
Graph ==
  /\ pc = "graph"
  /\ mem' = IF Resuming /\ mem.hasGraph THEN mem
            ELSE [mem EXCEPT !.hasGraph = TRUE,
                             !.nodes = ses.cls,
                             !.graph = ses.con \ Index,
                             !.plan = TRUE]
  /\ Goto(IF opt.dry THEN "dry_end"
          ELSE IF prior <= DEFINED THEN "write_graph" ELSE "guard")
  /\ NoFault
  /\ UNCHANGED <<db, file, opt, prior, keep, ses, present, fed, restored>>

DryEnd ==
  /\ pc = "dry_end"
  /\ NoFault
  /\ UNCHANGED <<db, file>>
  /\ Exit("dry")

-----------------------------------------------------------------------------
(* The resume guard.                                                       *)

(* Mutant: a resume from LOADED reloads.                                   *)
MutEntry(reached) ==
  CASE reached = DEFINED       -> "strip"
    [] reached = STRIPPED      -> "truncate"
    [] reached = LOADED        -> "truncate"
    [] reached = REBUILT       -> "commit_keys"
    [] reached = FK_DEFINED    -> "stats"
    [] reached = STATS_UPDATED -> "triggers"

Entry(reached) ==
  CASE reached = DEFINED       -> "strip"
    [] reached = STRIPPED      -> "truncate"
    [] reached = LOADED        -> "rebuild"
    [] reached = REBUILT       -> "commit_keys"
    [] reached = FK_DEFINED    -> "stats"
    [] reached = STATS_UPDATED -> "triggers"

(* Mutant: the stripped constraints must be absent after LOADED as well.   *)
MutTargetMatches ==
  /\ mem.nodes \subseteq db.cls
  /\ prior \in {STRIPPED, LOADED} => mem.strip \cap db.con = {}
  /\ prior = DEFINED => db.rows = NoRows

(* verify_resume_target                                                    *)
TargetMatches ==
  /\ mem.nodes \subseteq db.cls
  /\ prior = STRIPPED => mem.strip \cap db.con = {}
  /\ prior = DEFINED => db.rows = NoRows

Guard ==
  /\ pc = "guard"
  /\ NoFault
  /\ UNCHANGED <<db, file>>
  /\ \/ /\ TargetMatches
        /\ present' = db.con
        /\ Goto(Entry(prior))
        /\ UNCHANGED <<opt, prior, keep, ses, mem, fed, restored>>
     \/ ~TargetMatches /\ Exit("mismatch")

(* Mutant: no phase is handed the snapshot.                                *)
MutSkip(reached) == {}

(* The snapshot is handed only to the phase right after `reached'.         *)
Skip(reached) == IF prior = reached THEN present ELSE {}

-----------------------------------------------------------------------------
(* A phase's statements ran on the open transaction.                       *)
PhaseDone(s, m, to) ==
  /\ ses' = s
  /\ mem' = m
  /\ Goto(to)
  /\ UNCHANGED <<db, file, opt, prior, keep, present, fed, restored>>

(* A statement failed in a phase that tolerates no failure.                *)
PhaseFails ==
  /\ NoFault
  /\ UNCHANGED <<db, file>>
  /\ Exit("stuck")

(* strip(): drop every constraint of the graph.  Under the guard one the   *)
(* catalog no longer holds is recorded but not dropped again.              *)
Strip ==
  /\ pc = "strip"
  /\ LET todo == IF prior = DEFINED THEN mem.graph \cap present
                 ELSE mem.graph
     IN \/ /\ todo \subseteq ses.con
           /\ PhaseDone([ses EXCEPT !.con = @ \ todo],
                        [mem EXCEPT !.strip = mem.graph], "commit_strip")
           /\ NoFault
        \/ ~(todo \subseteq ses.con) /\ PhaseFails

(* Mutant: the rows of the interrupted load are kept.                      *)
MutTruncate ==
  /\ pc = "truncate"
  /\ PhaseDone(ses, mem, "commit_truncate")
  /\ NoFault

(* truncate_classes(), before a data phase that may have been interrupted. *)
Truncate ==
  /\ pc = "truncate"
  /\ PhaseDone([ses EXCEPT !.rows = NoRows], mem, "commit_truncate")
  /\ NoFault

(* load_data(): each class's loader commits periodically on a connection   *)
(* of its own.                                                             *)
LoadBatch(c) ==
  /\ pc = "load"
  /\ c \in db.cls
  /\ fed[c] < Batches[c]
  /\ fed' = [fed EXCEPT ![c] = @ + 1]
  /\ db' = [db EXCEPT !.rows[c] = @ + 1]
  /\ ses' = [ses EXCEPT !.rows[c] = @ + 1]
  /\ NoFault
  /\ UNCHANGED <<file, flaw, pc, opt, prior, keep, mem, present, restored,
                 outcome>>

(* A loader ends with an error when its file names a class that is not     *)
(* there. The dump's files are all loaded, whatever the graph knows, and   *)
(* each class has one that names it, an empty class included               *)
(* (import_db.cpp l.328).                                                  *)
LoadFails ==
  /\ pc = "load"
  /\ ~(Class \subseteq db.cls)
  /\ NoFault
  /\ UNCHANGED <<db, file>>
  /\ Exit("error")

LoadEnd ==
  /\ pc = "load"
  /\ fed = Batches
  /\ Class \subseteq db.cls
  /\ Goto("commit_load")
  /\ NoFault
  /\ UNCHANGED <<db, file, proc>>

(* graph.fk_edges: known only as far as the catalog had the FKs.           *)
Edges == Edge \cap mem.graph

(* The edges whose parent has a pending key (withhold_child_fks).          *)
Held(edges, pending) == {f \in edges : ParentKeys[f] \cap pending # {}}

(* rebuild(): re-add the stripped keys, build the plain indexes.  A        *)
(* statement that fails is recorded as pending and the phase goes on: on   *)
(* duplicate rows, on a key that is already there, or for a reason of the  *)
(* moment (`bad').  A pending key withholds the FKs of its class.          *)
Rebuild(bad) ==
  /\ pc = "rebuild"
  /\ IF bad = {} THEN NoFault ELSE Fault
  /\ LET keys    == (mem.strip \cap Key) \ Skip(LOADED)
         idxs    == Index \ Skip(LOADED)
         refused == flaw \cup ses.con \cup bad
         pending == keys \cap refused
     IN PhaseDone(
          [ses EXCEPT !.con = @ \cup ((keys \cup idxs) \ refused)],
          [mem EXCEPT !.pending   = pending,
                      !.failedIdx = idxs \cap refused,
                      !.held = Held(Edges, pending)],
          "commit_rebuild")

(* Mutant: an FK found in the catalog is not counted as defined.           *)
MutGuardSkipped(attempted) == {}

(* Under the guard an FK the catalog already holds counts as defined.      *)
GuardSkipped(attempted) == attempted \cap Skip(REBUILT)

(* define_fks(): the engine checks the rows while it builds each FK.       *)
(* Without --continue-on-error nothing after the first rejected edge is    *)
(* attempted.  Any refusal other than orphan rows aborts the run.          *)
DefineForeignKeys ==
  /\ pc = "fkdefine"
  /\ NoFault
  /\ LET candidates   == Edges \ mem.held
         rejected     == (candidates \ Skip(REBUILT)) \cap flaw
         attempted    == {f \in candidates :
                            \/ opt.cont
                            \/ \A g \in rejected : FkPos[g] >= FkPos[f]}
         added        == (attempted \ Skip(REBUILT)) \ flaw
         defined      == added \cup GuardSkipped(attempted)
     IN \/ /\ \A f \in added : f \notin ses.con /\ ParentPk[f] \in ses.con
           /\ PhaseDone([ses EXCEPT !.con = @ \cup added],
                        [mem EXCEPT !.violated = attempted \cap rejected,
                                    !.withheld = Edges \ defined],
                        "commit_fk")
        \/ /\ \E f \in added : f \in ses.con \/ ParentPk[f] \notin ses.con
           /\ PhaseFails

(* update_stats(): a class that fails is recorded.                         *)
Stats(bad) ==
  /\ pc = "stats"
  /\ IF bad = {} THEN NoFault ELSE Fault
  /\ bad \subseteq mem.nodes
  /\ PhaseDone(ses, [mem EXCEPT !.statsFail = bad], "commit_stats")

(* define_triggers(): a statement that fails is recorded; under the guard  *)
(* a trigger that exists already counts as defined.                        *)
Triggers(bad) ==
  /\ pc = "triggers"
  /\ IF bad = {} THEN NoFault ELSE Fault
  /\ LET exists  == IF prior = STATS_UPDATED THEN {} ELSE ses.trg
         refused == (flaw \cup bad \cup exists) \ (ses.trg \ exists)
     IN PhaseDone([ses EXCEPT !.trg = @ \cup (Trigger \ refused)],
                  [mem EXCEPT !.trigFail = Trigger \cap refused],
                  "commit_triggers")

(* check_catalog_restored(); a catalog that cannot be read is not restored.*)
Verify ==
  /\ pc = "verify"
  /\ \/ /\ NoFault
        /\ restored' = (mem.graph \ (mem.pending \cup mem.withheld)
                          \subseteq db.con)
     \/ Fault /\ restored' = FALSE
  /\ Goto("write_done")
  /\ UNCHANGED <<db, file, opt, prior, keep, ses, mem, present, fed>>

(* session_close(true) and the exit code.  A resumed run that skipped the  *)
(* FK phase does not look at the violated edges again.                     *)
Close ==
  /\ pc = "close"
  /\ UNCHANGED <<db, file>>
  /\ \E clean \in BOOLEAN :
       /\ IF clean THEN NoFault ELSE Fault
       /\ Exit(IF \/ ~clean
                  \/ ~restored
                  \/ mem.pending \cup mem.failedIdx # {}
                  \/ mem.violated # {} /\ prior < FK_DEFINED
                  \/ mem.withheld # {}
                  \/ mem.statsFail # {}
                  \/ mem.trigFail # {}
               THEN "imported_partial" ELSE "imported")

-----------------------------------------------------------------------------
(* The steps at which the environment can make the run fail: the manifest  *)
(* cannot be read, preserved or written, the server cannot be reached, a   *)
(* statement, the catalog or a dump file fails, a loader child fails, a    *)
(* commit is refused.                                                      *)
Fallible ==
  {"decide", "open", "preserve", "write_discovered", "define", "define_keys",
   "define_fks", "write_defined", "graph", "write_graph", "write_plan",
   "guard", "strip", "commit_strip", "write_stripped", "truncate",
   "commit_truncate", "commit_bare", "load", "commit_load", "write_loaded",
   "rebuild", "commit_rebuild", "write_rebuilt", "commit_keys", "fkdefine",
   "commit_fk", "write_fk", "commit_stats", "write_stats",
   "commit_triggers", "write_done"}

Steps == Fallible \cup {"idle", "define_end", "dry_end", "stats", "triggers",
                        "verify", "close"}

RunStep ==
  \/ Decide \/ Open \/ Preserve
  \/ DefineClasses \/ DefineKeys \/ DefineFks \/ DefineEnd
  \/ Graph \/ DryEnd \/ Guard
  \/ WriteManifest \/ Commit
  \/ Strip \/ Truncate
  \/ (\E c \in Class : LoadBatch(c)) \/ LoadEnd \/ LoadFails
  \/ (\E bad \in SUBSET (Key \cup Index) : Rebuild(bad))
  \/ DefineForeignKeys
  \/ (\E bad \in SUBSET Class : Stats(bad))
  \/ (\E bad \in SUBSET Trigger : Triggers(bad))
  \/ Verify \/ Close

Environment ==
  \/ \E o \in Options : Start(o)
  \/ EmptyTarget
  \/ Kill
  \/ FailAt(Fallible)

Next == RunStep \/ Environment

Spec == Init /\ [][Next]_vars

(* Somebody keeps re-running the command, empties the target when told to, *)
(* and a run that is not killed keeps going.                               *)
FairSpec ==
  /\ Spec
  /\ WF_vars(RunStep)
  /\ SF_vars(EmptyTarget)
  /\ SF_vars(\E o \in PlainRun : Start(o))
-----------------------------------------------------------------------------
(* Types.                                                                  *)

Record ==
  [phase : Phase, exists : BOOLEAN, hasGraph : BOOLEAN,
   nodes : SUBSET Class, graph : SUBSET Con, plan : BOOLEAN,
   strip : SUBSET Con, pending : SUBSET Key, failedIdx : SUBSET Index,
   held : SUBSET Edge, violated : SUBSET Edge, withheld : SUBSET Edge,
   statsFail : SUBSET Class, trigFail : SUBSET Trigger]

Database ==
  [cls : SUBSET Class, con : SUBSET (Con \cup Index),
   trg : SUBSET Trigger, rows : [Class -> Nat]]

Outcomes ==
  {"none", "killed", "error", "not_empty", "dry", "already",
   "already_partial", "mismatch", "stuck", "imported", "imported_partial"}

(* The type of every variable.                                             *)
TypeOK ==
  /\ db \in Database
  /\ manifest \in Record
  /\ preserved \subseteq Record
  /\ lost \in BOOLEAN
  /\ flaw \subseteq Flawed
  /\ faults \in 0 .. MaxFaults
  /\ pc \in Steps
  /\ opt \in [dry : BOOLEAN, restart : BOOLEAN, cont : BOOLEAN]
  /\ prior \in DISCOVERED .. STATS_UPDATED
  /\ keep \in BOOLEAN
  /\ ses \in Database
  /\ mem \in Record
  /\ present \subseteq Con \cup Index
  /\ fed \in [Class -> Nat]
  /\ restored \in BOOLEAN
  /\ outcome \in Outcomes

-----------------------------------------------------------------------------
(* Safety.                                                                 *)

(* "Reached X" means X is durable (import_db.cpp l.544): whatever step the *)
(* last run was killed at, the committed database is never behind what the *)
(* manifest records, and each row of the dump is there exactly once from   *)
(* LOADED on.  This is what a resume relies on when it skips a phase.      *)
(*                                                                         *)
(* The constraints it speaks of are those of the recorded graph, and these *)
(* are all of the dump's, and its classes are there, unless the commit     *)
(* that ends define() was refused (`lost'): then DEFINED is recorded over  *)
(* what is left of the schema, see HonestDefinition.                       *)
MarkerNeverAhead ==
  LET reached(p) == manifest.phase >= p
      known      == manifest.graph
  IN
  /\ reached(DEFINED) /\ ~lost =>
       db.cls = Class /\ (manifest.hasGraph => known = Con)
  /\ reached(LOADED)     => db.cls = Class /\ db.rows = Batches
  /\ reached(REBUILT)    => /\ Key \cap known \subseteq db.con \cup manifest.pending
                            /\ Index \subseteq db.con \cup manifest.failedIdx
  /\ reached(FK_DEFINED) => Edge \cap known \subseteq db.con \cup manifest.withheld
  /\ reached(DONE)       => Trigger \subseteq db.trg \cup manifest.trigFail

(* The marker after define() "is honest" (import_db.cpp l.851), as a       *)
(* failed commit "must not advance the manifest" (import_session.cpp       *)
(* l.86).  It does at import_define.cpp l.665, where the result of the     *)
(* commit is not looked at: this fails.                                    *)
HonestDefinition == manifest.phase >= DEFINED => ~lost

(* Exit code 0 of a real run, first or repeated, means that every key,     *)
(* foreign key, index and trigger of the dump is in the database and every *)
(* row is there once (import_db.cpp l.616: re-running must not launder a   *)
(* failed import into exit 0).  When a refused commit lost a part of the   *)
(* schema it means no such thing: the graph is read from what is left, and *)
(* what it does not name nobody misses.                                    *)
SuccessMeansImported ==
  outcome \in {"imported", "already"} /\ ~lost =>
    /\ db.con = Con \cup Index
    /\ db.rows = Batches
    /\ db.trg = Trigger

(* Every parent has the primary key that its FKs refer to, and has not     *)
(* inherited it: only a pending key of the parent itself withholds an      *)
(* edge.                                                                   *)
OwnKeys == \A f \in Edge : ParentPk[f] \in ParentKeys[f]

(* No run of an unbroken sequence of own runs is turned away by its own    *)
(* guards: verify_resume_target refuses no legitimate resume (import_db.cpp*)
(* l.1003) and no phase trips over what the interrupted run had already    *)
(* done.  Two things can make it false.  Without OwnKeys an FK to a        *)
(* pending inherited key is attempted, and aborts this run and each one    *)
(* after it; every instance checked has OwnKeys.  And a refused commit of  *)
(* the definition may leave a graph that names classes that are gone.      *)
ResumeNeverStuck ==
  /\ outcome # "stuck"
  /\ ~lost => outcome # "mismatch"

(* A key or index recorded as not rebuilt really is missing: a re-entered  *)
(* rebuild does not mistake its own earlier work for a failure             *)
(* (import_rebuild.cpp l.318).                                             *)
PendingIsMissing ==
  manifest.phase >= REBUILT =>
    (manifest.pending \cup manifest.failedIdx) \cap db.con = {}

(* An edge recorded as withheld "is left undefined" (import_db.cpp         *)
(* l.1208), so its re-add DDL is a repair that can be applied.             *)
WithheldIsMissing ==
  manifest.phase >= FK_DEFINED => manifest.withheld \cap db.con = {}

(* A resumed run does not re-record an empty data phase: from STRIPPED on  *)
(* the [plan] section holds the level sets (import_manifest.cpp l.1249).   *)
PlanSurvives == manifest.phase >= STRIPPED => manifest.plan

-----------------------------------------------------------------------------
(* Action properties.                                                      *)

(* Rows move only while the manifest says STRIPPED, into tables without a  *)
(* key and without a trigger; the operator's emptied target aside.  So no  *)
(* restart loads twice, and no committed row is truncated once LOADED.     *)
LoadsIntoBareHeaps ==
  [][db'.rows # db.rows =>
       \/ manifest.phase = STRIPPED /\ db.con = {} /\ db.trg = {}
       \/ db' = EmptyDb]_vars

(* The record of an interrupted import is never lost: a resumed run makes  *)
(* none of the writes that precede the phase it re-enters (import_db.cpp   *)
(* l.720), so a durable record is only replaced by one at least as far.    *)
RecordNeverLost ==
  [][manifest' # manifest /\ manifest.phase > DISCOVERED =>
       \/ manifest'.phase >= manifest.phase
       \/ manifest \in preserved']_vars

(* A dry run leaves the target, the manifest and its backups unchanged,    *)
(* even where the schema file itself says COMMIT WORK.                     *)
DryRunLeavesNoTrace ==
  [][pc # "idle" /\ opt.dry => UNCHANGED <<db, manifest, preserved>>]_vars

-----------------------------------------------------------------------------
(* Liveness.                                                               *)

(* However often it is killed, an import whose command is re-run finishes, *)
(* unless it was built on a definition that a refused commit lost: its     *)
(* plain re-runs can fail for good, and only --restart ends that.  It      *)
(* takes OwnKeys, as ResumeNeverStuck does.                                *)
Completes == <>[]lost \/ <>(manifest.phase = DONE)
=============================================================================
