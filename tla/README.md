# A verification of cubrid-importdb

`importdb` (src/src) loads an `unloaddb` dump into an empty CUBRID database: it
defines the schema, drops its constraints, loads the rows into bare heaps with a
pool of `loaddb` children, rebuilds the keys, defines the foreign keys,
refreshes the statistics and defines the triggers. What it has finished it
records in `importdb.manifest`, so that the same command, run again after a
kill, goes on where the last one stopped.

This directory holds TLA+ models of that program, the TLC configurations that
check them, and proofs for TLAPS. Every definition is translated from the
source; `PROJECT.json` ("map") gives the lines for each.

1. [The system](#1-the-system)
2. [What is hard, and the properties that matter](#2-what-is-hard-and-the-properties-that-matter)
3. [Modules](#3-modules)
4. [Runs](#4-runs)
5. [Fairness](#5-fairness)
6. [Proofs](#6-proofs)
7. [Where the code and its documentation differ](#7-where-the-code-and-its-documentation-differ)
8. [What is not modelled](#8-what-is-not-modelled)
9. [Plan](#9-plan)

## 1. The system

One process, one connection to the target, and child processes only while rows
are loaded. Two stores survive a kill: the database and the manifest file. They
are written by different calls (`session_commit`, `write_manifest`), and
everything the program promises about restarts rests on the order of those.

| component | source | state it keeps | operations |
|---|---|---|---|
| orchestrator | `import_db.cpp` | `prior`, `preserve_prior`, `reached`, the phase summaries, `restored` | read the manifest and decide (fresh, resume, already done), guard a resume, run the phases, commit, mark, verify, exit code |
| session | `import_session.cpp` | the connection and its one open transaction | open, commit at a phase boundary, close |
| manifest | `import_manifest.cpp` | `importdb.manifest`, `.prev`, `.prev.1` ... | read, write (temp file, fsync, rename), preserve |
| discovery | `import_discovery.cpp` | the `import_set`: prefix, files by role, object roster | derive the prefix, classify, resolve `schema_info` |
| definition | `import_define.cpp` | position in the schema files | run the statements, skip `COMMIT WORK` in a dry run |
| graph | `import_graph.cpp` | nodes, FK and inheritance edges, cycles, levels | read the catalog, `find_cycles`, `level_sets` |
| plan | `import_plan.cpp` | the list of terminal tasks with prerequisites | `build_schedule`, `validate_schedule` |
| strip | `import_strip.cpp` | what it dropped | drop FKs, then uniques, then primary keys |
| load | `import_load.cpp` | the pool: running children, `pid_idx`, `any_fail` | fork, arm, exec, wait, truncate before a reload |
| rebuild | `import_rebuild.cpp` | rebuilt, pending, failed indexes, withheld edges | re-add keys from the dump's statements, build indexes, account for what is left |
| fk define | `import_fkdefine.cpp`, `import_validate.cpp` | defined, violated and withheld edges | add each edge, fail fast or continue, list the orphan rows |
| statistics, triggers | `import_stats.cpp`, `import_triggers.cpp` | what failed | update statistics, define triggers |
| resume guard | `import_db.cpp`, `import_resume.cpp` | the catalog snapshot `present` | `verify_resume_target`, guards of the re-entered phase |
| report | `import_report.cpp` | none | COMPLETE or PARTIAL |

How they interact: the orchestrator calls each phase in turn and hands it the
summaries of the earlier ones; a resumed run takes those from the manifest
instead. Strip's record is what Rebuild looks for, Rebuild's pending keys decide
which edges FK define withholds, and all records together decide the exit code,
once at the end of the run that did the work and once more, from the manifest
alone, when the command is repeated. The graph is read from the target's catalog
before the keys are dropped and, in a resumed run, from the manifest. The loader
children share only the database with their parent.

## 2. What is hard, and the properties that matter

* **A kill or an I/O error between any two steps**, the commit and the marker
  included, any number of times. *Component properties:* the marker is never
  ahead of the database (`MarkerNeverAhead`); a resume is never refused or
  tripped up by what the interrupted run did (`ResumeNeverStuck`); the record of
  an interrupted import is not lost (`RecordNeverLost`); it all ends
  (`Completes`). One commit breaks the rule: the result of the one that ends
  `define()` is not looked at, so DEFINED may be recorded over a schema that is
  not there (`HonestDefinition`, section 7). What these properties say of the
  definition they say only when that commit was not refused.
* **Partial success.** Most phases record what they could not do and go on. The
  verdict of the run, and of every later run, has to add all of it up
  (`SuccessMeansImported`, `HonestVerdict`), and the records have to agree with
  the catalog although a re-entered phase meets its own earlier work
  (`PendingIsMissing`, `WithheldIsMissing`, `RecordsMatchCatalog`,
  `AllAccounted`).
* **Rows have no key while they are loaded**, so nothing but the program's own
  care keeps them from being loaded twice: `LoadsIntoBareHeaps`, `EachRowOnce`,
  `RowsNotMixed`, and `NoOrphanLoads` for a child that survives its parent.
* **The manifest lies beside the dump, not in the database.** One directory
  serves several targets, which can be dropped, recreated, or happen to have the
  same name as a database in use: `ImportedThisTarget`, `ProductionUntouched`,
  `RecordKept`.
* **Statements have an order the engine insists on**, with constraints that are
  inherited and names that are shared: `NoRefusal`, `FollowsPlan`,
  `ScheduleIsPlan`.
* **The cycle search lists only some cycles**, and the layering depends on what
  it lists: `KeptAcyclic`, `LevelsTopological`, `LeftOutWait`.
* **File names decide what a dump is**, with prefixes that begin one another:
  `OneDumpFound`.
* **A resume works from text.** After Strip the catalog cannot tell what the
  dump had, so the graph and every summary come back through a hand-written
  parser, and are written again by the resumed run: `GraphSurvives`,
  `RecordSurvives`, `LosesOnce`; a repeated command takes its exit code from
  them (`VerdictSurvives`) and must not refuse them (`NeverIncomplete`).
* **Two files and a database are written one after another**, one of the files
  in place, and a power failure undoes what was not flushed: `RecordWhole`,
  `AtMostOneBehind`, `RepairsListed`.

`PROJECT.json` ("hazards") has the list with the lines where each one bites.

## 3. Modules

Modules named `MC...` only give constants values for TLC; `..._proofs` hold
theorems about the module they extend.

### ImportDB, the pipeline

`pc` is the next step of the run; each phase is entered, works on the session's
view `ses`, is committed (`db' = ses`) and then marked (`manifest' = ...`), each
a step of its own, so that `Kill` and `FailAt` can fall between any two.

| in the model | in the code |
|---|---|
| `db` | what is committed: classes, constraints and indexes, triggers, batches of rows per class |
| `ses` | the same as the open transaction sees it |
| `manifest`, `preserved` | the file, and the copies renamed to `.prev...` |
| `mem` | the summaries and the graph held in memory, shaped like a manifest |
| `prior`, `keep`, `opt`, `present`, `restored` | `prior.reached`, `preserve_prior`, the options, the catalog snapshot of the resume, the answer of `check_catalog_restored` |
| `lost` | no variable of the code: the commit that ended the definition was refused, unnoticed, with something left to commit |
| `flaw` | which constraints, indexes and triggers the dump's own rows and DDL cannot satisfy; chosen once, unknown to the program |
| `fed` | how far this run's loaders are |
| `Decide` ... `Open`, `Preserve` | `import_db.cpp` up to the first write |
| `DefineClasses`, `DefineKeys`, `DefineFks` | the schema files in three stages, each of which a `COMMIT WORK` in the file may make durable |
| `DefineEnd` | the commit of `import_define.cpp:665`, whose result is not looked at; refused, it leaves what a `COMMIT WORK` made durable, and a transaction that is rolled back or still open, both of which the engine may do |
| `Graph`, `Guard`, `Strip`, `Truncate`, `LoadBatch`, `LoadEnd`, `LoadFails`, `Rebuild`, `DefineForeignKeys`, `Stats`, `Triggers`, `Verify`, `Close` | the phases, and the guards of a resumed one |
| `Write...`, `Commit` | the ten `write_manifest` calls and the nine commits whose result is looked at: refused, they end the run (`FailAt`) |

The statements of one phase are one step, as a kill rolls back all of them.
`Constraints` takes the phases apart; `LoadPool` does so for the load,
`ManifestText` for the content of the marker and `RecordFiles` for its system
calls.

After a refused `DefineEnd` the graph is read from what the transaction shows,
`Edges` are the FKs it knows, and `LoadFails` ends a run whose object files name
a class that is not there. A pending key withholds the FKs of its own class
(`Held`, by `ParentKeys`), while an FK needs the parent's primary key
(`ParentPk`), inherited or not; `OwnKeys` says that no parent inherited it. It is
not assumed: `ResumeNeverStuck` says where it matters.

### ImportDBInv

The inductive invariant `IInv`, in a module that TLC's run and the proofs share.

### DumpDir, several databases and one directory

The decisions of `ImportDB` again, for several targets whose runs, one at a
time, read and replace the same manifest. A target is cut down to whether it has
the dump's classes and keys and whose rows it holds ("some", "all", "own",
"wrong" for anything mixed or doubled). `.prev` names are an array with a last
element, as in `preserve_manifest`. Operators may drop and recreate a target. The
commit that ends the definition is taken to succeed here.

### LoadPool and BulkLoad

`LoadPool` is `load_data()` at the level of `fork`, `prctl`, `getppid`, `exec`
and `waitpid`: the parent's loop variables, and one small state machine per child
(forked, armed, loading, ended). `KillParent` may fall anywhere; the kernel kills
children that have armed themselves, and the others must notice. Runs are
numbered, so children of a dead run coexist with those of the next. `BulkLoad`
is what the pipeline relies on (batches only while loading, all of them before
success, empty tables at the start). `LoadPool` implements it, with `status`
read off the parent's state.

### DependencyGraph

`build_graph()`: which classes and edges become the graph, the depth-first
search with its colours and its stack (`Root`, `Look`, `Leave`), and the
layering (`StartLevels`, `Level`). The initial states are all catalogs within
the bounds; the order of the search is left open.

### Schedule and TerminalOrder

`build_schedule()` with its six loops and `validate_schedule()`. `WaitsFor` says,
from the graph alone, what each task really waits for; `TerminalOrder` is any
order that respects it, and the listing implements it.

### Constraints

The constraint statements one by one: which of them inheritance makes redundant,
in which order they are sent, which the engine refuses (an external part: it
refuses to drop a primary key that is referred to and to add a foreign key
without one), what is recorded, what a kill loses, what the guard skips on
re-entry, and the two verdicts (exit code and report). The dump's own statements
are an initial choice: they may be missing, or add several keys at once.
`FollowsPlan` connects it with `Schedule`: what is executed follows what was
printed, by the same `WaitsFor`.

### Discovery

`discover()` over file names as sequences of words, `_` and `.`, with the exact
prefix, suffix and ordering tests of the code, and `check_object_roster()`.

### ManifestText

`render_manifest()` and `read_manifest()` over lines of tokens: a word, or one of
the separators the parser looks for. Names, reasons and statements are sequences
of tokens too and may hold separators and line breaks, so what the round trip
does to them is computed, not assumed. `mem` is what the run holds, `known` what
the phases that made the summaries knew; the actions are the `write_manifest`
calls in their order and `Resume`, which reads the text at any point and goes on
from the phase it states. What the phases have to say is chosen from sets;
`ManifestTextAssumption` says what they are made of: names keep their ends and
have no tab and no line break, a reason and a statement may be of any number of
lines as long as none after the first looks like an entry or a header of the
manifest itself (such a line would be read as one).

### RecordFiles

From REBUILT to DONE, `importdb.manifest` and `importdb.exceptions` call by call
(`OpenOrphans`, `OpenWithheld`, `CloseFile`; `WriteTmp`, `SyncTmp`, `Rename`,
`SyncDirectory`), with the commits between them. Each file has the content a
reader sees, `now`, and the contents that a power failure may leave instead,
`back`; `Settle` is the system's own flushing. `define_fks` is there as far as it
decides what is withheld, since data may be repaired between two runs and the
next run's answer then differs from the one in the file.

## 4. Runs

Passing runs.

| run | module | instance | shows |
|---|---|---|---|
| `safety` | MCImportDB | two tables that refer to each other (three keys, two FKs), an index, a trigger; every set of flaws; every option; two kills, failures or refused commits | the seven safety and action properties of the pipeline, and that `IInv` holds; the definition, exit 0 and mismatches only unless the definition's commit was refused |
| `live` | MCImportDB | the same, one kill, failure or refused commit, fail-fast in every run | `Completes` (unless the refused commit was the definition's), `WithheldIsMissing` |
| `targets` | MCDumpDir | two empty targets, one of which can be recreated, and a production database with the name and schema of the first; two `.prev` names | who a record is about decides what a run may do |
| `pool` | MCLoadPool | three files (two commits, one, none), two at a time, two runs, SIGCHLD ignored or not | the pool and its refinement of `BulkLoad`; it ends |
| `graph` | MCDependencyGraph | three classes and one with a partition-like name, any object-valued classes, up to four FKs, one inheritance, both options | cycles, layering, termination |
| `schedule` | MCSchedule | all graphs of two classes, two key names, two uniques, two FKs | the list is right and its check accepts it |
| `constraints` | MCConstraints | a superclass with a primary key, its subclass, a third class; shared names; any of five flaws; any missing or multi-key statements; both layouts and policies; one kill | nothing is refused, the records match, the verdict is honest, the order is the plan's |
| `dumps` | MCDiscovery | all directories of up to four files out of three dumps whose prefixes begin one another | one dump is found as itself |
| `manifest_text` | MCManifestText | no class, two classes (one name with a blank), names with every separator; statements of one line, of two and with a line that begins with a bracket; shortfalls in every section; two resumes at any write | graph and records come back, the verdict with them, once lost is lost once, nothing is refused |
| `files` | MCRecordFiles | three edges, the last one held, any of them with orphans, repairs between runs; three kills, failed calls or power failures | the manifest is whole, never ahead, and at most one phase behind unless a commit came before the directory was flushed (`late`); the stores agree unless a power failure lost the exceptions |

Why the bounds are enough for the questions asked:

* Two faults in `safety`: the property of one restart is violated by one kill;
  a second one reaches a resumed run in the middle, which is where a record that
  was overwritten too early or a guard that was given a stale snapshot would
  show. A third would restart a run that has resumed from a resumed one's
  record, which is a record of the same kind; the proofs do without the bound.
* A circle of two tables has a parent and a child on each side; one of them has
  a unique besides the primary key, so a pending key that is not the primary key
  withholds an edge; two FKs are needed for fail-fast. Two batches for one class
  let a kill leave half of it. Each table has its own primary key (`OwnKeys`);
  what happens without is in section 7.
* `pool`: three files over two slots make the pool fill, refill and drain; two
  runs make orphans meet a reload.
* `graph`: three classes are the fewest for two cycles that share an edge, which
  is where the search misses one; four FKs allow it. Larger instances run by
  hand (three classes with up to nine FKs and three inheritance edges; four
  classes with five FKs) agree.
* `manifest_text`: a value that survives one resume and is lost in the second
  would need a text that differs after being read and rendered once; two resumes
  show it (`LosesOnce` says that it does not happen, up to the spelling of a
  statement that was lost). Each separator of the
  parser occurs in a name of each kind of record.
* `files`: an edge is rejected, held, or behind a rejected one; with three edges
  all three occur at once. Three stops: one leaves the exceptions of an attempt
  behind, one more the half-written ones of the next, and one is left for a
  power failure.
* `targets`: two names, and two databases of one name; two `.prev` slots so that
  they run out.

Every property of these runs has a mutant in `PROJECT.json`: a plausible slip in
the code's own terms (a dropped guard, a guard applied to the wrong phase, a
counter not updated, a record overwritten) with which the property fails. The
mutants stand beside the definitions they replace.

Type invariants are proved where a module has proofs (section 6) and then not a
run of their own.

Violations (section 7): `skip`, `already`.

## 5. Fairness

`safety` and all proofs need none. Three runs make claims about the end:

* `live` (`Completes`). A run that is not killed goes on (`WF RunStep`): the
  program is sequential and waits for nobody but the server. Somebody re-runs
  the command (`SF Start`), with the plain options, and empties the target when
  told to (`SF EmptyTarget`, enabled only while the manifest says DISCOVERED):
  this is what `README.md` of the repository asks for. Strong fairness, since
  the operator acts only between runs. `--restart` is not among the plain options,
  and without it an import whose definition a refused commit lost need not end:
  `Completes` excepts it (`<>[]lost`). Kills and failures are bounded by
  `MaxFaults`; without a bound a killer could always win.
* `pool` (`PoolEnds`). The parent and each child are scheduled (weak fairness on
  each); a `loaddb` that has rows left commits or ends. The kill is not fair.
* `NoIdleStep` of `graph` needs no fairness: each step decreases a natural
  number and no state but the last lacks a step (deadlock is checked).

Deadlock is checked everywhere but in `pool`, where the bound on runs stops the
model.

## 6. Proofs

All proofs are for arbitrary constants that satisfy the named assumptions
(`ConstantAssumption`, `DumpDirAssumption`, `LoadPoolAssumption`,
`GraphAssumption`, `ScheduleAssumption`, `ConstraintsAssumption`,
`RecordFilesAssumption`, `DiscoveryAssumption`, `ManifestTextAssumption`); TLC
evaluates those on the instances.

**ImportDB_proofs.** `MarkerNeverAhead` relates two stores that no single step
writes together, so it is not inductive: `WriteLoaded` preserves it only since
`LoadEnd` found all batches fed and `Truncate` had emptied the tables. `IInv`
records this with one predicate, `Sound(phase, m, d)`: an import that has reached
`phase` with the records `m` can go on in the database `d`. It holds of
`(manifest.phase, manifest, db)` always, of the transaction before a commit, and
of the next phase for the records in memory before a marker is written. Its
clauses fix the records by the catalog (a key is pending exactly when the catalog
lacks it), which is why a re-entered phase arrives at the same record; `Entering`
says what the guarded phase finds. What is known of a complete definition stands apart
in `Whole`, which holds unless the definition's commit was refused (`lost`); of
the others `Sound` says what is left: the constraints are one of three sets
(`Staged`), as the schema defines classes, keys and FKs in this order, and the
transaction may hold more than the database up to Strip (`Loose`). There is one
lemma per action. From
`Inductive`: `TypeCorrect`, `MarkersDurable`, `PendingExact`, `RecordKept`,
`LoadsBare`, `DryRunSafe`; `ResumeAccepted`, which assumes `OwnKeys`, the only
result that does; and `SuccessIsComplete`, which assumes that every FK is a graph
edge. Without its assumption either is false (section 7; run `skip`).
`Policies` may be both values in all of these. `WithheldExact` needs a constant
policy and, beside `IInv`, what a killed FK phase may have left: `FkInv` says that
it has committed all the edges that the policy lets it define, or none of them,
so a re-entered phase records the same edges as withheld. When the policy
changes between two runs that is false (section 7).

**DumpDir_proofs.** `Inv` says whose record the manifest is at each step of a
run: once a run has decided to go on, the file bears its own target's name and
the phase the run is in, and it is written over only when it was moved away
first: `RecordOwned`, `InterruptedRecordKept`. What a record says of the rows in
its target needs more, as targets of one name are told apart by their contents
alone. `Apart` adds it: a database in use never becomes the subject of a record
(`InUseKept`, `RunInUse`), a record that says LOADED is true of the target with
its name (`RecordTrue`, `RunTarget`), and a graph that was read is not empty
(`RunGraph`). It holds under `Guardable`: the dump has a key, two empty targets
have different names, and no other target has the name of one that is emptied
between runs. From it `ProductionSafe`, `RowsSafe`, `ImportedSafe`. Without any
one of the conditions they are false: a dump without keys gives the resume guard
nothing to look for, and a target that is empty at DEFINED lets a resume build
an empty graph, which every database matches.

**Crash_proofs, LoadPool.** `IInv` ties the counter to the tracked children, the
children to the parent that lives, and the rows to what those children have fed.
`NoOrphans`, `Bounded` and `Refinement` (`Spec => Abstract!Spec`: initial states
map to initial states, each step to a step of `BulkLoad` or a stutter; a reload
after a kill is `BulkLoad`'s `Begin`). `LoadedOnce` needs the rows of each file
exactly, not only their bound: a file's rows are those its child has committed
since the truncation, and a child that ended well has committed all of them.

**Crash_proofs, RecordFiles.** `Possible` is the set of manifests that a power
failure may leave; `RecordsInv` says that each is flushed, `PhaseInv` how far behind it
may be at each call, `CatalogInv` and `ExceptionsInv` that each agrees with the
catalog and with the exceptions. The clauses about a manifest quantify over
`Possible` and not over what is visible, as `PowerFailure` turns the one into the
other (all of them in `RecordInv`). `ManifestWhole`, `OneBehind`, `StoresAgree`.
`OneBehind` bounds how far the manifest is behind only where the directory was
flushed before each commit; the code does not see to that (section 7).

**DependencyGraph_proofs.** The core is that the FKs left after removing those
between classes on *listed* cycles are acyclic, although not all cycles are
listed. `IInv` says that the stack is a path of grey classes, and of every edge
that has been looked at that both its ends are on a listed cycle, or its parent
finished before its child, or its parent is above its child on the stack. When
the stack is empty only the first two remain, so along every kept edge the
classes turn black in one direction (`finished` is that order, a history
variable). For the layering: a class's counter is the number of
predecessors not placed yet. `ListedAreCycles`, `NoCycleKept`, `Topological`,
`AllPlaced`. `NeverIdle` counts what is left (white classes, grey ones, edges to
look at, classes without a level) and shows that each step lowers the sum.

**Schedule_proofs.** `IInv` says which tasks are on the list in each loop and
that prerequisites are exactly the positions of what a task waits for.
`AlwaysValid`, `PlanIsRight`, `Refinement`.

**Constraints_proofs.** The argument is that a kill changes nothing in the long
run: what a phase leaves in the catalog and in its record is a function of the
dump and of what fails, which does not mention the kills. `KeyPart` and `FkPart`
are these functions for the keys and the edges, `RecordAt` for the saved record
at each marker; `IInv` says that every finished phase has reached them, and of
the phase under way that what it has done and what it still has to do add up to
them (`StripInv`, `KeyInv`, `FkInv`, `EndInv`, one for each part of the
pipeline). That the guards of a re-entered phase skip exactly what was committed
is where the proof would break if a snapshot were stale. `RecordsTrue`,
`NothingForgotten` and `VerdictHonest` then compare the functions with the
properties; `PlanFollowed` compares the order of two tasks in the worst case,
when one of them was settled by a run that was killed. `NothingRefused` assumes
`Acceptable`: no skipped class refers to a kept one, and the parent of each FK
has the primary key itself. Both are necessary (section 7).

**Reading_proofs, Discovery.** File names are sequences of symbols of any length. Each
suffix of a dump's file ends in a symbol of its own, so the last symbol of a name
says which suffix it can have (`RoleOfSuffix`), and a name that one dump explains
has one role only (`OneRole`). `DInv` says of the import set at each step that a
role is filled exactly when its file is there and has been looked at (`Roles`),
and what a resolved set has (`Resolved`): `FilesThere`. For a directory with one
dump, `Leads` adds that no step leaves the way to it: the first anchor found has
the dump's prefix whichever entry it is (`DerivePrefixLeads`), no entry is
foreign (`ClassifyLeads`), nothing is missing at the end (`ResolveLeads`). From
both, `DumpFound`.

**Reading_proofs, ManifestText.** The texts are sequences of any length over any
words. The parser's functions are recursive functions over such sequences, so
each is first given its step (`SplitNext`, `ReadNext`, `FlattenNext`) and then
what it makes of a concatenation (`SplitAt`, `ReadCat`, `PrintedCat`), by
induction with sets (`SeqAdd`, `SeqFront`), which needs no operator parameter.
`Loose` is the kind of summary that reading keeps: names on one line, statements
whose further lines are nobody's (`Prose`). `EntryLines` shows that an entry of
such a summary is printed on lines none of which is a header, and `PlainStays`
that such lines leave the phase and the set of sections alone, whatever they do
to the records; hence `ReadRender`: the text of any such summary is read back
with its phase and its sections. `IInv` adds what each phase owes. `Complete`.

**Survival_proofs.** What comes back of the records of the finished phases, for
texts of any length and any number of resumes. For each section but `[graph]`,
which has an argument of its own below, there is the set `Raw` of what a phase may hand over (`SrcRaw`), the set `Taken`
of what the reader may make of it, and `Outcome`, the values that reading one
text may yield. The hard part is that a section is a list of entries of which
some may be lost: a further line of a message that begins with a bracket ends
the section, so what follows is read under a header that is nobody's.
`Near` (in `Reading_proofs`) is the state of the reader then: the section as far
as it was read, under its own header or astray. `NearEntry` says what one entry makes of such a state,
`ListRead` and `BlocksRead` carry that over a whole list, in one line or two for
each item, and `LinesRead`, `PairsRead` give what a list becomes: the same length
or shorter, the same while the items are sound, and empty only if it was empty.
From these one lemma for each section (`StripRead`, `LoadRead`, `RebuildRead`,
`ValidateRead`, `FkRead`, `StatsRead`, `TriggersRead`); `RecordRead` puts the
sections together. `OutcomeTaken` is the core of the later resumes: a value in
`Taken` is read again as itself, but for a lost statement, which is written as
"(none)" and read back as that (`Again`). So `Kept(s, k, w)`, that `w` is `k` or
came of one reading of `k` and perhaps the spelling of its statements, is closed
under reading (`KeptRead`), and the invariant `KInv` says that of every section,
both for what the run holds and for what its file says; of the restored sections
that they are in `Taken`; and that a run has no section that its phase does not
owe (`NoMore`), so that no phase writes over a restored record (`WrittenKept`).
`Lasting`; from it `RecordLasts`, `VerdictLasts`, `LossIsOnce`. `VerdictLasts`
needs no condition on the names: lists are empty only if they were (`Alike`),
failed indexes are reached if nothing is pending, and an edge that reads as
violated was violated, which withholds it.

**Survival_proofs, the graph.** `[graph]` has lists inside its records, so they
have to come back item by item and not only as many. `Tidy` is the set of names
that nothing the parser separates at occurs in: `OrdinaryTidy` shows that a name
is in it when it is `Ordinary`, whatever its words are, blanks included.
`ListText` says what `JoinList` writes of a list of such names and `ListParsed`
that `ParseList` reads it back, by induction over the list with `JoinParts`;
`GraphRead` carries that through the lines of the section, one kind of record
after the other, each into the summary as far as it was read (`GraphTakes`). The
levels stand in another section, before it: `PlanValue` says when the reader gets
them, `LeavesGraph` and `PartCarries` that the sections behind leave both alone, hence
`RenderedGraph`: what is read of a manifest is the graph written to it, without
the levels if the order had not been made (`GraphOf`). The invariant `GInv` says
that what the run holds and what its file says is the graph on record, or that
graph without its levels after `planless`; that it is inductive needs `IInv`, for
the shape of what the file holds, and `KInv`, for its sections. `GraphResumed` is
the step that matters: a file written before the order was made is told by its
second line (`SecondLine`), which is what sets `planless`, so no other resume
loses the levels. `GraphKeptAlways`; from it `GraphLasts`.

`GraphNames` spells out its parentheses: without them the prover and the model
checker read a union of `UNION`s differently.

Only model-checked: `Completes` and `PoolEnds`, as liveness under fairness is out
of the prover's reach. Every invariant of a passing run is stated by a theorem,
and so is every other property of one that is not about liveness.

The proof of `LossIsOnce` showed, while it was planned, that `LosesOnce` was too
strong: a pending key whose reason has a second line that begins with a bracket
loses its repair statement in the first resume, which is then written as
"(none)", and the second resume takes "(none)" for the statement. The property
says so now (`Spelled`), and the instance has such a reason.

## 7. Where the code and its documentation differ

Two runs show a disagreement, each with a trace from TLC:

* `skip`: with `--skip-object-classes` an FK whose parent class is skipped is
  stripped with the other constraints of its class but is no graph edge, so
  nobody adds it back. `check_catalog_restored` notices and the first run exits
  non-zero; that answer is not recorded, and the repeated command says "already
  imported" with exit code 0.
* `already`: the DONE branch answers before the identity of the target is
  compared, so it also answers for a database that was never imported.

More statements of the documentation are defined as properties in the modules
and fail, or hold only under a restriction that the runs and theorems name. They
can be checked by hand with the instance given.

| property | statement | instance | what happens |
|---|---|---|---|
| `ReportMatchesExit` (Constraints) | import_report.hpp:46, the verdict "matching the process exit code" | `constraints` | a failed index makes the exit code non-zero; import_report.cpp:130 does not ask for it and prints COMPLETE |
| `MissingFileNoticed` (Discovery) | import_db.cpp:328, "a class without one means the file is missing" | `dumps` | the file of class `big_t` satisfies the suffix test for class `t`, whose own file may then be missing |
| `RepairStatementKept` (ManifestText) | import_manifest.cpp:1309, "the operator's exact repair statement" | `manifest_text` | a statement of two lines, which is how unloaddb writes a primary key (tests/fixtures/dumps/pre112p7_synonym_schema:35), comes back as its first line; a line of it that begins with a bracket is taken for a header and the rest of the section is dropped; a key without a statement comes back with the statement "(none)" |
| `FileNameKept` (ManifestText) | import_manifest.cpp:1404, the counts are the last two fields whatever the name holds | a blank in `file` | the name is cut to its last word |
| `GraphSurvives` without `Ordinary` (ManifestText) | import_manifest.cpp:1249 | `manifest_text` | a comma in a column, constraint or class name splits a list, an arrow a cycle |
| `ExceptionsCurrent` (RecordFiles) | import_fkdefine.cpp:148, "always leave exactly one current copy of each" | `files` | the orphan part is rewritten only when there are orphans: after a repair it stays, in front of the current withheld part; with nothing withheld any more the whole artifact stays |
| `RepairsListed` without `lost` (RecordFiles) | import_fkdefine.cpp:474 | `files` | the artifact is not flushed; after a power failure the manifest may name repairs that are on no disk |
| `AtMostOneBehind` without `late` (RecordFiles) | import_manifest.cpp:730 | `files` | the result of the directory's fsync is ignored, and a run killed before it is resumed from the new manifest: a later power failure can bring the old one back behind two commits |
| `HonestDefinition` (ImportDB) | import_session.cpp:86, a failed commit "must not advance the manifest"; import_db.cpp:851, "the phase marker is honest" | `safety` | `define()` does not look at the result of its commit (import_define.cpp:665): refused, DEFINED is recorded all the same, over an empty schema or over what a `COMMIT WORK` of the schema file had made durable |
| `MarkerNeverAhead`, `SuccessMeansImported`, `ResumeNeverStuck`, `Completes` without `lost` (ImportDB) | the same lines, and import_db.cpp:616 | `safety`, `live` | what follows from it. The transaction was rolled back: the graph is read from what is left, so each plain re-run fails in the load for want of a class, or, where only FKs were lost, the import ends with exit 0 without them. The transaction is still open: the graph names all of the schema, and a kill before the commit of Strip leaves a target that `verify_resume_target` turns away in each re-run. Of the options only `--restart` gets past either, and only on an empty target |
| `ResumeNeverStuck` without `OwnKeys` (ImportDB) | import_fkdefine.cpp:229 | `ParentKeys` of `fk_ba` without `pk_a` | the FK refers to a primary key its parent has inherited; when that key is pending the edge is not withheld, so it is attempted and aborts this run and each one after it (the case of `HeirFks` below) |
| `PlanSurvives` (ImportDB) | import_manifest.cpp:1249, the plan is only unknown before the graph is built | `live`'s constants | a kill between the second and the third write of the DEFINED record leaves `[graph]` without `[plan]`; the resumed run takes over the graph and keeps the placeholder when it resumes at STRIPPED |
| `WithheldIsMissing` (ImportDB) | import_db.cpp:1208, a withheld edge "is left undefined" | `Policies = {TRUE, FALSE}` | edges defined under `--continue-on-error`, killed before the marker; the re-run without it stops at the first orphan and withholds edges that are in the catalog |
| `PrevNeverOverwritten` (DumpDir) | import_manifest.cpp:1079 "Never overwrite an existing .prev" | `DbName <- DistinctNames`, `LastPrev = 1` | the loop leaves with the last name without looking |
| `ImportedThisTarget` without `target \notin Production` | import_db.cpp:983, "make the target prove it is the database the manifest describes" | `DbName <- SameName` | from LOADED on only the classes are looked for; the import is completed, with success, in the other database of that name |
| `ProductionUntouched` (DumpDir) | import_db.cpp:988, no TRUNCATE over a same-named production database | `HasKeys = FALSE` | a dump without constraints gives the check nothing to miss |
| `EveryClassPlanned` (DependencyGraph) | tests/cases/ordering.sh:56 | `MaxInherit = 1` | a superclass with an FK to its subclass: neither gets a level |
| `CyclesListed` | import_graph.hpp:111 "the list of FK cycles" | three classes | a second cycle that joins the first at a black class is not listed |
| `NoUserClassMissing` | import_graph.hpp:157 | a class with `__p__` in its name | a user table named like a partition is in no graph and no report |
| `NoRefusal` (Constraints) | import_fkdefine.cpp:229, an edge without a parent key cannot be defined | `Fk <- HeirFks` | an FK to a subclass whose inherited key is pending is attempted and aborts this run; a resume takes the same pending record and aborts again |
| `NoRefusal` (Constraints) | import_strip.cpp:163, FKs before the keys they refer to | `Class <- SkipClasses`, `Node <- SkipNodes`, `Family <- NoSubclass`, `Key`, `Faulty <- SkipKeys`, `Fk <- SkipFks`, `Index = {}` | the FK of a skipped class stays; the engine refuses the drop of the kept class's key |
| `ForeignRefused` (Discovery) | import_discovery.cpp:225 "a foreign-prefix artifact is a prefix mismatch" | `dumps` | the files of dump `a_z` beside dump `a` are not foreign |
| `OneLayout` (Discovery) | import_discovery.hpp:49 | `dumps` | a single object file and a per-class one are rostered together |

## 8. What is not modelled

* The anti-join that lists the orphan rows: it compares columns, nulls included,
  in SQL that the engine evaluates; the models take an edge to have orphans or
  not.
* Of the manifest, the format version, the text of [set] and the tallies that no
  reader takes up; a manifest that another program or an operator has edited.
* The DDL scanner: the models see what its users see of a statement, and that it
  may not recognise one.
* The rewriting of old-format schema statements, the filter of ignored classes,
  page-buffer and HA checks, authentication.
* Owners: classes are told apart by name. Serials and partitions.
* Two `importdb` processes at once on one directory. Nothing in the code keeps
  them apart and nothing in the documentation promises what happens, so there is
  no property to state beyond that they should be kept apart.
* The progress display, argument parsing, messages, tests, tools and build
  files.

## 9. Plan

Done, in this order: `ImportDB` with its invariant and proofs, `DumpDir`,
`LoadPool` with `BulkLoad`, `DependencyGraph`, `Schedule` with `TerminalOrder`,
`Constraints`, `Discovery`; then `ManifestText`, `RecordFiles` with its proofs,
the proofs about `Constraints`, about the rows of `LoadPool` and about targets
of one name in `DumpDir`; the proofs about `Discovery` and about what comes back
of the records and of the graph in `ManifestText`.

Left:

1. `Constraints` as a refinement of the phases of `ImportDB` (one step for each
   committed phase), for which the functions of `Constraints_proofs` are the
   mapping.
2. The engine's notion of an orphan row against the anti-join's, with composite
   and null columns.
3. Owners: two classes of one name, and the ignore filter that drops the owner.
4. Concurrent runs in one directory, as a composition of two `DumpDir` processes.
