------------------------------ MODULE Constraints ------------------------------
(***************************************************************************)
(* The life of the constraints of a dump, statement by statement: strip()  *)
(* drops them from the defined tables, rebuild() adds the keys back to the *)
(* loaded tables and builds the plain indexes, define_fks() adds the       *)
(* foreign keys, update_stats() and define_triggers() end the work, and    *)
(* check_catalog_restored() asks the catalog whether all of it is there.   *)
(* ImportDB has each of these phases as one step; here the statements of   *)
(* the dump, the classes that inherit constraints, the names that classes  *)
(* share and the answers of the engine are spelled out.                    *)
(*                                                                         *)
(* Each phase is one transaction, committed before the marker is written;  *)
(* a kill loses what is not committed and the next run re-enters the phase *)
(* that has no marker, guarded by the catalog it reads once.               *)
(*                                                                         *)
(* Simplifications.  The load between strip and rebuild changes no         *)
(* constraint and is left out.  The loops over nodes and over the key      *)
(* statements take them in any order; foreign key statements keep theirs,  *)
(* since fail-fast depends on it.  The options do not change between the   *)
(* runs (ImportDB lets them).  The engine is external: it refuses to drop  *)
(* a primary key that a foreign key refers to, and to add a foreign key    *)
(* whose parent has no primary key.                                        *)
(***************************************************************************)
EXTENDS Naturals, FiniteSets, Functions

CONSTANTS
  Class,     \* the classes of the dump
  Node,      \* graph.nodes: those that were not skipped
  Family,    \* [Class -> SUBSET Class]: the class and all its subclasses
  Key,       \* the primary keys and uniques: [kind, cls, name]
  Fk,        \* the foreign keys: [kind, cls, name, parent]
  Index,     \* the plain indexes of <prefix>_indexes
  NoKey,     \* a class without a primary key
  Faulty,    \* what may be at fault in a dump, of Key, Fk, Index and Node
  MaxFaults  \* bound: kills and re-runs in a behaviour

Con == Key \cup Fk

(* A constraint has one name on its class and on those that inherit it, a  *)
(* class has one primary key, and a class that is skipped for its object   *)
(* columns has only skipped subclasses, as they inherit the columns.       *)
ASSUME ConstraintsAssumption ==
  /\ Node \subseteq Class
  /\ Family \in [Class -> SUBSET Class]
  /\ \A c \in Class : c \in Family[c]
  /\ \A c \in Class : \A d \in Family[c] : Family[d] \subseteq Family[c]
  /\ \A c, d \in Class : c \in Family[d] /\ d \in Family[c] => c = d
  /\ \A c \in Class, d \in Node : d \in Family[c] => c \in Node
  /\ \A k \in Key : k.kind \in {"pk", "unique"} /\ k.cls \in Class
  /\ \A f \in Fk : f.kind = "fk" /\ f.cls \in Class /\ f.parent \in Class
  /\ \A k, l \in Con : k.name = l.name /\ Family[k.cls] \cap Family[l.cls] # {}
                         => k = l
  /\ \A k, l \in Key : k.kind = "pk" /\ l.kind = "pk"
                       /\ Family[k.cls] \cap Family[l.cls] # {} => k = l
  /\ IsFiniteSet(Fk)
  /\ MaxFaults \in Nat

VARIABLES
  dump,       \* statements of the dump, what is wrong with it, the options
  catalog,    \* constraints and indexes as the open transaction sees them
  committed,  \* and as the next connection would
  pc,         \* the loop the run is in
  todo,       \* what that loop has still to visit
  stop,       \* stop_attempting
  rec,        \* the phase summaries
  saved,      \* those of the phases that the manifest marks
  marked,     \* the last of those phases
  guarded,    \* whether the re-entered phase is given the catalog...
  present,    \* ...as it was when the run resumed
  report,     \* the verdict print_report prints
  outcome,    \* how the run ended
  faults      \* kills and re-runs so far

store == <<catalog, committed>>
durable == <<saved, marked>>
guard == <<guarded, present>>
verdict == <<report, outcome>>
vars == <<dump, store, pc, todo, stop, rec, durable, guard, verdict, faults>>

-----------------------------------------------------------------------------
(* graph.fk_edges. The query behind it (import_graph.cpp l.317, of         *)
(* information_schema.referential_constraints) is external; it is taken to *)
(* list a foreign key for the class that owns it only, not for the         *)
(* subclasses that inherit it.                                             *)
Edge == {f \in Fk : f.cls \in Node /\ f.parent \in Node}

(* node_constraints: what the catalog lists for the classes of the graph,  *)
(* inherited copies included.                                              *)
Listed == {e \in Con \X Node : e[2] \in Family[e[1].cls]}

ListedOf(kind) == {e \in Listed : e[1].kind = kind}

(* catalog_state::has_index                                                *)
Has(cons, c, name) == \E k \in cons : k.name = name /\ c \in Family[k.cls]

(* Mutant: an inherited copy is dropped on the subclass as well.           *)
MutInherited(e) == FALSE

(* is_inherited_constraint: a superclass lists a constraint of that name.  *)
Inherited(e) ==
  \E d \in Node \ {e[2]} :
    /\ e[2] \in Family[d]
    /\ Has(Con, d, e[1].name)

NoRecord ==
  [stripped |-> {}, rebuilt |-> {}, pending |-> {}, held |-> {},
   indexed |-> FALSE, failedIdx |-> {}, defined |-> {}, violated |-> {},
   withheld |-> {}, analyzed |-> {}, statFail |-> {}, triggers |-> FALSE,
   trigFail |-> FALSE]

(* A file of key statements: each adds keys of one class.  A statement the *)
(* parser cannot match to a class and a name is as good as missing.  In    *)
(* the split layout primary keys and uniques are in files of their own.    *)
KeyFile(split) ==
  {F \in SUBSET {s \in SUBSET Key : s # {} /\ \A k, l \in s :
                   k.cls = l.cls /\ (split => k.kind = l.kind)} :
     \A s, t \in F : s \cap t # {} => s = t}

Full == [con |-> Con, idx |-> {}]

-----------------------------------------------------------------------------
Init ==
  /\ \E split, cont, trig \in BOOLEAN, fks \in SUBSET Fk, bad \in SUBSET Faulty,
        rank \in Bijection(Fk, 1 .. Cardinality(Fk)) :
       \E keys \in KeyFile(split) :
         dump = [split |-> split, keys |-> keys, fks |-> fks, rank |-> rank,
                 bad |-> bad, trig |-> trig, cont |-> cont]
  /\ catalog = Full
  /\ committed = Full
  /\ pc = "drop_fk"
  /\ todo = ListedOf("fk")
  /\ stop = FALSE
  /\ rec = NoRecord
  /\ saved = NoRecord
  /\ marked = "DEFINED"
  /\ guarded = FALSE
  /\ present = {}
  /\ report = "none"
  /\ outcome = "none"
  /\ faults = 0

Visited(x) ==
  /\ x \in todo
  /\ todo' = todo \ {x}
  /\ UNCHANGED <<dump, committed, pc, durable, guard, verdict, faults>>

(* Each loop, and what the next one visits.                                *)
Loop(here, there, items) ==
  /\ pc = here
  /\ todo = {}
  /\ pc' = there
  /\ todo' = items
  /\ UNCHANGED <<dump, store, stop, rec, durable, guard, verdict, faults>>

(* A statement failed that should not have: error_exit, everything since   *)
(* the last commit is rolled back.                                         *)
Abort ==
  /\ pc' = "failed"
  /\ todo' = {}
  /\ catalog' = committed
  /\ rec' = saved
  /\ stop' = FALSE
  /\ UNCHANGED <<dump, committed, durable, guard, verdict, faults>>

-----------------------------------------------------------------------------
(* strip: all foreign keys, then all uniques, then all primary keys.       *)

(* The engine drops a constraint on the class that owns it, and a primary  *)
(* key only when nothing refers to it.                                     *)
Droppable(e) ==
  /\ e[1].cls = e[2]
  /\ e[1] \in catalog.con
  /\ e[1].kind = "pk" =>
       ~\E f \in catalog.con \cap Fk : f.parent \in Family[e[2]]

Strip(e) ==
  /\ pc \in {"drop_fk", "drop_unique", "drop_pk"}
  /\ \/ /\ Inherited(e)
        /\ Visited(e)
        /\ UNCHANGED <<catalog, rec, stop>>
     \/ /\ ~Inherited(e)
        /\ guarded /\ ~Has(present, e[2], e[1].name)
        /\ rec' = [rec EXCEPT !.stripped = @ \cup {e[1]}]
        /\ Visited(e)
        /\ UNCHANGED <<catalog, stop>>
     \/ /\ ~Inherited(e)
        /\ guarded => Has(present, e[2], e[1].name)
        /\ \/ /\ Droppable(e)
              /\ catalog' = [catalog EXCEPT !.con = @ \ {e[1]}]
              /\ rec' = [rec EXCEPT !.stripped = @ \cup {e[1]}]
              /\ Visited(e)
              /\ UNCHANGED stop
           \/ /\ ~Droppable(e)
              /\ e \in todo
              /\ Abort

EndStrip ==
  \/ Loop("drop_fk", "drop_unique", ListedOf("unique"))
  \/ Loop("drop_unique", "drop_pk", ListedOf("pk"))
  \/ Loop("drop_pk", "commit", {})

-----------------------------------------------------------------------------
(* rebuild: the dump's own statements that add what was stripped.          *)

(* Mutant: constraints are looked up by name alone.                        *)
MutTargets(s) == {k \in rec.stripped \cap Key : \E l \in s : l.name = k.name}

Targets(s) == s \cap rec.stripped

(* withhold_child_fks                                                      *)
Children(keys) == {e \in Edge : \E k \in keys : e.parent = k.cls}

AddKey(s) ==
  /\ pc = "add_key"
  /\ dump.split /\ (\E k \in s : k.kind = "unique")
       => \A t \in todo : \A k \in t : k.kind = "unique"
  /\ LET keys == Targets(s)
         back == guarded /\ \A k \in keys : Has(present, k.cls, k.name)
         works == s \cap (catalog.con \cup dump.bad) = {}
     IN  \/ /\ keys = {}
            /\ UNCHANGED <<catalog, rec>>
         \/ /\ keys # {} /\ back
            /\ rec' = [rec EXCEPT !.rebuilt = @ \cup keys]
            /\ UNCHANGED catalog
         \/ /\ keys # {} /\ ~back /\ works
            /\ catalog' = [catalog EXCEPT !.con = @ \cup s]
            /\ rec' = [rec EXCEPT !.rebuilt = @ \cup keys]
         \/ /\ keys # {} /\ ~back /\ ~works
            /\ rec' = [rec EXCEPT !.pending = @ \cup keys,
                                  !.held = @ \cup Children(keys)]
            /\ UNCHANGED catalog
  /\ Visited(s)
  /\ UNCHANGED stop

(* Mutant: the index file is not read.                                     *)
MutBuildIndexes ==
  /\ pc = "index"
  /\ pc' = "account_key"
  /\ UNCHANGED <<dump, store, todo, stop, rec, durable, guard, verdict, faults>>

(* An index that a killed run committed is in the catalog when the phase   *)
(* is re-entered; the guard counts it as built.                            *)
BuildIndexes ==
  /\ pc = "index"
  /\ LET built == Index \ dump.bad
     IN  /\ catalog' = [catalog EXCEPT !.idx = @ \cup built]
         /\ rec' = [rec EXCEPT !.indexed = TRUE, !.failedIdx = Index \ built]
  /\ pc' = "account_key"
  /\ UNCHANGED <<dump, committed, todo, stop, durable, guard, verdict, faults>>

(* Mutant: what no statement matched is forgotten.                         *)
MutAccountKeys ==
  /\ pc = "account_key"
  /\ pc' = "commit"
  /\ UNCHANGED <<dump, store, todo, stop, rec, durable, guard, verdict, faults>>

(* A stripped key that no statement matched is pending too.                *)
AccountKeys ==
  /\ pc = "account_key"
  /\ LET lost == (rec.stripped \cap Key) \ (rec.rebuilt \cup rec.pending)
     IN  rec' = [rec EXCEPT !.pending = @ \cup lost,
                            !.held = @ \cup Children(lost)]
  /\ pc' = "commit"
  /\ UNCHANGED <<dump, store, todo, stop, durable, guard, verdict, faults>>

-----------------------------------------------------------------------------
(* define_fks: the dump's foreign key statements, in their order.          *)
First(f) == \A g \in todo : dump.rank[f] <= dump.rank[g]

HeldBack(f) == f \in rec.held \/ stop

(* The engine has the primary key it builds the foreign key on.            *)
ParentKeyThere(f) ==
  \E k \in catalog.con \cap Key : k.kind = "pk" /\ f.parent \in Family[k.cls]

AddFk(f) ==
  /\ pc = "add_fk"
  /\ f \in todo /\ First(f)
  /\ \/ /\ f \notin Edge
        /\ Visited(f)
        /\ UNCHANGED <<catalog, rec, stop>>
     \/ /\ f \in Edge /\ HeldBack(f)
        /\ rec' = [rec EXCEPT !.withheld = @ \cup {f}]
        /\ Visited(f)
        /\ UNCHANGED <<catalog, stop>>
     \/ /\ f \in Edge /\ ~HeldBack(f)
        /\ guarded /\ Has(present, f.cls, f.name)
        /\ rec' = [rec EXCEPT !.defined = @ \cup {f}]
        /\ Visited(f)
        /\ UNCHANGED <<catalog, stop>>
     \/ /\ f \in Edge /\ ~HeldBack(f)
        /\ guarded => ~Has(present, f.cls, f.name)
        /\ \/ /\ f \in catalog.con \/ ~ParentKeyThere(f)
              /\ Abort
           \/ /\ f \notin catalog.con /\ ParentKeyThere(f)
              /\ f \in dump.bad
              /\ rec' = [rec EXCEPT !.violated = @ \cup {f},
                                    !.withheld = @ \cup {f}]
              /\ stop' = ~dump.cont
              /\ Visited(f)
              /\ UNCHANGED catalog
           \/ /\ f \notin catalog.con /\ ParentKeyThere(f)
              /\ f \notin dump.bad
              /\ catalog' = [catalog EXCEPT !.con = @ \cup {f}]
              /\ rec' = [rec EXCEPT !.defined = @ \cup {f}]
              /\ Visited(f)
              /\ UNCHANGED stop

(* An edge that no statement matched is withheld too.                      *)
AccountFks ==
  /\ pc = "add_fk"
  /\ todo = {}
  /\ rec' = [rec EXCEPT !.withheld = @ \cup (Edge \ (rec.defined \cup rec.withheld))]
  /\ pc' = "commit"
  /\ UNCHANGED <<dump, store, todo, stop, durable, guard, verdict, faults>>

-----------------------------------------------------------------------------
(* update_stats and define_triggers record what failed and go on.          *)
Stats ==
  /\ pc = "stats"
  /\ rec' = [rec EXCEPT !.analyzed = Node, !.statFail = Node \cap dump.bad]
  /\ pc' = "commit"
  /\ UNCHANGED <<dump, store, todo, stop, durable, guard, verdict, faults>>

Triggers ==
  /\ pc = "trigger"
  /\ rec' = [rec EXCEPT !.triggers = TRUE, !.trigFail = ~dump.trig]
  /\ pc' = "commit"
  /\ UNCHANGED <<dump, store, todo, stop, durable, guard, verdict, faults>>

-----------------------------------------------------------------------------
(* The end of a phase: commit, then the marker.                            *)
Commit ==
  /\ pc = "commit"
  /\ committed' = catalog
  /\ pc' = IF marked = "STATS_UPDATED" THEN "verify" ELSE "mark"
  /\ UNCHANGED <<dump, catalog, todo, stop, rec, durable, guard, verdict, faults>>

MarkAfter ==
  [DEFINED |-> "STRIPPED", STRIPPED |-> "REBUILT", REBUILT |-> "FK_DEFINED",
   FK_DEFINED |-> "STATS_UPDATED", STATS_UPDATED |-> "DONE"]

(* The first loop of the phase that follows a marker, and what it visits.  *)
Enter(mark) ==
  [DEFINED |-> "drop_fk", STRIPPED |-> "add_key", REBUILT |-> "add_fk",
   FK_DEFINED |-> "stats", STATS_UPDATED |-> "trigger"][mark]

Work(mark) ==
  IF mark = "DEFINED" THEN ListedOf("fk")
  ELSE IF mark = "STRIPPED" THEN dump.keys
  ELSE IF mark = "REBUILT" THEN dump.fks
  ELSE {}

Mark ==
  /\ pc = "mark"
  /\ marked' = MarkAfter[marked]
  /\ saved' = rec
  /\ pc' = Enter(marked')
  /\ todo' = Work(marked')
  /\ guarded' = FALSE
  /\ present' = {}
  /\ stop' = FALSE
  /\ UNCHANGED <<dump, store, rec, verdict, faults>>

(* check_catalog_restored: every listed constraint is in the catalog, or   *)
(* recorded as not restored under the class and name it is listed with.    *)
Restored ==
  \A e \in Listed :
    \/ Has(catalog.con, e[2], e[1].name)
    \/ \E k \in rec.pending \cup rec.withheld :
         k.cls = e[2] /\ k.name = e[1].name

(* Mutant: a failed index does not count, as in print_report.              *)
MutShortfall ==
  \/ rec.pending # {}
  \/ rec.violated # {} \/ rec.withheld # {}
  \/ rec.statFail # {} \/ rec.trigFail

(* What makes a run exit non-zero, besides the answer of the catalog.      *)
Shortfall ==
  \/ rec.pending # {} \/ rec.failedIdx # {}
  \/ rec.violated # {} \/ rec.withheld # {}
  \/ rec.statFail # {} \/ rec.trigFail

(* And what makes print_report call it PARTIAL.                            *)
ReportsPartial ==
  \/ rec.pending # {}
  \/ rec.violated # {} \/ rec.withheld # {}
  \/ rec.statFail # {} \/ rec.trigFail

Finish ==
  /\ pc = "verify"
  /\ marked' = "DONE"
  /\ saved' = rec
  /\ pc' = "done"
  /\ outcome' = IF Restored /\ ~Shortfall THEN "success" ELSE "partial"
  /\ report' = IF Restored /\ ~ReportsPartial THEN "COMPLETE" ELSE "PARTIAL"
  /\ UNCHANGED <<dump, store, todo, stop, rec, guard, faults>>

(* The run is killed, or has failed, and the next one reads the catalog    *)
(* and re-enters the phase after the marker.                               *)
Restart ==
  /\ pc # "done"
  /\ faults < MaxFaults
  /\ faults' = faults + 1
  /\ catalog' = committed
  /\ rec' = saved
  /\ pc' = Enter(marked)
  /\ todo' = Work(marked)
  /\ stop' = FALSE
  /\ guarded' = TRUE
  /\ present' = committed.con
  /\ UNCHANGED <<dump, committed, durable, verdict>>

Done ==
  /\ pc \in {"done", "failed"}
  /\ UNCHANGED vars

Next ==
  \/ \E e \in Listed : Strip(e)
  \/ EndStrip
  \/ \E s \in todo : AddKey(s)
  \/ Loop("add_key", "index", {})
  \/ BuildIndexes
  \/ AccountKeys
  \/ \E f \in Fk : AddFk(f)
  \/ AccountFks
  \/ Stats
  \/ Triggers
  \/ Commit
  \/ Mark
  \/ Finish
  \/ Restart
  \/ Done

Spec == Init /\ [][Next]_vars

-----------------------------------------------------------------------------
Pc == {"drop_fk", "drop_unique", "drop_pk", "add_key", "index", "account_key",
       "add_fk", "stats", "trigger", "commit", "mark", "verify", "done", "failed"}

ItemsAt(step) ==
  CASE step = "drop_fk" -> ListedOf("fk")
    [] step = "drop_unique" -> ListedOf("unique")
    [] step = "drop_pk" -> ListedOf("pk")
    [] step = "add_key" -> dump.keys
    [] step = "add_fk" -> dump.fks
    [] OTHER -> {}

RecordType ==
  [stripped : SUBSET Con, rebuilt : SUBSET Key, pending : SUBSET Key,
   held : SUBSET Edge, indexed : BOOLEAN, failedIdx : SUBSET Index,
   defined : SUBSET Edge, violated : SUBSET Edge, withheld : SUBSET Edge,
   analyzed : SUBSET Node, statFail : SUBSET Node, triggers : BOOLEAN,
   trigFail : BOOLEAN]

CatalogType == [con : SUBSET Con, idx : SUBSET Index]

(* The type of every variable.                                             *)
TypeOK ==
  /\ catalog \in CatalogType /\ committed \in CatalogType
  /\ pc \in Pc
  /\ todo \subseteq ItemsAt(pc)
  /\ stop \in BOOLEAN
  /\ rec \in RecordType /\ saved \in RecordType
  /\ marked \in {"DEFINED", "STRIPPED", "REBUILT", "FK_DEFINED",
                 "STATS_UPDATED", "DONE"}
  /\ guarded \in BOOLEAN /\ present \subseteq Con
  /\ report \in {"none", "COMPLETE", "PARTIAL"}
  /\ outcome \in {"none", "success", "partial"}
  /\ faults \in 0 .. MaxFaults

(* The engine accepts every statement that importdb sends it, whatever a   *)
(* kill left behind, unless the data stands against it: no drop of what a  *)
(* superclass's drop took along or of a key still referred to, no second   *)
(* add, and no foreign key without its parent's key. Otherwise the run     *)
(* aborts, and so does every run that resumes it.                          *)
(*                                                                         *)
(* It holds only where the class of every foreign key is kept and its      *)
(* parent has the primary key itself and has not inherited it. Where       *)
(* either is not so it fails, as the instances SkipFks and HeirFks of      *)
(* MCConstraints show; see Acceptable in Constraints_proofs.               *)
NoRefusal == pc # "failed"

(* The summaries do not claim what the catalog does not have, nor record   *)
(* as missing what it has.                                                 *)
RecordsMatchCatalog ==
  /\ rec.rebuilt \cup rec.defined \subseteq catalog.con
  /\ (rec.pending \cup rec.withheld) \cap catalog.con = {}
  /\ rec.failedIdx \cap catalog.idx = {}

(* What strip dropped is rebuilt or pending, and every edge of the graph   *)
(* defined or withheld, whether or not a statement of the dump names it.   *)
AllAccounted ==
  /\ marked \in {"REBUILT", "FK_DEFINED", "STATS_UPDATED", "DONE"} =>
       /\ saved.rebuilt \cup saved.pending = {e[1] : e \in Listed} \cap Key
       /\ saved.rebuilt \cap saved.pending = {}
  /\ marked \in {"FK_DEFINED", "STATS_UPDATED", "DONE"} =>
       /\ saved.defined \cup saved.withheld = Edge
       /\ saved.defined \cap saved.withheld = {}

(* Exit 0 says that every constraint of the imported classes, every index, *)
(* every statistic and every trigger is there; a non-zero exit of a run    *)
(* that reached its end says that one of them is not.                      *)
HonestVerdict ==
  pc = "done" =>
    (outcome = "success" <=>
       /\ \A e \in Listed : Has(committed.con, e[2], e[1].name)
       /\ Index \subseteq committed.idx
       /\ Node \cap dump.bad = {} /\ dump.trig)

(* import_report.hpp: the verdict is "matching the process exit code".     *)
ReportMatchesExit ==
  pc = "done" => (report = "COMPLETE" <=> outcome = "success")

-----------------------------------------------------------------------------
(* The schedule that was printed for this graph.                           *)
NameOf(c) ==
  IF \E e \in ListedOf("pk") : e[2] = c
  THEN (CHOOSE e \in ListedOf("pk") : e[2] = c)[1].name
  ELSE NoKey

Plan == INSTANCE Schedule WITH
  graph <- [pk |-> [c \in Node |-> NameOf(c)],
            unique |-> {[cls |-> e[2], name |-> e[1].name] :
                        e \in ListedOf("unique")},
            edges |-> {[child |-> f.cls, parent |-> f.parent, name |-> f.name] :
                       f \in Edge},
            index |-> Index # {}, trigger |-> TRUE],
  step <- "ok", left <- {}, tasks <- <<>>,
  KeyName <- {k.name : k \in Key}, FkName <- {f.name : f \in Fk},
  MaxUnique <- 0, MaxEdge <- 0

Accounted == rec.rebuilt \cup rec.pending

(* The tasks of the schedule that are behind us, done or recorded as not   *)
(* done.  The owner's statement is also the task of those that inherit.    *)
Settled ==
  {[kind |-> "REBUILD_PK", item |-> e[2]] :
     e \in {x \in ListedOf("pk") : x[1] \in Accounted}}
  \cup {[kind |-> "REBUILD_UNIQUE", item |-> [cls |-> e[2], name |-> e[1].name]] :
     e \in {x \in ListedOf("unique") : x[1] \in Accounted}}
  \cup {[kind |-> "BUILD_INDEX", item |-> n] : n \in {x \in {NoKey} : rec.indexed}}
  \cup {[kind |-> "FK_DEFINE",
         item |-> [child |-> f.cls, parent |-> f.parent, name |-> f.name]] :
     f \in rec.defined \cup rec.withheld}
  \cup {[kind |-> "STATS", item |-> c] : c \in rec.analyzed}
  \cup {[kind |-> "DEFINE_TRIGGERS", item |-> n] : n \in {x \in {NoKey} : rec.triggers}}

(* The statements follow the schedule: no task of it is settled before all *)
(* the tasks it waits for are, in any run and after any kill.              *)
FollowsPlan ==
  [][\A t \in Settled' \ Settled :
       t \in Plan!TaskSet => Plan!WaitsFor[t] \subseteq Settled]_vars
================================================================================
