------------------------------- MODULE Schedule -------------------------------
(***************************************************************************)
(* build_schedule() and validate_schedule() of src/src/import_plan.cpp:    *)
(* the list of terminal tasks, each with the positions of the tasks that   *)
(* have to come before it, and the check that every run makes of its own   *)
(* list.                                                                   *)
(*                                                                         *)
(* Simplifications.  The loops over nodes, names and edges take them in    *)
(* the order of names or of a query; here, in any order.  The data levels  *)
(* are copied from the graph (DependencyGraph) and left out.               *)
(***************************************************************************)
EXTENDS Naturals, Sequences, FiniteSets

CONSTANTS
  Node,      \* graph.nodes
  KeyName,   \* names of primary keys and standalone uniques
  FkName,    \* names of foreign keys
  NoKey,     \* a class without a primary key
  MaxUnique, \* bound: uniques of the dump
  MaxEdge    \* bound: foreign keys of the dump

ASSUME ScheduleAssumption ==
  /\ NoKey \notin KeyName
  /\ MaxUnique \in Nat /\ MaxEdge \in Nat

VARIABLES
  graph,     \* what build_schedule reads of the graph and of the import set
  step,      \* the loop it is in, then its verdict
  left,      \* what that loop has still to visit
  tasks      \* sched.terminal_tasks

vars == <<graph, step, left, tasks>>

Unique == [cls : Node, name : KeyName]
Edge == [child : Node, parent : Node, name : FkName]

GraphType ==
  [pk : [Node -> KeyName \cup {NoKey}], unique : SUBSET Unique,
   edges : SUBSET Edge, index : BOOLEAN, trigger : BOOLEAN]

Few(S, n) == {T \in SUBSET S : Cardinality(T) <= n}

(* A terminal task: its kind and what it acts on.  The index file and the   *)
(* trigger file are one task each.                                         *)
Task == [kind : {"REBUILD_PK", "STATS"}, item : Node]
        \cup [kind : {"REBUILD_UNIQUE"}, item : Unique]
        \cup [kind : {"FK_DEFINE"}, item : Edge]
        \cup [kind : {"BUILD_INDEX", "DEFINE_TRIGGERS"}, item : {NoKey}]

-----------------------------------------------------------------------------
(* The loops, in their order, and what each of them visits.                *)
Loop == {"pk", "unique", "index", "fk", "stats", "trigger"}

(* Mutant: the foreign keys are listed before the unique constraints.      *)
MutFollows ==
  [pk |-> "index", index |-> "fk", fk |-> "unique", unique |-> "stats",
   stats |-> "trigger", trigger |-> "check"]

Follows ==
  [pk |-> "unique", unique |-> "index", index |-> "fk", fk |-> "stats",
   stats |-> "trigger", trigger |-> "check"]

Visits ==
  [pk      |-> {n \in Node : graph.pk[n] # NoKey},
   unique  |-> graph.unique,
   index   |-> {n \in {NoKey} : graph.index},
   fk      |-> graph.edges,
   stats   |-> Node,
   trigger |-> {n \in {NoKey} : graph.trigger}]

KindOf ==
  [pk |-> "REBUILD_PK", unique |-> "REBUILD_UNIQUE", index |-> "BUILD_INDEX",
   fk |-> "FK_DEFINE", stats |-> "STATS", trigger |-> "DEFINE_TRIGGERS"]

Positions == DOMAIN tasks

(* parent_keys_cache: the tasks that rebuild the keys of a class.          *)
KeysOf(n) ==
  {i \in Positions : \/ tasks[i].task = [kind |-> "REBUILD_PK", item |-> n]
                     \/ /\ tasks[i].task.kind = "REBUILD_UNIQUE"
                        /\ tasks[i].task.item.cls = n}

IndexTask == {i \in Positions : tasks[i].task.kind = "BUILD_INDEX"}

(* Mutant: an off-by-one, the trigger task waits for itself.               *)
MutPrereqs(s, x) ==
  IF s = "fk" THEN KeysOf(x.parent)
  ELSE IF s = "stats" THEN KeysOf(x) \cup IndexTask
  ELSE IF s = "trigger" THEN 1 .. Len(tasks) + 1
  ELSE {}

Prereqs(s, x) ==
  IF s = "fk" THEN KeysOf(x.parent)
  ELSE IF s = "stats" THEN KeysOf(x) \cup IndexTask
  ELSE IF s = "trigger" THEN Positions
  ELSE {}

-----------------------------------------------------------------------------
Init ==
  /\ \E p \in [Node -> KeyName \cup {NoKey}], u \in Few(Unique, MaxUnique),
        e \in Few(Edge, MaxEdge), i \in BOOLEAN, t \in BOOLEAN :
       graph = [pk |-> p, unique |-> u, edges |-> e, index |-> i, trigger |-> t]
  /\ step = "pk"
  /\ left = Visits["pk"]
  /\ tasks = <<>>

Emit(x) ==
  /\ step \in Loop
  /\ x \in left
  /\ left' = left \ {x}
  /\ tasks' = Append(tasks, [task |-> [kind |-> KindOf[step], item |-> x],
                             prereqs |-> Prereqs(step, x)])
  /\ UNCHANGED <<graph, step>>

NextLoop ==
  /\ step \in Loop
  /\ left = {}
  /\ step' = Follows[step]
  /\ left' = (IF step' = "check" THEN {} ELSE Visits[step'])
  /\ UNCHANGED <<graph, tasks>>

(* validate_schedule, check 1: a prerequisite is in range and earlier.     *)
EmittedInOrder ==
  \A i \in Positions : \A p \in tasks[i].prereqs : p \in Positions /\ p < i

(* Check 2, Kahn's algorithm over the prerequisites reaches every task:    *)
(* it cannot run dry while tasks are left.                                 *)
OrderExists ==
  \A S \in SUBSET Positions : S # {} =>
    \E i \in S : tasks[i].prereqs \cap S = {}

Validate ==
  /\ step = "check"
  /\ step' = IF EmittedInOrder /\ OrderExists THEN "ok" ELSE "invalid"
  /\ UNCHANGED <<graph, left, tasks>>

Finished ==
  /\ step \in {"ok", "invalid"}
  /\ UNCHANGED vars

Next ==
  \/ \E x \in left : Emit(x)
  \/ NextLoop
  \/ Validate
  \/ Finished

Spec == Init /\ [][Next]_vars

-----------------------------------------------------------------------------
(* The type of every variable.                                             *)
TypeOK ==
  /\ graph \in GraphType
  /\ step \in Loop \cup {"check", "ok", "invalid"}
  /\ left \subseteq (IF step \in Loop THEN Visits[step] ELSE {})
  /\ tasks \in Seq([task : Task, prereqs : SUBSET Nat])

(* A schedule that build_schedule produced is never rejected by its own    *)
(* check: ERR_INVALID_SCHEDULE, "a logic bug", cannot be returned.         *)
NeverInvalid == step # "invalid"

(* What the tasks really wait for, read off the graph: an FK is built on   *)
(* the keys of its parent, statistics describe every index of the class,   *)
(* and no trigger may fire on anything importdb does.                      *)
TaskSet ==
  UNION {{[kind |-> KindOf[s], item |-> x] : x \in Visits[s]} : s \in Loop}

KeyTasksOf(n) ==
  {t \in TaskSet : \/ t = [kind |-> "REBUILD_PK", item |-> n]
                   \/ t.kind = "REBUILD_UNIQUE" /\ t.item.cls = n}

WaitsFor ==
  [t \in TaskSet |->
     IF t.kind = "FK_DEFINE" THEN KeyTasksOf(t.item.parent)
     ELSE IF t.kind = "STATS"
       THEN KeyTasksOf(t.item) \cup {u \in TaskSet : u.kind = "BUILD_INDEX"}
     ELSE IF t.kind = "DEFINE_TRIGGERS" THEN TaskSet \ {t}
     ELSE {}]

Emitted == {tasks[i].task : i \in Positions}

Order == INSTANCE TerminalOrder WITH
  task <- TaskSet, after <- WaitsFor, performed <- Emitted

(* The order in which the tasks are listed is one in which they can be     *)
(* performed.                                                              *)
ImplementsOrder == Order!Spec

(* The prerequisites that are printed and checked are the real ones, and   *)
(* no task is missing from the list or on it twice: the check that passes  *)
(* is a check of the right thing.                                          *)
ScheduleIsPlan ==
  step \in {"check", "ok"} =>
    /\ Emitted = TaskSet
    /\ \A i, j \in Positions : tasks[i].task = tasks[j].task => i = j
    /\ \A i \in Positions :
         {tasks[p].task : p \in tasks[i].prereqs} = WaitsFor[tasks[i].task]
================================================================================
