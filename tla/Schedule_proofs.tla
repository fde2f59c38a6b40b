---------------------------- MODULE Schedule_proofs ----------------------------
(***************************************************************************)
(* Proofs about build_schedule for every graph: the check of the schedule  *)
(* never fails, and the schedule is an order the work can be done in.  The *)
(* inductive invariant says which tasks are emitted in which loop, and     *)
(* that the prerequisites of each are exactly what it waits for.           *)
(***************************************************************************)
EXTENDS Schedule, SequenceTheorems, WellFoundedInduction, TLAPS

Tk(s, x) == [kind |-> KindOf[s], item |-> x]

(* The loops that are over.                                                *)
Passed(st) ==
  IF st = "pk" THEN {}
  ELSE IF st = "unique" THEN {"pk"}
  ELSE IF st = "index" THEN {"pk", "unique"}
  ELSE IF st = "fk" THEN {"pk", "unique", "index"}
  ELSE IF st = "stats" THEN {"pk", "unique", "index", "fk"}
  ELSE IF st = "trigger" THEN {"pk", "unique", "index", "fk", "stats"}
  ELSE Loop

(* A task is emitted when its loop has visited it.                         *)
Placed ==
  \A s \in Loop : \A x \in Visits[s] :
    Tk(s, x) \in Emitted <=> s \in Passed(step) \/ (s = step /\ x \notin left)

Once == \A i, j \in Positions : tasks[i].task = tasks[j].task => i = j

Right ==
  \A i \in Positions :
    {tasks[p].task : p \in tasks[i].prereqs} = WaitsFor[tasks[i].task]

IInv ==
  /\ TypeOK
  /\ Placed
  /\ Emitted \subseteq TaskSet
  /\ Once
  /\ Right
  /\ EmittedInOrder
  /\ NeverInvalid

-----------------------------------------------------------------------------
(* The kind of a task tells the loop that makes it.                        *)
LEMMA KindsDiffer ==
  ASSUME NEW s \in Loop, NEW r \in Loop, NEW x, NEW y, Tk(s, x) = Tk(r, y)
  PROVE  s = r /\ x = y
  BY DEF Tk, KindOf, Loop

(* The tasks, loop by loop.                                                *)
LEMMA TaskSetIs ==
  TaskSet = {Tk("pk", x) : x \in Visits["pk"]}
            \cup {Tk("unique", x) : x \in Visits["unique"]}
            \cup {Tk("index", x) : x \in Visits["index"]}
            \cup {Tk("fk", x) : x \in Visits["fk"]}
            \cup {Tk("stats", x) : x \in Visits["stats"]}
            \cup {Tk("trigger", x) : x \in Visits["trigger"]}
  BY DEF TaskSet, Tk, Loop

(* A task is what some loop makes of something it visits.                  *)
LEMMA InTaskSet ==
  \A t : t \in TaskSet <=> \E s \in Loop : \E x \in Visits[s] : t = Tk(s, x)
  BY DEF TaskSet, Tk

(* What a loop makes is a task.                                            *)
LEMMA TaskType ==
  ASSUME graph \in GraphType, NEW s \in Loop, NEW x \in Visits[s]
  PROVE  Tk(s, x) \in Task
  BY DEF GraphType, Loop, Visits, Tk, KindOf, Task

(* What one of the emitted tasks is.                                       *)
LEMMA EmittedAt ==
  \A t : t \in Emitted <=> \E i \in Positions : t = tasks[i].task
  BY DEF Emitted

(* An empty set of prerequisites follows every task it refers to, and a    *)
(* set of earlier ones has a first: the second check adds nothing to the   *)
(* first.                                                                  *)
LEMMA OrderFollows ==
  ASSUME TypeOK, EmittedInOrder
  PROVE  OrderExists
<1> SUFFICES ASSUME NEW S \in SUBSET Positions, S # {}
             PROVE  \E i \in S : tasks[i].prereqs \cap S = {}
  BY DEF OrderExists
<1>1. Positions \subseteq Nat
  BY DEF Positions, TypeOK
<1>2. PICK i \in S : \A j \in S : ~(<<j, i>> \in OpToRel(<, Nat))
  BY <1>1, NatLessThanWellFounded, WFMin
<1>3. \A j \in S : ~(j < i)
  BY <1>1, <1>2 DEF OpToRel
<1>4. \A p \in tasks[i].prereqs : p < i
  BY DEF EmittedInOrder
<1> QED  BY <1>3, <1>4

(* The loops that are over while one runs.                                 *)
LEMMA PassedIs ==
  /\ Passed("pk") = {}
  /\ Passed("unique") = {"pk"}
  /\ Passed("index") = {"pk", "unique"}
  /\ Passed("fk") = {"pk", "unique", "index"}
  /\ Passed("stats") = {"pk", "unique", "index", "fk"}
  /\ Passed("trigger") = {"pk", "unique", "index", "fk", "stats"}
  /\ Passed("check") = Loop
  /\ Passed("ok") = Loop
  /\ Passed("invalid") = Loop
  BY DEF Passed, Loop

(* The keys of a class are all emitted once their two loops are over.      *)
LEMMA KeysEmitted ==
  ASSUME IInv, {"pk", "unique"} \subseteq Passed(step), NEW n
  PROVE  {tasks[p].task : p \in KeysOf(n)} = KeyTasksOf(n)
<1>1. ASSUME NEW t \in KeyTasksOf(n)  PROVE t \in Emitted
  <2>1. PICK s \in Loop : \E x \in Visits[s] : t = Tk(s, x)
    BY InTaskSet DEF KeyTasksOf
  <2>2. PICK x \in Visits[s] : t = Tk(s, x)
    BY <2>1
  <2>3. s \in {"pk", "unique"}
    BY <2>2 DEF KeyTasksOf, Tk, KindOf, Loop
  <2> QED  BY <2>2, <2>3 DEF IInv, Placed
<1>2. \A p \in KeysOf(n) : tasks[p].task \in KeyTasksOf(n)
  BY DEF KeysOf, KeyTasksOf, IInv, Emitted
<1>3. ASSUME NEW t \in KeyTasksOf(n)
      PROVE  \E p \in KeysOf(n) : t = tasks[p].task
  <2>1. PICK p \in Positions : t = tasks[p].task
    BY <1>1 DEF Emitted
  <2> QED  BY <2>1 DEF KeysOf, KeyTasksOf
<1> QED  BY <1>2, <1>3

(* And so is the index file's task.                                        *)
LEMMA IndexEmitted ==
  ASSUME IInv, "index" \in Passed(step)
  PROVE  {tasks[p].task : p \in IndexTask} = {u \in TaskSet : u.kind = "BUILD_INDEX"}
<1>1. ASSUME NEW t \in TaskSet, t.kind = "BUILD_INDEX"  PROVE t \in Emitted
  <2>1. PICK s \in Loop : \E x \in Visits[s] : t = Tk(s, x)
    BY InTaskSet
  <2>2. PICK x \in Visits[s] : t = Tk(s, x)
    BY <2>1
  <2>3. s = "index"
    BY <1>1, <2>2 DEF Tk, KindOf, Loop
  <2> QED  BY <2>2, <2>3 DEF IInv, Placed
<1> QED  BY <1>1 DEF IndexTask, IInv, Emitted

(* The heart of the matter: what a loop gives a task as its prerequisites  *)
(* are the tasks it waits for.                                             *)
LEMMA PrereqsRight ==
  ASSUME IInv, step \in Loop, NEW x \in left
  PROVE  {tasks[p].task : p \in Prereqs(step, x)} = WaitsFor[Tk(step, x)]
<1> DEFINE t == Tk(step, x)
<1>1. x \in Visits[step]
  BY DEF IInv, TypeOK
<1>2. t \in TaskSet
  BY <1>1, InTaskSet
<1>3. CASE step = "fk"
  <2>1. WaitsFor[t] = KeyTasksOf(x.parent)
    BY <1>2, <1>3 DEF WaitsFor, Tk, KindOf
  <2>2. Prereqs(step, x) = KeysOf(x.parent)
    BY <1>3 DEF Prereqs
  <2> QED  BY <1>3, <2>1, <2>2, KeysEmitted, PassedIs
<1>4. CASE step = "stats"
  <2>1. WaitsFor[t] = KeyTasksOf(x) \cup {u \in TaskSet : u.kind = "BUILD_INDEX"}
    BY <1>2, <1>4 DEF WaitsFor, Tk, KindOf
  <2>2. Prereqs(step, x) = KeysOf(x) \cup IndexTask
    BY <1>4 DEF Prereqs
  <2>3. {tasks[p].task : p \in KeysOf(x)} = KeyTasksOf(x)
    BY <1>4, KeysEmitted, PassedIs
  <2>4. {tasks[p].task : p \in IndexTask} = {u \in TaskSet : u.kind = "BUILD_INDEX"}
    BY <1>4, IndexEmitted, PassedIs
  <2> QED  BY <2>1, <2>2, <2>3, <2>4
<1>5. CASE step = "trigger"
  <2>1. WaitsFor[t] = TaskSet \ {t}
    BY <1>2, <1>5 DEF WaitsFor, Tk, KindOf
  <2>2. Prereqs(step, x) = Positions
    BY <1>5 DEF Prereqs
  <2>3. t \notin Emitted
    BY <1>1, <1>5, PassedIs DEF IInv, Placed
  <2>4. ASSUME NEW u \in TaskSet, u # t  PROVE u \in Emitted
    <3>1. PICK s \in Loop : \E y \in Visits[s] : u = Tk(s, y)
      BY InTaskSet
    <3>2. PICK y \in Visits[s] : u = Tk(s, y)
      BY <3>1
    <3>3. s # "trigger"
      BY <1>1, <1>5, <2>4, <3>2 DEF Visits
    <3> QED  BY <1>5, <3>2, <3>3, PassedIs DEF IInv, Placed, Loop
  <2>5. Emitted = TaskSet \ {t}
    BY <2>3, <2>4 DEF IInv
  <2> QED  BY <2>1, <2>2, <2>5 DEF Emitted
<1>6. CASE step \in {"pk", "unique", "index"}
  <2>1. WaitsFor[t] = {}
    BY <1>2, <1>6 DEF WaitsFor, Tk, KindOf
  <2>2. Prereqs(step, x) = {}
    BY <1>6 DEF Prereqs
  <2> QED  BY <2>1, <2>2
<1> QED  BY <1>3, <1>4, <1>5, <1>6 DEF Loop

(* A prerequisite is a position of the list.                               *)
LEMMA PrereqsEarlier ==
  ASSUME IInv, NEW x
  PROVE  Prereqs(step, x) \subseteq Positions
  BY DEF Prereqs, KeysOf, IndexTask

(* A task more at the end of the list.                                     *)
LEMMA AppendTask ==
  ASSUME TypeOK, NEW e \in [task : Task, prereqs : SUBSET Nat],
         tasks' = Append(tasks, e)
  PROVE  /\ tasks' \in Seq([task : Task, prereqs : SUBSET Nat])
         /\ Positions = 1 .. Len(tasks) /\ Len(tasks) \in Nat
         /\ Positions' = 1 .. Len(tasks) + 1
         /\ \A i \in Positions : tasks'[i] = tasks[i]
         /\ tasks'[Len(tasks) + 1] = e
         /\ Emitted' = Emitted \cup {e.task}
<1>1. /\ tasks' \in Seq([task : Task, prereqs : SUBSET Nat])
      /\ Positions = 1 .. Len(tasks) /\ Len(tasks) \in Nat
      /\ Positions' = 1 .. Len(tasks) + 1
      /\ \A i \in Positions : tasks'[i] = tasks[i]
      /\ tasks'[Len(tasks) + 1] = e
  BY DEF TypeOK, Positions
<1>2. Positions' = Positions \cup {Len(tasks) + 1}
  BY <1>1
<1>3. Emitted' = Emitted \cup {e.task}
  BY <1>1, <1>2 DEF Emitted
<1> QED  BY <1>1, <1>3

(* IInv holds of the empty list.                                           *)
LEMMA InitInv == Init => IInv
<1> SUFFICES ASSUME Init PROVE IInv
  OBVIOUS
<1>1. Positions = {} /\ Emitted = {}
  BY DEF Init, Positions, Emitted
<1>2. TypeOK
  <2>1. graph \in GraphType
    BY DEF Init, GraphType, Few
  <2> QED  BY <2>1 DEF Init, TypeOK, Loop
<1>3. Placed
  <2>1. step = "pk" /\ left = Visits["pk"]
    BY DEF Init
  <2> QED  BY <1>1, <2>1, PassedIs DEF Placed
<1> QED
  BY <1>1, <1>2, <1>3 DEF IInv, Once, Right, EmittedInOrder, NeverInvalid, Init

(* Appending a task preserves IInv: what it waits for is on the list, made *)
(* by a loop that is over.                                                 *)
LEMMA EmitInv ==
  ASSUME IInv, NEW x \in left, Emit(x)
  PROVE  IInv'
<1> DEFINE t == Tk(step, x)
           e == [task |-> t, prereqs |-> Prereqs(step, x)]
           n == Len(tasks) + 1
<1>1. /\ step \in Loop /\ x \in Visits[step]
      /\ left' = left \ {x}
      /\ tasks' = Append(tasks, e)
      /\ graph' = graph /\ step' = step
  BY DEF Emit, IInv, TypeOK, Tk
<1>2. Visits' = Visits /\ TaskSet' = TaskSet /\ WaitsFor' = WaitsFor
  BY <1>1 DEF Visits, TaskSet, WaitsFor, KeyTasksOf
<1>3. t \in Task
  BY <1>1, TaskType DEF IInv, TypeOK
<1>4. Prereqs(step, x) \subseteq Positions /\ Positions \subseteq Nat
  BY PrereqsEarlier DEF IInv, TypeOK, Positions
<1>5. e \in [task : Task, prereqs : SUBSET Nat]
  BY <1>3, <1>4
<1> HIDE DEF e
<1>6. /\ tasks' \in Seq([task : Task, prereqs : SUBSET Nat])
      /\ Positions = 1 .. Len(tasks) /\ Len(tasks) \in Nat
      /\ Positions' = 1 .. n
      /\ \A i \in Positions : tasks'[i] = tasks[i]
      /\ tasks'[n] = e
      /\ Emitted' = Emitted \cup {e.task}
  BY <1>1, <1>5, AppendTask DEF IInv
<1>7. e.task = t /\ e.prereqs = Prereqs(step, x)
  BY DEF e
<1>8. t \in TaskSet /\ t \notin Emitted
  <2>1. t \in TaskSet
    BY <1>1, InTaskSet
  <2>2. step \notin Passed(step)
    BY <1>1, PassedIs DEF Loop
  <2> QED  BY <1>1, <2>1, <2>2 DEF IInv, Placed
<1>9. TypeOK'
  <2>1. graph' \in GraphType' /\ step' \in Loop
    BY <1>1 DEF IInv, TypeOK, GraphType
  <2>2. left' \subseteq (IF step' \in Loop THEN Visits'[step'] ELSE {})
    BY <1>1, <1>2 DEF IInv, TypeOK
  <2> QED  BY <1>6, <2>1, <2>2 DEF TypeOK
<1>10. Placed'
  <2> SUFFICES ASSUME NEW s \in Loop, NEW y \in Visits[s]
               PROVE  Tk(s, y) \in Emitted' <=>
                        s \in Passed(step) \/ (s = step /\ y \notin left')
    BY <1>1, <1>2 DEF Placed, Tk
  <2>1. Tk(s, y) = t => s = step /\ y = x
    BY <1>1, KindsDiffer
  <2>2. Tk(s, y) \in Emitted <=>
          s \in Passed(step) \/ (s = step /\ y \notin left)
    BY DEF IInv, Placed
  <2> QED  BY <1>1, <1>6, <1>7, <2>1, <2>2
<1>11. (Emitted \subseteq TaskSet)'
  BY <1>2, <1>6, <1>7, <1>8 DEF IInv
<1>12. Once'
  <2> SUFFICES ASSUME NEW i \in 1 .. n, NEW j \in 1 .. n,
                      tasks'[i].task = tasks'[j].task
               PROVE  i = j
    BY <1>6 DEF Once
  <2>1. \A k \in Positions : tasks[k].task \in Emitted
    BY DEF Emitted
  <2>2. CASE i \in Positions /\ j \in Positions
    BY <1>6, <2>2 DEF IInv, Once
  <2>3. CASE i = n /\ j \in Positions
    BY <1>6, <1>7, <1>8, <2>1, <2>3
  <2>4. CASE i \in Positions /\ j = n
    BY <1>6, <1>7, <1>8, <2>1, <2>4
  <2> QED  BY <1>6, <2>2, <2>3, <2>4
<1>13. Right'
  <2> SUFFICES ASSUME NEW i \in 1 .. n
               PROVE  {tasks'[p].task : p \in tasks'[i].prereqs}
                        = WaitsFor[tasks'[i].task]
    BY <1>2, <1>6 DEF Right
  <2>1. CASE i \in Positions
    <3>1. tasks[i].prereqs \subseteq Positions
      BY <2>1 DEF IInv, EmittedInOrder
    <3>2. {tasks'[p].task : p \in tasks[i].prereqs}
            = {tasks[p].task : p \in tasks[i].prereqs}
      BY <1>6, <3>1
    <3> QED  BY <1>6, <2>1, <3>2 DEF IInv, Right
  <2>2. CASE i = n
    <3>1. {tasks'[p].task : p \in Prereqs(step, x)}
            = {tasks[p].task : p \in Prereqs(step, x)}
      BY <1>4, <1>6
    <3> QED  BY <1>1, <1>6, <1>7, <2>2, <3>1, PrereqsRight
  <2> QED  BY <1>6, <2>1, <2>2
<1>14. EmittedInOrder'
  <2> SUFFICES ASSUME NEW i \in 1 .. n, NEW p \in tasks'[i].prereqs
               PROVE  p \in 1 .. n /\ p < i
    BY <1>6 DEF EmittedInOrder
  <2>1. CASE i \in Positions
    BY <1>6, <2>1 DEF IInv, EmittedInOrder
  <2>2. CASE i = n
    BY <1>4, <1>6, <1>7, <2>2
  <2> QED  BY <1>6, <2>1, <2>2
<1>15. NeverInvalid'
  BY <1>1 DEF NeverInvalid, Loop
<1> QED
  BY <1>9, <1>10, <1>11, <1>12, <1>13, <1>14, <1>15 DEF IInv

(* Going on to the next loop preserves IInv: the one before has made all   *)
(* its tasks.                                                              *)
LEMMA NextLoopInv ==
  ASSUME IInv, NextLoop
  PROVE  IInv'
<1>1. /\ step \in Loop /\ left = {}
      /\ step' = Follows[step]
      /\ left' = (IF step' = "check" THEN {} ELSE Visits[step'])
      /\ graph' = graph /\ tasks' = tasks
  BY DEF NextLoop
<1>2. /\ step' \in Loop \cup {"check"}
      /\ Passed(step') = Passed(step) \cup {step}
      /\ step' \notin Passed(step) \cup {step}
  BY <1>1, PassedIs DEF Loop, Follows
<1>3. Visits' = Visits /\ TaskSet' = TaskSet /\ WaitsFor' = WaitsFor
      /\ Positions' = Positions /\ Emitted' = Emitted
  BY <1>1 DEF Visits, TaskSet, WaitsFor, KeyTasksOf, Positions, Emitted
<1>4. TypeOK'
  BY <1>1, <1>2, <1>3 DEF IInv, TypeOK, Loop, GraphType
<1>5. Placed'
  <2> SUFFICES ASSUME NEW s \in Loop, NEW x \in Visits[s]
               PROVE  Tk(s, x) \in Emitted <=>
                        s \in Passed(step') \/ (s = step' /\ x \notin left')
    BY <1>3 DEF Placed, Tk
  <2>1. Tk(s, x) \in Emitted <=> s \in Passed(step) \/ s = step
    BY <1>1 DEF IInv, Placed
  <2>2. s = step' => x \in left'
    BY <1>1, <1>2 DEF Loop
  <2> QED  BY <1>2, <2>1, <2>2
<1> QED
  BY <1>1, <1>2, <1>3, <1>4, <1>5
  DEF IInv, Once, Right, EmittedInOrder, NeverInvalid, Loop

(* The check preserves IInv: it accepts a list in which every prerequisite *)
(* is earlier.                                                             *)
LEMMA ValidateInv ==
  ASSUME IInv, Validate
  PROVE  IInv'
<1>1. /\ step = "check" /\ step' = "ok"
      /\ graph' = graph /\ left' = left /\ tasks' = tasks
  BY OrderFollows DEF Validate, IInv
<1>2. Visits' = Visits /\ TaskSet' = TaskSet /\ WaitsFor' = WaitsFor
      /\ Positions' = Positions /\ Emitted' = Emitted
  BY <1>1 DEF Visits, TaskSet, WaitsFor, KeyTasksOf, Positions, Emitted
<1>3. Placed'
  BY <1>1, <1>2, PassedIs DEF IInv, Placed, Tk, Loop
<1>4. TypeOK'
  BY <1>1, <1>2 DEF IInv, TypeOK, Loop, GraphType
<1> QED
  BY <1>1, <1>2, <1>3, <1>4
  DEF IInv, Once, Right, EmittedInOrder, NeverInvalid

(* Every step preserves IInv.                                              *)
LEMMA NextInv == IInv /\ [Next]_vars => IInv'
<1> SUFFICES ASSUME IInv, [Next]_vars PROVE IInv'
  OBVIOUS
<1>1. ASSUME NEW x \in left, Emit(x) PROVE IInv'
  BY <1>1, EmitInv
<1>2. CASE NextLoop
  BY <1>2, NextLoopInv
<1>3. CASE Validate
  BY <1>3, ValidateInv
<1>4. CASE UNCHANGED vars
  <2>1. /\ graph' = graph /\ step' = step /\ left' = left /\ tasks' = tasks
    BY <1>4 DEF vars
  <2>2. Visits' = Visits /\ TaskSet' = TaskSet /\ WaitsFor' = WaitsFor
        /\ Positions' = Positions /\ Emitted' = Emitted
    BY <2>1 DEF Visits, TaskSet, WaitsFor, KeyTasksOf, Positions, Emitted
  <2>3. Placed'
    BY <2>1, <2>2 DEF IInv, Placed, Tk
  <2>4. TypeOK'
    BY <2>1, <2>2 DEF IInv, TypeOK, Loop, GraphType
  <2> QED
    BY <2>1, <2>2, <2>3, <2>4
    DEF IInv, Once, Right, EmittedInOrder, NeverInvalid
<1> QED  BY <1>1, <1>2, <1>3, <1>4 DEF Next, Finished

-----------------------------------------------------------------------------
(* The invariant holds in every reachable state.                           *)
THEOREM Inductive == Spec => []IInv
<1>1. Init => IInv
  BY InitInv
<1>2. IInv /\ [Next]_vars => IInv'
  BY NextInv
<1> QED  BY <1>1, <1>2, PTL DEF Spec

(* For every graph, the schedule passes its own check.                     *)
THEOREM AlwaysValid == Spec => []NeverInvalid
<1>1. IInv => NeverInvalid
  BY DEF IInv
<1> QED  BY <1>1, Inductive, PTL

(* After the last loop, IInv is what ScheduleIsPlan asks.                  *)
LEMMA InvGivesPlan == IInv => ScheduleIsPlan
<1> SUFFICES ASSUME IInv, step \in {"check", "ok"} PROVE ScheduleIsPlan
  BY DEF ScheduleIsPlan
<1>1. TaskSet \subseteq Emitted
  BY InTaskSet, PassedIs DEF IInv, Placed
<1> QED  BY <1>1 DEF IInv, Once, Right, ScheduleIsPlan

(* For every graph, the list has each task once, with the prerequisites    *)
(* that the graph implies.                                                 *)
THEOREM PlanIsRight == Spec => []ScheduleIsPlan
<1>1. IInv => ScheduleIsPlan
  BY InvGivesPlan
<1> QED  BY <1>1, Inductive, PTL

(* For every graph, the tasks are listed in an order in which they can be  *)
(* performed.                                                              *)
THEOREM Refinement == Spec => ImplementsOrder
<1>1. Init => Order!Init
  <2> SUFFICES ASSUME Init PROVE Order!Init
    OBVIOUS
  <2>1. Emitted = {}
    BY DEF Init, Emitted, Positions
  <2>2. \A t \in TaskSet : WaitsFor[t] \subseteq TaskSet
    BY DEF WaitsFor, KeyTasksOf
  <2>3. WaitsFor \in [TaskSet -> SUBSET TaskSet]
    BY <2>2 DEF WaitsFor
  <2> QED  BY <2>1, <2>3 DEF Order!Init
<1>2. IInv /\ IInv' /\ [Next]_vars => [Order!Perform]_(Order!vars)
  <2> SUFFICES ASSUME IInv, IInv', [Next]_vars
               PROVE  [Order!Perform]_(Order!vars)
    OBVIOUS
  <2>1. TaskSet' = TaskSet /\ WaitsFor' = WaitsFor
    <3>1. graph' = graph
      BY DEF Next, Emit, NextLoop, Validate, Finished, vars
    <3> QED  BY <3>1 DEF TaskSet, WaitsFor, KeyTasksOf, Visits
  <2>2. ASSUME NEW x \in left, Emit(x)
        PROVE  Order!Perform
    <3> DEFINE t == Tk(step, x)
               e == [task |-> t, prereqs |-> Prereqs(step, x)]
    <3>1. /\ step \in Loop /\ x \in Visits[step]
          /\ tasks' = Append(tasks, e)
      BY <2>2 DEF Emit, IInv, TypeOK, Tk
    <3>2. t \in Task
      BY <3>1, TaskType DEF IInv, TypeOK
    <3>3. Prereqs(step, x) \subseteq Positions /\ Positions \subseteq Nat
      BY PrereqsEarlier DEF IInv, TypeOK, Positions
    <3>4. Emitted' = Emitted \cup {t}
      <4>1. e \in [task : Task, prereqs : SUBSET Nat]
        BY <3>2, <3>3
      <4>2. e.task = t
        OBVIOUS
      <4> HIDE DEF e
      <4> QED  BY <3>1, <4>1, <4>2, AppendTask DEF IInv
    <3>5. t \in TaskSet \ Emitted
      <4>1. t \in TaskSet
        BY <3>1, InTaskSet
      <4>2. step \notin Passed(step)
        BY <3>1, PassedIs DEF Loop
      <4> QED  BY <2>2, <3>1, <4>1, <4>2 DEF IInv, Placed
    <3>6. WaitsFor[t] \subseteq Emitted
      <4>1. WaitsFor[t] = {tasks[p].task : p \in Prereqs(step, x)}
        BY <3>1, PrereqsRight
      <4> QED  BY <3>3, <4>1 DEF Emitted
    <3>7. /\ {t} \in SUBSET (TaskSet \ Emitted)
          /\ \A u \in {t} : WaitsFor[u] \subseteq Emitted
      BY <3>5, <3>6
    <3> QED  BY <2>1, <3>4, <3>7 DEF Order!Perform
  <2>3. CASE NextLoop \/ Validate \/ UNCHANGED vars
    <3>1. tasks' = tasks
      BY <2>3 DEF NextLoop, Validate, vars
    <3> QED  BY <2>1, <3>1 DEF Emitted, Positions, Order!vars
  <2> QED  BY <2>2, <2>3 DEF Next, Finished
<1> QED  BY <1>1, <1>2, Inductive, PTL DEF Spec, ImplementsOrder, Order!Spec
================================================================================
