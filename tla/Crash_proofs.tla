----------------------------- MODULE Crash_proofs -----------------------------
(***************************************************************************)
(* Proofs about what kills and power failures leave behind: the rows of    *)
(* the load (LoadPool) and the two files of the record (RecordFiles).      *)
(*                                                                         *)
(* LoadPool.  For every number of object files, every --degree and every   *)
(* number of runs: only the children of the run that waits for them load,  *)
(* a run that says its load is through has every row once, and LoadPool    *)
(* implements BulkLoad.                                                    *)
(*                                                                         *)
(* RecordFiles.  For any foreign keys, any order of their statements,      *)
(* either policy and any number of kills, failed calls and power failures: *)
(* the manifest that is read is whole and never ahead of the database, and *)
(* the three stores agree on what is withheld, unless a power failure lost *)
(* the exceptions. It is at most one phase behind unless a phase was       *)
(* committed before the directory was flushed (`late').                    *)
(***************************************************************************)
EXTENDS LoadPool, RecordFiles, FiniteSetTheorems, TLAPS

-----------------------------------------------------------------------------
(* LoadPool.                                                               *)

(* What a child has fed to the server, by where it is.                     *)
FedOK(r, f) ==
  /\ fed[r][f] <= Batches[f]
  /\ child[r][f] \in {"none", "forked", "armed"} => fed[r][f] = 0
  /\ child[r][f] = "exited" => fed[r][f] = Batches[f]

(* Runs to come have no children, and neither has one that is emptying its *)
(* tables.                                                                 *)
NoEarlyChild ==
  /\ \A r \in Run, f \in File : r > run => child[r][f] = "none"
  /\ parent = "truncate" => \A f \in File : child[run][f] = "none"

(* The counter is the number of the children it counts; every child that   *)
(* has not ended is one of them; a file that was handed out and is no      *)
(* longer counted was loaded, or the pool remembers a failure.             *)
PoolOK ==
  parent = "pool" =>
    /\ running = Cardinality(tracked)
    /\ running <= Deg
    /\ \A f \in tracked : f < next
    /\ \A f \in File : f >= next => child[run][f] = "none"
    /\ \A f \in File : child[run][f] \notin Ended => f \in tracked
    /\ ~anyFail => \A f \in File :
         f < next /\ f \notin tracked => child[run][f] = "exited"
    /\ rows = fed[run]

(* A run whose load is through has no child left.                          *)
NoLateChild ==
  parent = "loaded" => \A f \in File : child[run][f] \in Ended

ParentHasRun == parent # "down" => run \in Run

IInv ==
  /\ TypeOK
  /\ ParentHasRun
  /\ NoOrphanLoads
  /\ NoEarlyChild
  /\ NoLateChild
  /\ \A r \in Run, f \in File : FedOK(r, f)
  /\ PoolOK
  /\ EachRowOnce

(* The pool is never empty-handed: its bound is at least one, and no more  *)
(* than there are files.                                                   *)
LEMMA DegRange == Deg \in Nat /\ Deg >= 1 /\ (N > 0 => Deg <= N)
BY LoadPoolAssumption DEF Deg

(* The pool tracks finitely many files.                                    *)
LEMMA TrackedFinite == tracked \subseteq File => IsFiniteSet(tracked)
<1>1. IsFiniteSet(File)
  BY LoadPoolAssumption, FS_Interval DEF File
<1> QED
  BY <1>1, FS_Subset

(* IInv holds before the first run.                                        *)
LEMMA InitIInv == Init => IInv
<1> SUFFICES ASSUME Init PROVE IInv
  OBVIOUS
<1> USE LoadPoolAssumption
<1>1. /\ run \in 0 .. MaxRun /\ next \in 1 .. N + 1 /\ running \in 0 .. N
      /\ tracked \subseteq File
  BY DEF Init
<1>2. /\ child \in [Run -> [File -> State]]
      /\ fed \in [Run -> [File -> Nat]] /\ rows \in [File -> Nat]
  BY DEF Init, State, Ended
<1>3. TypeOK
  BY <1>1, <1>2 DEF Init, TypeOK
<1>4. \A r \in Run, f \in File : FedOK(r, f)
  BY DEF Init, FedOK, File
<1> QED
  BY <1>3, <1>4 DEF Init, IInv, ParentHasRun, NoOrphanLoads, NoEarlyChild,
    NoLateChild, PoolOK, EachRowOnce

-----------------------------------------------------------------------------
(* The parent's steps.                                                     *)

(* A new run preserves IInv: it has no children yet.                       *)
LEMMA BeginIInv == IInv /\ Begin => IInv'
<1> SUFFICES ASSUME IInv, Begin PROVE IInv'
  OBVIOUS
<1>1. run \in Nat /\ run' = run + 1 /\ run' \in Run
  BY LoadPoolAssumption DEF IInv, TypeOK, Begin, Run
<1>2. TypeOK'
  <2>1. run' \in 0 .. MaxRun
    BY <1>1 DEF Run
  <2> QED
    BY <2>1 DEF IInv, TypeOK, Begin, pool
<1>3. NoOrphanLoads'
  BY DEF IInv, NoOrphanLoads, Begin
<1>4. NoEarlyChild'
  <2>1. \A r \in Run : r > run' \/ r = run' => r > run
    BY <1>1 DEF Run
  <2> QED
    BY <1>1, <2>1 DEF IInv, NoEarlyChild, Begin
<1> QED
  BY <1>1, <1>2, <1>3, <1>4
  DEF IInv, ParentHasRun, FedOK, PoolOK, NoLateChild, EachRowOnce, Begin

(* Emptying the tables preserves IInv: no child of an earlier run is       *)
(* loading.                                                                *)
LEMMA TruncateIInv == IInv /\ Truncate => IInv'
<1> SUFFICES ASSUME IInv, Truncate PROVE IInv'
  OBVIOUS
<1>1. run \in Run
  BY DEF IInv, ParentHasRun, Truncate
<1>2. TypeOK'
  <2>1. /\ next' \in 1 .. N + 1 /\ running' \in 0 .. N
        /\ rows' \in [File -> Nat] /\ tracked' \subseteq File
    BY LoadPoolAssumption DEF Truncate
  <2> QED
    BY <2>1 DEF IInv, TypeOK, Truncate
<1>3. NoOrphanLoads'
  BY DEF IInv, NoOrphanLoads, Truncate
<1>4. PoolOK'
  <2>1. \A f \in File : child[run][f] = "none" /\ fed[run][f] = 0
    BY <1>1 DEF IInv, NoEarlyChild, FedOK, Truncate
  <2>2. rows' = fed[run]
    BY <1>1, <2>1 DEF IInv, TypeOK, Truncate
  <2>3. running' = Cardinality(tracked') /\ running' <= Deg
    BY FS_EmptySet, DegRange DEF Truncate
  <2>4. \A f \in File : ~(f < 1)
    BY LoadPoolAssumption DEF File
  <2> QED
    BY <2>1, <2>2, <2>3, <2>4 DEF PoolOK, Ended, Truncate
<1> QED
  BY <1>1, <1>2, <1>3, <1>4
  DEF IInv, ParentHasRun, NoEarlyChild, FedOK, NoLateChild, EachRowOnce, Truncate

(* Forking a child, or failing to, preserves IInv.                         *)
LEMMA SpawnIInv == IInv /\ Spawn => IInv'
<1> SUFFICES ASSUME IInv, Spawn PROVE IInv'
  OBVIOUS
<1>1. /\ run \in Run /\ next \in File /\ next' = next + 1
      /\ child \in [Run -> [File -> State]]
      /\ child[run][next] = "none" /\ fed[run][next] = 0
      /\ next \notin tracked /\ tracked \subseteq File
  BY LoadPoolAssumption DEF IInv, TypeOK, ParentHasRun, PoolOK, FedOK, Spawn,
    Filling, File
<1>2. \/ Forked
      \/ UNCHANGED <<child, tracked, running>> /\ anyFail'
  BY DEF Spawn, ForkFailed
<1>3. IsFiniteSet(tracked)
  BY <1>1, TrackedFinite
<1>4. /\ running' = Cardinality(tracked') /\ running' <= Deg
      /\ running' \in 0 .. N /\ tracked' \subseteq File
  <2>1. CASE Forked
    <3>1. Cardinality(tracked \cup {next}) = Cardinality(tracked) + 1
      BY <1>1, <1>3, FS_AddElement
    <3> QED
      BY <1>1, <2>1, <3>1, DegRange, LoadPoolAssumption
      DEF IInv, TypeOK, PoolOK, Spawn, Filling, Forked
  <2>2. CASE UNCHANGED <<child, tracked, running>> /\ anyFail'
    BY <2>2 DEF IInv, TypeOK, PoolOK, Spawn
  <2> QED
    BY <1>2, <2>1, <2>2
<1>5. /\ child' \in [Run -> [File -> State]]
      /\ \A r \in Run, f \in File :
           \/ child'[r][f] = child[r][f]
           \/ r = run /\ f = next /\ child'[r][f] = "forked" /\ Forked
  BY <1>1, <1>2 DEF Forked, State
<1>6. TypeOK'
  <2>1. next' \in 1 .. N + 1
    BY <1>1, LoadPoolAssumption DEF File
  <2>2. anyFail' \in BOOLEAN
    BY DEF IInv, TypeOK, Spawn, Forked, ForkFailed
  <2> QED
    BY <1>4, <1>5, <2>1, <2>2 DEF IInv, TypeOK, Spawn
<1>7. NoOrphanLoads'
  BY <1>5 DEF IInv, NoOrphanLoads, Spawn
<1>8. NoEarlyChild'
  <2>1. ~(run > run)
    BY <1>1 DEF Run
  <2> QED
    BY <1>5, <2>1 DEF IInv, NoEarlyChild, Spawn
<1>9. \A r \in Run, f \in File : FedOK(r, f)'
  BY <1>1, <1>5 DEF IInv, FedOK, Spawn
<1>10. PoolOK'
  <2>1. \A f \in File : /\ f < next => f < next' /\ f # next
                        /\ f >= next' => f >= next /\ f # next
                        /\ f < next' => f < next \/ f = next
                        /\ next < next'
    BY <1>1 DEF File
  <2>2. CASE Forked
    BY <1>1, <1>4, <1>5, <2>1, <2>2 DEF IInv, PoolOK, Spawn, Forked, Ended
  <2>3. CASE UNCHANGED <<child, tracked, running>> /\ anyFail'
    BY <1>1, <1>4, <2>1, <2>3 DEF IInv, PoolOK, Spawn
  <2> QED
    BY <1>2, <2>2, <2>3
<1> QED
  BY <1>6, <1>7, <1>8, <1>9, <1>10
  DEF IInv, ParentHasRun, NoLateChild, EachRowOnce, Spawn

(* Reaping a child preserves IInv.                                         *)
LEMMA ReapIInv == ASSUME NEW f \in File, IInv, Reap(f) PROVE IInv'
<1>1. IsFiniteSet(tracked) /\ tracked \subseteq File
  BY TrackedFinite DEF IInv, TypeOK
<1>2. /\ running' = Cardinality(tracked') /\ running' <= Deg
      /\ running' \in 0 .. N /\ tracked' \subseteq File
  <2>1. /\ Cardinality(tracked \ {f}) = Cardinality(tracked) - 1
        /\ Cardinality(tracked \ {f}) \in Nat
    BY <1>1, FS_RemoveElement, FS_Subset, FS_CardinalityType DEF Reap
  <2> QED
    BY <1>1, <2>1, DegRange, LoadPoolAssumption DEF IInv, TypeOK, PoolOK, Reap
<1>3. TypeOK'
  <2>1. anyFail' \in BOOLEAN
    BY DEF Reap
  <2> QED
    BY <1>2, <2>1 DEF IInv, TypeOK, Reap
<1>4. PoolOK'
  BY <1>2 DEF IInv, PoolOK, Reap
<1> QED
  BY <1>3, <1>4
  DEF IInv, ParentHasRun, NoOrphanLoads, NoEarlyChild, FedOK, NoLateChild, EachRowOnce, Reap

(* The loop is left by End and LostTrack when nothing loads any more.      *)
LEMMA LeaveIInv == IInv /\ (LostTrack \/ End) => IInv'
<1> SUFFICES ASSUME IInv, LostTrack \/ End PROVE IInv'
  OBVIOUS
<1>1. IsFiniteSet(tracked)
  BY TrackedFinite DEF IInv, TypeOK
<1>2. /\ parent = "pool" /\ run \in Run
      /\ UNCHANGED <<run, pool, autoreap, child, fed, rows>>
      /\ parent' \in {"down", "loaded"}
  BY DEF IInv, ParentHasRun, LostTrack, End
<1>3. \A f \in File : child[run][f] \in Ended
  <2>1. CASE LostTrack
    BY <1>2, <2>1 DEF IInv, PoolOK, LostTrack
  <2>2. CASE End
    BY <1>1, <1>2, <2>2, FS_EmptySet DEF IInv, PoolOK, End
  <2> QED
    BY <2>1, <2>2
<1>4. NoOrphanLoads'
  BY <1>2, <1>3 DEF IInv, NoOrphanLoads, Ended
<1>5. EachRowOnce'
  <2>1. SUFFICES ASSUME End, ~anyFail PROVE rows = Batches
    BY <1>2 DEF EachRowOnce, End, LostTrack
  <2>2. \A f \in File : f < next /\ f \notin tracked
    BY <1>1, <2>1, FS_EmptySet, LoadPoolAssumption
    DEF IInv, TypeOK, PoolOK, End, File
  <2>3. \A f \in File : fed[run][f] = Batches[f]
    BY <1>2, <2>1, <2>2 DEF IInv, PoolOK, FedOK
  <2>4. rows = fed[run] /\ rows \in [File -> Nat] /\ Batches \in [File -> Nat]
    BY <1>2, LoadPoolAssumption DEF IInv, TypeOK, PoolOK, File
  <2> QED
    BY <2>3, <2>4
<1> QED
  BY <1>2, <1>3, <1>4, <1>5
  DEF IInv, TypeOK, ParentHasRun, NoEarlyChild, NoLateChild, FedOK, PoolOK, pool

(* The kernel leaves no child of the killed run loading.                   *)
LEMMA KillIInv == IInv /\ KillParent => IInv'
<1> SUFFICES ASSUME IInv, KillParent PROVE IInv'
  OBVIOUS
<1>1. run \in Run /\ child \in [Run -> [File -> State]]
  BY DEF IInv, TypeOK, ParentHasRun, KillParent
<1>2. /\ child' \in [Run -> [File -> State]]
      /\ \A r \in Run, f \in File :
           \/ child'[r][f] = child[r][f]
              /\ (r = run => child[r][f] # "loading")
           \/ child'[r][f] = "killed" /\ r = run /\ child[r][f] # "none"
  BY <1>1 DEF KillParent, State, Ended
<1>3. TypeOK'
  BY <1>2 DEF IInv, TypeOK, KillParent, pool
<1>4. NoOrphanLoads'
  BY <1>2 DEF IInv, NoOrphanLoads, KillParent
<1>5. NoEarlyChild'
  <2>1. ~(run > run)
    BY <1>1 DEF Run
  <2> QED
    BY <1>2, <2>1 DEF IInv, NoEarlyChild, KillParent
<1>6. \A r \in Run, f \in File : FedOK(r, f)'
  BY <1>2 DEF IInv, FedOK, KillParent
<1> QED
  BY <1>3, <1>4, <1>5, <1>6
  DEF IInv, ParentHasRun, PoolOK, NoLateChild, EachRowOnce, KillParent

-----------------------------------------------------------------------------
(* The children's steps.                                                   *)

(* A child that moves without feeding rows, under the conditions that its  *)
(* new state puts on it.                                                   *)
LEMMA BecomesIInv ==
  ASSUME NEW r \in Run, NEW f \in File, NEW state \in State, IInv,
         Becomes(r, f, state), UNCHANGED <<fed, rows>>,
         child[r][f] \in {"forked", "armed", "loading"},
         state \in {"armed", "loading", "exited", "failed", "killed"},
         state = "armed" => child[r][f] = "forked",
         state = "loading" => r = run /\ parent = "pool",
         state = "exited" => fed[r][f] = Batches[f]
  PROVE  IInv'
<1>1. /\ child' \in [Run -> [File -> State]]
      /\ \A q \in Run, g \in File :
           child'[q][g] = IF q = r /\ g = f THEN state ELSE child[q][g]
  BY DEF IInv, TypeOK, Becomes
<1>2. TypeOK'
  BY <1>1 DEF IInv, TypeOK, Becomes, pool
<1>3. NoOrphanLoads'
  BY <1>1 DEF IInv, NoOrphanLoads, Becomes
<1>4. NoEarlyChild'
  BY <1>1 DEF IInv, NoEarlyChild, ParentHasRun, Becomes
<1>5. \A q \in Run, g \in File : FedOK(q, g)'
  BY <1>1 DEF IInv, FedOK
<1>6. PoolOK'
  BY <1>1 DEF IInv, PoolOK, ParentHasRun, Becomes, pool, Ended
<1>7. NoLateChild'
  BY <1>1 DEF IInv, NoLateChild, ParentHasRun, Becomes, Ended
<1> QED
  BY <1>2, <1>3, <1>4, <1>5, <1>6, <1>7
  DEF IInv, ParentHasRun, EachRowOnce, Becomes

(* Arming the death signal preserves IInv.                                 *)
LEMMA ArmIInv == ASSUME NEW r \in Run, NEW f \in File, IInv, Arm(r, f) PROVE IInv'
BY BecomesIInv DEF Arm, State

(* A parent that is not down is in the pool, if it has children.           *)
LEMMA ExecIInv ==
  ASSUME NEW r \in Run, NEW f \in File, IInv, Exec(r, f) PROVE IInv'
<1>1. CASE ParentAlive(r) /\ Becomes(r, f, "loading")
  <2>1. parent = "pool"
    BY <1>1 DEF IInv, TypeOK, NoEarlyChild, NoLateChild, ParentAlive, Exec, Ended
  <2> QED
    BY <1>1, <2>1, BecomesIInv DEF Exec, State, ParentAlive
<1> QED
  BY <1>1, BecomesIInv DEF Exec, State, Ended

(* A committed batch preserves IInv: its child belongs to the live run, so *)
(* that the rows stay what this run has fed.                               *)
LEMMA BatchIInv ==
  ASSUME NEW r \in Run, NEW f \in File, IInv, Batch(r, f) PROVE IInv'
<1>1. r = run /\ parent = "pool" /\ rows = fed[run]
  BY DEF IInv, NoOrphanLoads, PoolOK, Batch
<1>2. /\ fed' \in [Run -> [File -> Nat]]
      /\ \A q \in Run, g \in File :
           fed'[q][g] = IF q = r /\ g = f THEN fed[q][g] + 1 ELSE fed[q][g]
  BY DEF IInv, TypeOK, Batch
<1>3. rows' = fed'[run] /\ rows' \in [File -> Nat]
  BY <1>1 DEF IInv, TypeOK, Batch
<1>4. TypeOK'
  BY <1>2, <1>3 DEF IInv, TypeOK, Batch, pool
<1>5. \A q \in Run, g \in File : FedOK(q, g)'
  <2>1. fed[r][f] + 1 <= Batches[f]
    BY LoadPoolAssumption DEF IInv, TypeOK, Batch, File
  <2> QED
    BY <1>2, <2>1 DEF IInv, FedOK, Batch
<1>6. PoolOK'
  BY <1>1, <1>3 DEF IInv, PoolOK, Batch, pool
<1> QED
  BY <1>1, <1>4, <1>5, <1>6
  DEF IInv, ParentHasRun, NoOrphanLoads, NoEarlyChild, NoLateChild, EachRowOnce, Batch, pool

(* The end of a child preserves IInv.                                      *)
LEMMA FinishIInv ==
  ASSUME NEW r \in Run, NEW f \in File, IInv, Finish(r, f) PROVE IInv'
BY BecomesIInv DEF Finish, State, Ended

(* Every step of a child preserves IInv.                                   *)
LEMMA ChildStepIInv ==
  ASSUME NEW r \in Run, NEW f \in File, IInv, ChildStep(r, f) PROVE IInv'
BY ArmIInv, ExecIInv, BatchIInv, FinishIInv DEF ChildStep

(* Every step preserves IInv.                                              *)
LEMMA NextIInv == IInv /\ [Next]_vars => IInv'
<1> SUFFICES ASSUME IInv, [Next]_vars PROVE IInv'
  OBVIOUS
<1>1. CASE UNCHANGED vars
  BY <1>1 DEF IInv, TypeOK, ParentHasRun, NoOrphanLoads, NoEarlyChild,
    NoLateChild, FedOK, PoolOK, EachRowOnce, vars, pool
<1>2. CASE ParentStep
  BY <1>2, TruncateIInv, SpawnIInv, ReapIInv, LeaveIInv DEF ParentStep
<1> QED
  BY <1>1, <1>2, BeginIInv, KillIInv, ChildStepIInv DEF Next

(* The invariant holds in every reachable state, whatever the number of    *)
(* files, the degree, the runs and the kills (import_load.cpp l.420).      *)
THEOREM Inductive == Spec => []IInv
<1> QED
  BY InitIInv, NextIInv, PTL DEF Spec

(* No orphan ever loads behind the back of the run that reloads            *)
(* (import_load.cpp l.300).                                                *)
THEOREM NoOrphans == Spec => []NoOrphanLoads
<1>1. IInv => NoOrphanLoads
  BY DEF IInv
<1> QED
  BY <1>1, Inductive, PTL

(* The pool never has more loaders than --degree, and its counter is exact *)
(* (import_load.cpp l.432).                                                *)
THEOREM Bounded == Spec => []PoolBounded
<1>1. IInv => PoolBounded
  BY DEF IInv, PoolOK, PoolBounded
<1> QED
  BY <1>1, Inductive, PTL

(* For any files, batches and number of runs killed anywhere before, a load *)
(* that succeeds has every row in the database exactly once.               *)
THEOREM LoadedOnce == Spec => []EachRowOnce
<1>1. IInv => EachRowOnce
  BY DEF IInv
<1> QED
  BY <1>1, Inductive, PTL

-----------------------------------------------------------------------------
(* Every step of the pool is a step of BulkLoad, or a stuttering one.      *)

(* Initial states map to initial states of BulkLoad.                       *)
LEMMA InitRefines == Init => Abstract!Init
BY DEF Init, Abstract!Init, status

(* Every step of the parent, and its death, maps to a step of BulkLoad or a*)
(* stutter.                                                                *)
LEMMA ParentRefines ==
  ASSUME IInv, ParentStep PROVE Abstract!Next \/ UNCHANGED Abstract!vars
<1>1. CASE Truncate
  BY <1>1 DEF Truncate, Abstract!Next, Abstract!Begin, status
<1>2. CASE Spawn \/ \E f \in File : Reap(f)
  BY <1>2 DEF Spawn, Reap, Abstract!vars, status
<1>3. CASE LostTrack
  BY <1>3 DEF LostTrack, Abstract!Next, Abstract!Stop, status
<1>4. CASE End
  <2>1. CASE anyFail
    BY <1>4, <2>1 DEF End, Abstract!Next, Abstract!Stop, status
  <2>2. CASE ~anyFail
    <3>1. EachRowOnce'
      BY <1>4, LeaveIInv DEF IInv
    <3>2. rows = Batches
      BY <1>4, <2>2, <3>1 DEF End, EachRowOnce
    <3> QED
      BY <1>4, <2>2, <3>2 DEF End, Abstract!Next, Abstract!Loaded, status
  <2> QED
    BY <2>1, <2>2
<1> QED
  BY <1>1, <1>2, <1>3, <1>4 DEF ParentStep

(* Every step of a child maps to a batch of BulkLoad or a stutter.         *)
LEMMA ChildRefines ==
  ASSUME NEW r \in Run, NEW f \in File, IInv, ChildStep(r, f)
  PROVE  Abstract!Next \/ UNCHANGED Abstract!vars
<1>1. CASE Batch(r, f)
  <2>1. r = run /\ parent = "pool" /\ rows = fed[run]
    BY <1>1 DEF IInv, NoOrphanLoads, PoolOK, Batch
  <2> QED
    BY <1>1, <2>1 DEF Batch, Abstract!Next, Abstract!Batch, status
<1>2. CASE Arm(r, f) \/ Exec(r, f) \/ Finish(r, f)
  BY <1>2 DEF Arm, Exec, Finish, Becomes, Abstract!vars, status
<1> QED
  BY <1>1, <1>2 DEF ChildStep

(* Every step maps to a step of BulkLoad or a stutter.                     *)
LEMMA StepRefines == IInv /\ [Next]_vars => [Abstract!Next]_(Abstract!vars)
<1> SUFFICES ASSUME IInv, [Next]_vars
    PROVE Abstract!Next \/ UNCHANGED Abstract!vars
  OBVIOUS
<1>1. CASE UNCHANGED vars
  BY <1>1 DEF vars, Abstract!vars, status
<1>2. CASE Begin
  BY <1>2 DEF Begin, Abstract!vars, status
<1>3. CASE KillParent
  BY <1>3 DEF KillParent, Abstract!Next, Abstract!Stop, Abstract!vars, status
<1> QED
  BY <1>1, <1>2, <1>3, ParentRefines, ChildRefines DEF Next

(* With its races and failures the pool is a load that adds rows only      *)
(* while a run waits for them, starts from emptied tables and is through   *)
(* only with every row once (import_load.cpp l.300, import_db.cpp l.1083). *)
THEOREM Refinement == Spec => ImplementsBulkLoad
<1> QED
  BY InitRefines, StepRefines, Inductive, PTL
  DEF Spec, ImplementsBulkLoad, Abstract!Spec

-----------------------------------------------------------------------------
(* RecordFiles.                                                            *)

Writing == {"open_orphans", "close_orphans", "open_withheld", "close_withheld"}
Replacing == {"open", "sync", "rename"}

(* The manifests that a run may have to start from.                        *)
Possible == {manifest.now} \cup manifest.back

(* Every one of them is whole, flushed and no newer than the one in place. *)
RecordsInv ==
  /\ \A m \in Possible : m.whole /\ m.safe /\ m.phase <= manifest.now.phase
  /\ pc = "sync" => tmp = Text(Target, out, FALSE)
  /\ pc = "rename" => tmp = Text(Target, out, TRUE)
  /\ pc \notin {"off", "sync_directory"} => manifest.now.phase < DONE

(* The database is ahead of each by one phase at most.                     *)
PhaseInv ==
  /\ \A m \in Possible : m.phase <= db.phase
  /\ late \/ \A m \in Possible : db.phase <= m.phase + 1
  /\ pc \in Replacing => Target <= db.phase

(* Foreign keys that define_fks would not withhold now: neither held nor   *)
(* broken, and under fail-fast not behind one that is.                     *)
Sound(fks) ==
  /\ fks \cap Held = {}
  /\ fks \cap broken = {}
  /\ ContinueOnError \/ \A e \in fks : \A f \in (broken \ Held) \ fks : ~(Place[f] < Place[e])

CatalogInv ==
  /\ Sound(db.fks)
  /\ \A m \in Possible : m.phase >= FK_DEFINED => m.withheld = Edges \ db.fks
  /\ pc \in Writing => Target = FK_DEFINED
  /\ pc \in Writing \cup {"commit"} \cup Replacing =>
       /\ Sound(out.fks)
       /\ out.withheld = Edges \ out.fks
       /\ (Target > FK_DEFINED \/ pc \in Replacing) => out.fks = db.fks

(* The exceptions list what a manifest withholds.                          *)
Lists(file, withheld, violated) ==
  /\ withheld = {} \/ file.sections = <<withheld>>
  /\ violated = {} \/ file.orphans = violated

ExceptionsInv ==
  /\ \A m \in Possible :
       (m.phase >= FK_DEFINED /\ ~lost) => Lists(art.now, m.withheld, m.violated)
  /\ pc = "close_orphans" => text.orphans = out.violated
  /\ pc = "open_withheld" => (out.violated = {} \/ art.now.orphans = out.violated)
  /\ pc = "close_withheld" => Lists(text, out.withheld, out.violated)
  /\ (pc \in {"commit"} \cup Replacing /\ ~lost) =>
       Lists(art.now, out.withheld, out.violated)

RecordInv == RecordTypeOK /\ RecordsInv /\ PhaseInv /\ CatalogInv /\ ExceptionsInv

-----------------------------------------------------------------------------
(* What a rewrite may leave is a file of the same kind.                    *)
LEMMA HalvesTyped ==
  ASSUME NEW w \in Files
  PROVE  Halves(w) \subseteq Files
<1>1. w.sections \in Seq(Listings) /\ w.orphans \in Listings
  BY DEF Files
<1>2. <<>> \in Seq(Listings) /\ {} \in Listings /\ {CutOff} \in Listings
  BY DEF Listings
<1>3. EmptyFile \in Files
  BY <1>2 DEF EmptyFile, Files
<1>4. [orphans |-> {CutOff : e \in w.orphans}, sections |-> <<>>] \in Files
  <2>1. {CutOff : e \in w.orphans} \in Listings
    BY DEF Listings
  <2> QED
    BY <1>2, <2>1 DEF Files
<1>5. [i \in DOMAIN w.sections |-> {CutOff}] \in Seq(Listings)
  <2>1. Len(w.sections) \in Nat /\ DOMAIN w.sections = 1 .. Len(w.sections)
    BY <1>1
  <2>2. [i \in 1 .. Len(w.sections) |-> {CutOff}] \in Seq(Listings)
    BY <1>2, <2>1
  <2> QED
    BY <2>1, <2>2
<1>6. [w EXCEPT !.sections = [i \in DOMAIN w.sections |-> {CutOff}]] \in Files
  BY <1>5 DEF Files
<1> QED
  BY <1>3, <1>4, <1>6 DEF Halves

LEMMA OpenTyped ==
  ASSUME RecordTypeOK, NEW w \in Files, OpenFile(w)
  PROVE  text' \in Files /\ art' \in [now : Files, back : SUBSET Files]
<1>1. PICK half \in Halves(w) :
        art' = [art EXCEPT !.now = half,
                           !.back = @ \cup {art.now, w} \cup Halves(w)]
  BY DEF OpenFile
<1>2. Halves(w) \subseteq Files
  BY HalvesTyped
<1>3. art \in [now : Files, back : SUBSET Files]
  BY DEF RecordTypeOK
<1>4. art' \in [now : Files, back : SUBSET Files]
  BY <1>1, <1>2, <1>3
<1> QED
  BY <1>4 DEF OpenFile

(* The two contents that a run writes.                                     *)
LEMMA ContentsTyped ==
  ASSUME RecordTypeOK
  PROVE  /\ [orphans |-> out.violated, sections |-> <<>>] \in Files
         /\ [orphans |-> art.now.orphans, sections |-> <<out.withheld>>] \in Files
<1>1. out.violated \in Listings /\ out.withheld \in Listings
  BY DEF RecordTypeOK, Outcomes, Listings
<1>2. art.now.orphans \in Listings
  BY DEF RecordTypeOK, Files
<1>3. <<>> \in Seq(Listings) /\ <<out.withheld>> \in Seq(Listings)
  BY <1>1
<1> QED
  BY <1>1, <1>2, <1>3 DEF Files

LEMMA PossibleTyped ==
  RecordTypeOK => Possible \subseteq Manifests /\ manifest.now \in Possible
BY DEF RecordTypeOK, Possible

(* A power failure leaves one of the manifests that were possible before.  *)
LEMMA PossibleAfterPower ==
  ASSUME RecordTypeOK, RecordsInv, PowerFailure
  PROVE  /\ manifest'.now \in Possible
         /\ manifest' = [now |-> manifest'.now, back |-> {}]
         /\ Possible' = {manifest'.now}
<1>1. PICK m \in Possible, whole \in BOOLEAN :
        /\ m.safe => whole
        /\ manifest' = [now |-> [m EXCEPT !.whole = whole, !.safe = TRUE],
                        back |-> {}]
  BY DEF PowerFailure, Possible
<1>2. m \in Manifests /\ m.whole = TRUE /\ m.safe = TRUE
  BY PossibleTyped DEF RecordsInv, Manifests
<1>3. [m EXCEPT !.whole = whole, !.safe = TRUE] = m
  BY <1>1, <1>2 DEF Manifests
<1> QED
  BY <1>1, <1>3 DEF Possible

LEMMA PossibleAfterRename ==
  ASSUME RecordTypeOK, Rename
  PROVE  manifest'.now = tmp /\ Possible' = Possible \cup {tmp}
BY DEF Rename, Possible

LEMMA TypeStep ==
  ASSUME RecordTypeOK, RecordsInv, [RecordNext]_recordVars
  PROVE  RecordTypeOK'
<1> USE RecordFilesAssumption DEF RecordTypeOK, REBUILT, FK_DEFINED, STATS_UPDATED, DONE
<1>1. CASE Start
  BY <1>1 DEF Start
<1>2. CASE DefineFks
  <2>1. out' \in Outcomes
    BY <1>2 DEF DefineFks, Outcomes, Withheld, Rejected, Rejectable, Stopped
  <2> QED
    BY <1>2, <2>1 DEF DefineFks
<1>3. CASE LaterPhase
  <2>1. out' \in Outcomes
    BY <1>3 DEF LaterPhase, Outcomes, Manifests
  <2> QED
    BY <1>3, <2>1 DEF LaterPhase
<1>4. CASE OpenOrphans
  <2>1. text' \in Files /\ art' \in [now : Files, back : SUBSET Files]
    BY <1>4, OpenTyped, ContentsTyped DEF OpenOrphans
  <2> QED
    BY <1>4, <2>1 DEF OpenOrphans
<1>5. CASE OpenWithheld
  <2>1. text' \in Files /\ art' \in [now : Files, back : SUBSET Files]
    BY <1>5, OpenTyped, ContentsTyped DEF OpenWithheld
  <2> QED
    BY <1>5, <2>1 DEF OpenWithheld
<1>6. CASE CloseFile
  BY <1>6 DEF CloseFile
<1>7. CASE Commit
  <2>1. manifest.now.phase \in 0 .. 2 /\ out.fks \in SUBSET Edges
    BY <1>7 DEF Commit, RecordsInv, Manifests, Outcomes
  <2> QED
    BY <1>7, <2>1 DEF Commit, Target
<1>8. CASE WriteTmp
  <2>1. manifest.now.phase \in 0 .. 2
    BY <1>8 DEF WriteTmp, RecordsInv, Manifests
  <2>2. tmp' \in Manifests
    BY <1>8, <2>1 DEF WriteTmp, Text, Target, Manifests, Outcomes
  <2> QED
    BY <1>8, <2>2 DEF WriteTmp
<1>9. CASE SyncTmp
  <2>1. tmp' \in Manifests
    BY <1>9 DEF SyncTmp, Manifests
  <2> QED
    BY <1>9, <2>1 DEF SyncTmp
<1>10. CASE Rename
  BY <1>10 DEF Rename
<1>11. CASE SyncDirectory
  BY <1>11 DEF SyncDirectory
<1>12. CASE Stop
  <2>1. stops' \in Nat
    BY <1>12 DEF Stop
  <2> QED
    BY <1>12, <2>1 DEF Stop
<1>13. CASE Settle
  BY <1>13 DEF Settle
<1>14. CASE PowerFailure
  <2>1. manifest' \in [now : Manifests, back : SUBSET Manifests]
    <3>1. manifest'.now \in Manifests /\ {} \in SUBSET Manifests
      BY <1>14, PossibleAfterPower, PossibleTyped
    <3>2. manifest' = [now |-> manifest'.now, back |-> {}]
      BY <1>14, PossibleAfterPower
    <3> QED
      BY <3>1, <3>2
  <2>2. PICK a \in {art.now} \cup art.back :
          art' = [now |-> a, back |-> {}] /\ lost' = (lost \/ a # art.now)
    BY <1>14 DEF PowerFailure
  <2>3. a \in Files
    OBVIOUS
  <2>4. art' \in [now : Files, back : SUBSET Files]
    BY <2>2, <2>3
  <2>5. lost' \in BOOLEAN
    BY <2>2
  <2>6. stops' \in Nat
    BY <1>14 DEF PowerFailure
  <2> QED
    BY <1>14, <2>1, <2>4, <2>5, <2>6 DEF PowerFailure
<1>15. CASE UNCHANGED recordVars
  BY <1>15 DEF recordVars
<1> QED
  BY <1>1, <1>2, <1>3, <1>4, <1>5, <1>6, <1>7, <1>8, <1>9, <1>10, <1>11, <1>12, <1>13, <1>14, <1>15 DEF RecordNext

LEMMA RecordsStep ==
  ASSUME RecordTypeOK, RecordsInv, [RecordNext]_recordVars
  PROVE  RecordsInv'
<1> USE RecordFilesAssumption DEF RecordTypeOK, RecordsInv, Possible, Target, Text, REBUILT, FK_DEFINED, STATS_UPDATED, DONE, Outcomes, Listings, Files, Manifests
<1>1. CASE Start
  BY <1>1 DEF Start
<1>2. CASE DefineFks
  BY <1>2 DEF DefineFks
<1>3. CASE LaterPhase
  BY <1>3 DEF LaterPhase
<1>4. CASE OpenOrphans
  BY <1>4 DEF OpenOrphans, OpenFile, Halves, EmptyFile
<1>5. CASE OpenWithheld
  BY <1>5 DEF OpenWithheld, OpenFile, Halves, EmptyFile
<1>6. CASE CloseFile
  BY <1>6 DEF CloseFile
<1>7. CASE Commit
  BY <1>7 DEF Commit
<1>8. CASE WriteTmp
  BY <1>8 DEF WriteTmp
<1>9. CASE SyncTmp
  <2>1. tmp = Text(Target, out, FALSE)
    BY <1>9 DEF SyncTmp
  <2>2. tmp' = [tmp EXCEPT !.safe = TRUE] /\ pc' = "rename"
    BY <1>9 DEF SyncTmp
  <2>3. tmp' = Text(Target, out, TRUE)
    BY <2>1, <2>2
  <2> QED
    BY <1>9, <2>2, <2>3 DEF SyncTmp
<1>10. CASE Rename
  <2>1. tmp = Text(Target, out, TRUE) /\ tmp.phase = manifest.now.phase + 1
    BY <1>10 DEF Rename
  <2>2. tmp.whole /\ tmp.safe
    BY <2>1
  <2>3. manifest'.now = tmp /\ Possible' = Possible \cup {tmp}
    BY <1>10, PossibleAfterRename
  <2>4. \A m \in Possible : m.phase <= tmp.phase
    BY <2>1, PossibleTyped
  <2> QED
    BY <1>10, <2>1, <2>2, <2>3, <2>4 DEF Rename
<1>11. CASE SyncDirectory
  BY <1>11 DEF SyncDirectory
<1>12. CASE Stop
  BY <1>12 DEF Stop
<1>13. CASE Settle
  BY <1>13 DEF Settle
<1>14. CASE PowerFailure
  <2>1. manifest'.now \in Possible /\ Possible' = {manifest'.now}
    BY <1>14, PossibleAfterPower
  <2>2. pc' = "off"
    BY <1>14 DEF PowerFailure
  <2> DEFINE found == manifest'.now
  <2>3. found \in Manifests /\ found.whole /\ found.safe
    BY <2>1, PossibleTyped
  <2>4. found.phase \in Nat
    BY <2>3
  <2> HIDE DEF found
  <2>5. \A m \in {found} : m.whole /\ m.safe /\ m.phase <= found.phase
    BY <2>3, <2>4
  <2>6. \A m \in Possible' : m.whole /\ m.safe /\ m.phase <= manifest'.now.phase
    BY <2>1, <2>5 DEF found
  <2> QED
    BY <2>2, <2>6
<1>15. CASE UNCHANGED recordVars
  BY <1>15 DEF recordVars
<1> QED
  BY <1>1, <1>2, <1>3, <1>4, <1>5, <1>6, <1>7, <1>8, <1>9, <1>10, <1>11, <1>12, <1>13, <1>14, <1>15 DEF RecordNext

LEMMA PhaseStep ==
  ASSUME RecordTypeOK, RecordsInv, PhaseInv, [RecordNext]_recordVars
  PROVE  PhaseInv'
<1> USE RecordFilesAssumption DEF RecordTypeOK, RecordsInv, PhaseInv, Replacing, Possible, Target, Text, REBUILT, FK_DEFINED, STATS_UPDATED, DONE, Outcomes, Listings, Files, Manifests
<1>1. CASE Start
  BY <1>1 DEF Start
<1>2. CASE DefineFks
  BY <1>2 DEF DefineFks
<1>3. CASE LaterPhase
  BY <1>3 DEF LaterPhase
<1>4. CASE OpenOrphans
  BY <1>4 DEF OpenOrphans, OpenFile, Halves, EmptyFile
<1>5. CASE OpenWithheld
  BY <1>5 DEF OpenWithheld, OpenFile, Halves, EmptyFile
<1>6. CASE CloseFile
  BY <1>6 DEF CloseFile
<1>7. CASE Commit
  <2>1. db'.phase >= db.phase /\ db'.phase >= Target /\ Possible' = Possible
    BY <1>7 DEF Commit
  <2>2. ASSUME ~late', NEW m \in Possible
        PROVE  db'.phase <= m.phase + 1
    <3>1. ~late /\ manifest.back = {} /\ m = manifest.now
      BY <1>7, <2>2 DEF Commit
    <3> QED
      BY <1>7, <3>1 DEF Commit
  <2>3. \A m \in Possible : m.phase <= db'.phase
    <3> SUFFICES ASSUME NEW m \in Possible PROVE m.phase <= db'.phase
      OBVIOUS
    <3>1. m \in Manifests
      BY PossibleTyped
    <3>2. m.phase \in Nat /\ db.phase \in Nat /\ manifest.now.phase \in Nat
      BY <3>1
    <3>3. db'.phase \in {Target, db.phase}
      BY <1>7 DEF Commit
    <3>4. db'.phase \in Nat /\ m.phase <= db.phase
      BY <3>2, <3>3
    <3> QED
      BY <2>1, <3>2, <3>4
  <2> QED
    BY <1>7, <2>1, <2>2, <2>3 DEF Commit
<1>8. CASE WriteTmp
  BY <1>8 DEF WriteTmp
<1>9. CASE SyncTmp
  BY <1>9 DEF SyncTmp
<1>10. CASE Rename
  BY <1>10 DEF Rename
<1>11. CASE SyncDirectory
  BY <1>11 DEF SyncDirectory
<1>12. CASE Stop
  BY <1>12 DEF Stop
<1>13. CASE Settle
  BY <1>13 DEF Settle
<1>14. CASE PowerFailure
  <2>1. manifest'.now \in Possible /\ Possible' = {manifest'.now}
    BY <1>14, PossibleAfterPower
  <2>2. pc' = "off"
    BY <1>14 DEF PowerFailure
  <2> QED
    BY <1>14, <2>1, <2>2 DEF PowerFailure
<1>15. CASE UNCHANGED recordVars
  BY <1>15 DEF recordVars
<1> QED
  BY <1>1, <1>2, <1>3, <1>4, <1>5, <1>6, <1>7, <1>8, <1>9, <1>10, <1>11, <1>12, <1>13, <1>14, <1>15 DEF RecordNext

LEMMA CatalogStep ==
  ASSUME RecordTypeOK, RecordsInv, PhaseInv, CatalogInv, [RecordNext]_recordVars
  PROVE  CatalogInv'
<1> USE RecordFilesAssumption DEF RecordTypeOK, RecordsInv, PhaseInv, CatalogInv, Sound, Writing, Replacing, Possible, Target, Text, REBUILT, FK_DEFINED, STATS_UPDATED, DONE, Outcomes, Listings, Files, Manifests
<1>1. CASE Start
  BY <1>1 DEF Start
<1>2. CASE DefineFks
  BY <1>2 DEF DefineFks, Withheld, Rejected, Rejectable, Stopped
<1>3. CASE LaterPhase
  <2>1. out' = [fks |-> db.fks, violated |-> manifest.now.violated,
                withheld |-> manifest.now.withheld]
    BY <1>3 DEF LaterPhase
  <2>2. manifest.now.withheld = Edges \ db.fks
    <3>1. manifest.now \in Possible /\ manifest.now.phase \in Nat
      BY PossibleTyped
    <3> QED
      BY <1>3, <3>1 DEF LaterPhase
  <2> QED
    BY <1>3, <2>1, <2>2 DEF LaterPhase
<1>4. CASE OpenOrphans
  BY <1>4 DEF OpenOrphans, OpenFile, Halves, EmptyFile
<1>5. CASE OpenWithheld
  BY <1>5 DEF OpenWithheld, OpenFile, Halves, EmptyFile
<1>6. CASE CloseFile
  BY <1>6 DEF CloseFile
<1>7. CASE Commit
  <2>1. db'.fks = out.fks /\ Possible' = Possible
    BY <1>7 DEF Commit
  <2>2. ASSUME NEW m \in Possible, m.phase >= FK_DEFINED
        PROVE  m.withheld = Edges \ db'.fks
    <3>1. m \in Manifests /\ manifest.now.phase \in Nat
      BY PossibleTyped
    <3>2. Target > FK_DEFINED
      BY <2>2, <3>1
    <3> QED
      BY <1>7, <2>1, <2>2, <3>2 DEF Commit
  <2> QED
    BY <1>7, <2>1, <2>2 DEF Commit
<1>8. CASE WriteTmp
  BY <1>8 DEF WriteTmp
<1>9. CASE SyncTmp
  BY <1>9 DEF SyncTmp
<1>10. CASE Rename
  BY <1>10 DEF Rename
<1>11. CASE SyncDirectory
  BY <1>11 DEF SyncDirectory
<1>12. CASE Stop
  BY <1>12 DEF Stop
<1>13. CASE Settle
  BY <1>13 DEF Settle
<1>14. CASE PowerFailure
  <2>1. manifest'.now \in Possible /\ Possible' = {manifest'.now}
    BY <1>14, PossibleAfterPower
  <2>2. pc' = "off"
    BY <1>14 DEF PowerFailure
  <2> QED
    BY <1>14, <2>1, <2>2 DEF PowerFailure
<1>15. CASE UNCHANGED recordVars
  BY <1>15 DEF recordVars
<1> QED
  BY <1>1, <1>2, <1>3, <1>4, <1>5, <1>6, <1>7, <1>8, <1>9, <1>10, <1>11, <1>12, <1>13, <1>14, <1>15 DEF RecordNext

(* While the exceptions are written, no manifest says FK_DEFINED.          *)
LEMMA NoneMarkedYet ==
  ASSUME RecordTypeOK, RecordsInv, CatalogInv, pc \in Writing
  PROVE  \A m \in Possible : ~(m.phase >= FK_DEFINED)
<1>1. manifest.now.phase \in Nat /\ manifest.now.phase + 1 = 1
  BY PossibleTyped DEF CatalogInv, Target, FK_DEFINED, Manifests, REBUILT, DONE
<1>2. \A m \in Possible : m.phase \in Nat /\ m.phase <= manifest.now.phase
  BY PossibleTyped DEF RecordsInv, Manifests, REBUILT, DONE
<1> QED
  BY <1>1, <1>2 DEF FK_DEFINED

LEMMA ExceptionsStep ==
  ASSUME RecordTypeOK, RecordsInv, CatalogInv, ExceptionsInv, [RecordNext]_recordVars
  PROVE  ExceptionsInv'
<1> USE DEF ExceptionsInv, Lists, Writing, Replacing
<1>1. CASE Start
  BY <1>1 DEF Start, Possible
<1>2. CASE DefineFks
  <2>1. pc' = "commit" => out'.withheld = {} /\ out'.violated = {}
    BY <1>2 DEF DefineFks, Withheld
  <2>2. pc' = "open_withheld" => out'.violated = {}
    BY <1>2 DEF DefineFks
  <2>3. pc' \in {"commit", "open_withheld", "open_orphans"}
    BY <1>2 DEF DefineFks
  <2> QED
    BY <1>2, <2>1, <2>2, <2>3 DEF DefineFks, Possible
<1>3. CASE LaterPhase
  <2>1. manifest.now \in Possible /\ manifest.now.phase >= FK_DEFINED
    BY <1>3, PossibleTyped DEF LaterPhase, Target, FK_DEFINED, Manifests, REBUILT, DONE
  <2>2. out'.withheld = manifest.now.withheld /\ out'.violated = manifest.now.violated
    BY <1>3 DEF LaterPhase
  <2> QED
    BY <1>3, <2>1, <2>2 DEF LaterPhase, Possible
<1>4. CASE OpenOrphans
  <2>1. text' = [orphans |-> out.violated, sections |-> <<>>] /\ pc' = "close_orphans"
    BY <1>4 DEF OpenOrphans, OpenFile
  <2>2. \A m \in Possible : ~(m.phase >= FK_DEFINED)
    BY <1>4, NoneMarkedYet DEF OpenOrphans
  <2> QED
    BY <1>4, <2>1, <2>2 DEF OpenOrphans, Possible
<1>5. CASE OpenWithheld
  <2>1. /\ text' = [orphans |-> art.now.orphans, sections |-> <<out.withheld>>]
        /\ pc' = "close_withheld"
    BY <1>5 DEF OpenWithheld, OpenFile
  <2>2. \A m \in Possible : ~(m.phase >= FK_DEFINED)
    BY <1>5, NoneMarkedYet DEF OpenWithheld
  <2>3. out.violated = {} \/ art.now.orphans = out.violated
    BY <1>5 DEF OpenWithheld
  <2> QED
    BY <1>5, <2>1, <2>2, <2>3 DEF OpenWithheld, Possible
<1>6. CASE CloseFile
  <2>1. pc \in Writing /\ art'.now = text
    BY <1>6 DEF CloseFile, RecordTypeOK
  <2>2. \A m \in Possible : ~(m.phase >= FK_DEFINED)
    BY <2>1, NoneMarkedYet
  <2> QED
    BY <1>6, <2>1, <2>2 DEF CloseFile, Possible
<1>7. CASE Commit
  BY <1>7 DEF Commit, Possible
<1>8. CASE WriteTmp
  BY <1>8 DEF WriteTmp, Possible
<1>9. CASE SyncTmp
  BY <1>9 DEF SyncTmp, Possible
<1>10. CASE Rename
  <2>1. tmp.withheld = out.withheld /\ tmp.violated = out.violated
    BY <1>10 DEF Rename, RecordsInv, Text
  <2>2. Possible' = Possible \cup {tmp}
    BY <1>10, PossibleAfterRename
  <2> QED
    BY <1>10, <2>1, <2>2 DEF Rename
<1>11. CASE SyncDirectory
  BY <1>11 DEF SyncDirectory, Possible, RecordTypeOK
<1>12. CASE Stop
  BY <1>12 DEF Stop, Possible
<1>13. CASE Settle
  BY <1>13 DEF Settle, Possible, RecordTypeOK
<1>14. CASE PowerFailure
  <2>1. manifest'.now \in Possible /\ Possible' = {manifest'.now}
    BY <1>14, PossibleAfterPower
  <2>2. pc' = "off"
    BY <1>14 DEF PowerFailure
  <2>3. PICK a \in {art.now} \cup art.back :
          art' = [now |-> a, back |-> {}] /\ lost' = (lost \/ a # art.now)
    BY <1>14 DEF PowerFailure
  <2>4. art'.now = a
    BY <2>3
  <2>5. CASE lost'
    BY <2>2, <2>5
  <2>6. CASE ~lost'
    <3>1. ~lost /\ art'.now = art.now
      BY <2>3, <2>4, <2>6
    <3> QED
      BY <2>1, <2>2, <3>1
  <2> QED
    BY <2>5, <2>6
<1>15. CASE UNCHANGED recordVars
  BY <1>15 DEF recordVars, Possible
<1> QED
  BY <1>1, <1>2, <1>3, <1>4, <1>5, <1>6, <1>7, <1>8, <1>9, <1>10, <1>11, <1>12, <1>13, <1>14, <1>15 DEF RecordNext

-----------------------------------------------------------------------------
LEMMA InitHolds == RecordInit => RecordInv
<1> SUFFICES ASSUME RecordInit PROVE RecordInv
  OBVIOUS
<1> USE RecordFilesAssumption DEF RecordInit, Text, NoOutcome, EmptyFile, REBUILT, FK_DEFINED, DONE
<1>1. [orphans |-> {}, sections |-> <<>>] \in Files
  BY DEF Files, Listings
<1>2. RecordTypeOK
  <2>1. pc = "off" /\ broken \in SUBSET Edges /\ stops \in Nat
    OBVIOUS
  <2>2. db \in [phase : REBUILT .. DONE, fks : SUBSET Edges] /\ out \in Outcomes
    BY DEF Outcomes
  <2>3. text \in Files
    BY <1>1
  <2>4. art \in [now : Files, back : SUBSET Files]
    BY <1>1
  <2>5. tmp \in Manifests
    BY DEF Manifests
  <2>6. manifest \in [now : Manifests, back : SUBSET Manifests]
    BY DEF Manifests
  <2>7. late \in BOOLEAN /\ lost \in BOOLEAN
    OBVIOUS
  <2> QED
    BY <2>1, <2>2, <2>3, <2>4, <2>5, <2>6, <2>7 DEF RecordTypeOK
<1>3. RecordsInv
  BY DEF RecordsInv, Possible
<1>4. PhaseInv
  BY DEF PhaseInv, Possible, Replacing
<1>5. CatalogInv
  BY DEF CatalogInv, Possible, Writing, Replacing, Sound
<1>6. ExceptionsInv
  BY DEF ExceptionsInv, Possible, Replacing
<1> QED
  BY <1>2, <1>3, <1>4, <1>5, <1>6 DEF RecordInv

(* RecordInv is inductive: the manifests that may be found, the phase, what is  *)
(* withheld and the exceptions hang together at every call.                *)
THEOREM RecordInductive == RecordSpec => []RecordInv
<1>1. RecordInit => RecordInv
  BY InitHolds
<1>2. RecordInv /\ [RecordNext]_recordVars => RecordInv'
  BY TypeStep, RecordsStep, PhaseStep, CatalogStep, ExceptionsStep DEF RecordInv
<1> QED
  BY <1>1, <1>2, PTL DEF RecordSpec

(* Type correctness.                                                       *)
THEOREM TypeCorrect == RecordSpec => []RecordTypeOK
<1>1. RecordInv => RecordTypeOK
  BY DEF RecordInv
<1> QED
  BY <1>1, RecordInductive, PTL

(* No kill, failed call or power failure leaves a torn manifest.           *)
THEOREM ManifestWhole == RecordSpec => []RecordWhole
<1>1. RecordInv => RecordWhole
  BY PossibleTyped DEF RecordInv, RecordsInv, RecordWhole
<1> QED
  BY <1>1, RecordInductive, PTL

(* The manifest is never ahead of the database. As long as the directory   *)
(* was flushed before each commit (~late) it is at most one phase behind;  *)
(* what a power failure does after a commit that came first is left open   *)
(* (import_manifest.cpp l.730 does not look at that fsync).                *)
THEOREM OneBehind == RecordSpec => []AtMostOneBehind
<1>1. RecordInv => AtMostOneBehind
  BY PossibleTyped DEF RecordInv, PhaseInv, AtMostOneBehind
<1> QED
  BY <1>1, RecordInductive, PTL

(* Once FK_DEFINED is on record, manifest, catalog and exceptions agree.   *)
THEOREM StoresAgree == RecordSpec => []RepairsListed
<1>1. RecordInv => RepairsListed
  BY PossibleTyped DEF RecordInv, CatalogInv, ExceptionsInv, Lists, RepairsListed
<1> QED
  BY <1>1, RecordInductive, PTL
================================================================================
