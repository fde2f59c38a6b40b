-------------------------------- MODULE LoadPool --------------------------------
(***************************************************************************)
(* load_data() of src/src/import_load.cpp: importdb spawns one             *)
(* `cub_admin loaddb' child per object file, at most `degree' at a time,   *)
(* and reaps them.  The children commit on connections of their own, so    *)
(* one that outlives its parent would add rows behind the back of the run  *)
(* that truncates the tables and loads them again.  A child therefore asks *)
(* the kernel to be killed with its parent (PR_SET_PDEATHSIG), then checks *)
(* that the parent was still there to be asked about, and only then        *)
(* becomes loaddb.                                                         *)
(*                                                                         *)
(* Simplifications.  The death signal is delivered with the death, and a   *)
(* batch in flight at the server counts as committed before it.  Process   *)
(* ids are not reused.  Runs are numbered, and bounded by MaxRun.          *)
(***************************************************************************)
EXTENDS Naturals, FiniteSets

CONSTANTS
  N,        \* the number of object files, after the skipped classes
  Batches,  \* [1 .. N -> Nat]: commits loaddb makes for each file
  Degree,   \* --degree
  MaxRun    \* bound: runs of importdb

ASSUME LoadPoolAssumption ==
  /\ N \in Nat
  /\ Batches \in [1 .. N -> Nat]
  /\ Degree \in Nat
  /\ MaxRun \in Nat

VARIABLES
  run,      \* the number of the run, which stands for the parent's pid
  parent,   \* where it is: "down", "truncate", "pool", "loaded"
  next,     \* the file to spawn next
  running,  \* the children it counts
  tracked,  \* pid_idx: the files of those children
  anyFail,  \* any_fail
  autoreap, \* SIGCHLD is ignored, so waitpid reaps nobody
  child,    \* the state of the child of each run and file
  fed,      \* batches each child has committed
  rows      \* batches of each file in the database

pool == <<next, running, tracked, anyFail>>
vars == <<run, parent, pool, autoreap, child, fed, rows>>

File == 1 .. N
Run == 1 .. MaxRun

(* The pool's bound: --degree, at least one and at most one per file.      *)
Deg == IF Degree < 1 THEN 1 ELSE IF N > 0 /\ Degree > N THEN N ELSE Degree

Ended == {"none", "exited", "failed", "killed"}
State == Ended \cup {"forked", "armed", "loading"}

-----------------------------------------------------------------------------
Init ==
  /\ run = 0
  /\ parent = "down"
  /\ next = 1
  /\ running = 0
  /\ tracked = {}
  /\ anyFail = FALSE
  /\ autoreap \in BOOLEAN
  /\ child = [r \in Run |-> [f \in File |-> "none"]]
  /\ fed = [r \in Run |-> [f \in File |-> 0]]
  /\ rows = [f \in File |-> 0]

(* A run reaches the data phase, for the first time or as a resume.        *)
Begin ==
  /\ parent = "down"
  /\ run < MaxRun
  /\ run' = run + 1
  /\ parent' = "truncate"
  /\ UNCHANGED <<pool, autoreap, child, fed, rows>>

(* The tables are bare heaps, and a resumed run empties them.              *)
Truncate ==
  /\ parent = "truncate"
  /\ rows' = [f \in File |-> 0]
  /\ parent' = "pool"
  /\ next' = 1
  /\ running' = 0
  /\ tracked' = {}
  /\ anyFail' = FALSE
  /\ UNCHANGED <<run, autoreap, child, fed>>

Filling == running < Deg /\ next <= N

Forked ==
  /\ child' = [child EXCEPT ![run][next] = "forked"]
  /\ tracked' = tracked \cup {next}
  /\ running' = running + 1
  /\ UNCHANGED anyFail

ForkFailed ==
  /\ anyFail' = TRUE
  /\ UNCHANGED <<child, tracked, running>>

Spawn ==
  /\ parent = "pool"
  /\ Filling
  /\ Forked \/ ForkFailed
  /\ next' = next + 1
  /\ UNCHANGED <<run, parent, autoreap, fed, rows>>

(* Mutant: the exit status of the child is not looked at.                  *)
MutReap(f) ==
  /\ parent = "pool" /\ ~Filling /\ ~autoreap
  /\ f \in tracked /\ child[run][f] \in Ended
  /\ tracked' = tracked \ {f}
  /\ running' = running - 1
  /\ UNCHANGED <<run, parent, next, anyFail, autoreap, child, fed, rows>>

(* waitpid returns a child that has ended.  The pool goes on after a       *)
(* failure: the other files are loaded all the same.                       *)
Reap(f) ==
  /\ parent = "pool" /\ ~Filling /\ ~autoreap
  /\ f \in tracked /\ child[run][f] \in Ended
  /\ tracked' = tracked \ {f}
  /\ running' = running - 1
  /\ anyFail' = (anyFail \/ child[run][f] # "exited")
  /\ UNCHANGED <<run, parent, next, autoreap, child, fed, rows>>

(* Mutant: the loop is not left while children are counted.                *)
MutLostTrack ==
  /\ parent = "pool" /\ ~Filling /\ autoreap
  /\ running = 0
  /\ parent' = "down"
  /\ UNCHANGED <<run, pool, autoreap, child, fed, rows>>

(* waitpid fails with ECHILD: it waited for all of them and reaped none.   *)
(* The loop is left with children still counted, as a failure.             *)
LostTrack ==
  /\ parent = "pool" /\ ~Filling /\ autoreap
  /\ running > 0
  /\ \A f \in tracked : child[run][f] \in Ended
  /\ parent' = "down"
  /\ UNCHANGED <<run, pool, autoreap, child, fed, rows>>

(* The loop ends.  A failed load ends the run.                             *)
End ==
  /\ parent = "pool" /\ next > N /\ running = 0
  /\ parent' = IF anyFail THEN "down" ELSE "loaded"
  /\ UNCHANGED <<run, pool, autoreap, child, fed, rows>>

(* SIGKILL of importdb at any moment; the kernel kills the children that   *)
(* have asked for it.                                                      *)
KillParent ==
  /\ parent # "down"
  /\ parent' = "down"
  /\ child' = [child EXCEPT ![run] =
                 [f \in File |-> IF @[f] \in {"armed", "loading"}
                                 THEN "killed" ELSE @[f]]]
  /\ UNCHANGED <<run, pool, autoreap, fed, rows>>

-----------------------------------------------------------------------------
(* The child of run r for file f.                                          *)
Becomes(r, f, state) ==
  /\ child' = [child EXCEPT ![r][f] = state]
  /\ UNCHANGED <<run, parent, pool, autoreap>>

(* prctl (PR_SET_PDEATHSIG, SIGKILL)                                       *)
Arm(r, f) ==
  /\ child[r][f] = "forked"
  /\ Becomes(r, f, "armed")
  /\ UNCHANGED <<fed, rows>>

ParentAlive(r) == r = run /\ parent # "down"

(* Mutant: getppid () is not read again after the prctl.                   *)
MutExec(r, f) ==
  /\ child[r][f] = "armed"
  /\ Becomes(r, f, "loading") \/ Becomes(r, f, "failed")
  /\ UNCHANGED <<fed, rows>>

(* getppid () tells an orphan, which leaves; the others become loaddb, or  *)
(* fail to.                                                                *)
Exec(r, f) ==
  /\ child[r][f] = "armed"
  /\ \/ ParentAlive(r) /\ Becomes(r, f, "loading")
     \/ ParentAlive(r) /\ Becomes(r, f, "failed")
     \/ ~ParentAlive(r) /\ Becomes(r, f, "killed")
  /\ UNCHANGED <<fed, rows>>

Batch(r, f) ==
  /\ child[r][f] = "loading"
  /\ fed[r][f] < Batches[f]
  /\ fed' = [fed EXCEPT ![r][f] = @ + 1]
  /\ rows' = [rows EXCEPT ![f] = @ + 1]
  /\ UNCHANGED <<run, parent, pool, autoreap, child>>

(* loaddb exits with 0 when it has loaded all its rows, and with another   *)
(* status otherwise; what it had committed stays.                          *)
Finish(r, f) ==
  /\ child[r][f] = "loading"
  /\ \/ fed[r][f] = Batches[f] /\ Becomes(r, f, "exited")
     \/ Becomes(r, f, "failed")
  /\ UNCHANGED <<fed, rows>>

ParentStep ==
  \/ Truncate \/ Spawn \/ LostTrack \/ End
  \/ \E f \in File : Reap(f)

ChildStep(r, f) == Arm(r, f) \/ Exec(r, f) \/ Batch(r, f) \/ Finish(r, f)

Next ==
  \/ Begin \/ KillParent \/ ParentStep
  \/ \E r \in Run, f \in File : ChildStep(r, f)

Spec == Init /\ [][Next]_vars

(* The parent and the children are scheduled.                              *)
FairSpec ==
  /\ Spec
  /\ WF_vars(ParentStep)
  /\ \A r \in Run, f \in File : WF_vars(ChildStep(r, f))

-----------------------------------------------------------------------------
(* The type of every variable.                                             *)
TypeOK ==
  /\ run \in 0 .. MaxRun
  /\ parent \in {"down", "truncate", "pool", "loaded"}
  /\ next \in 1 .. N + 1
  /\ running \in 0 .. N
  /\ tracked \subseteq File
  /\ anyFail \in BOOLEAN
  /\ autoreap \in BOOLEAN
  /\ child \in [Run -> [File -> State]]
  /\ fed \in [Run -> [File -> Nat]]
  /\ rows \in [File -> Nat]

(* No loader outlives its parent (import_load.cpp l.300): wherever the     *)
(* parent is killed, between fork and prctl too, only the children of the  *)
(* run that is waiting for them ever load.                                 *)
NoOrphanLoads ==
  \A r \in Run, f \in File :
    child[r][f] = "loading" => r = run /\ parent = "pool"

(* At most `degree' children exist at a time besides orphans that are on   *)
(* their way out, and the counter the loop runs on is their number         *)
(* (import_load.cpp l.432).                                                *)
PoolBounded ==
  parent = "pool" =>
    /\ running = Cardinality(tracked)
    /\ {f \in File : child[run][f] \notin Ended} \subseteq tracked
    /\ running <= Deg

(* A load that succeeds after any number of kills, failures and reloads    *)
(* has every row of the dump in the database exactly once (import_load.cpp *)
(* l.303: "the row count comes out doubled").                              *)
EachRowOnce == parent = "loaded" => rows = Batches

(* A run in its data phase loads, fails or is killed, but does not hang:   *)
(* the loop is left when the last child has ended, whoever reaps it.       *)
PoolEnds == parent = "pool" ~> parent # "pool"

(* The pool implements the load that the pipeline relies on.               *)
status == CASE parent = "pool" -> "loading"
            [] parent = "loaded" -> "loaded"
            [] OTHER -> "down"

Abstract == INSTANCE BulkLoad

(* LoadPool implements BulkLoad.                                           *)
ImplementsBulkLoad == Abstract!Spec
=============================================================================
