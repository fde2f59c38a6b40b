----------------------------- MODULE TerminalOrder -----------------------------
(***************************************************************************)
(* What the plan promises of the work after the load: each terminal task   *)
(* is performed once, and none before the tasks it has to wait for.  The   *)
(* schedule that importdb prints is one such order, and the statements it  *)
(* executes have to follow one as well.                                    *)
(***************************************************************************)
VARIABLES
  task,        \* the terminal tasks
  after,       \* what each of them has to wait for
  performed    \* the tasks behind us

vars == <<task, after, performed>>

Init ==
  /\ after \in [task -> SUBSET task]
  /\ performed = {}

(* Tasks that share a statement are performed together.                    *)
Perform ==
  \E T \in SUBSET (task \ performed) :
    /\ \A t \in T : after[t] \subseteq performed
    /\ performed' = performed \cup T
    /\ UNCHANGED <<task, after>>

Spec == Init /\ [][Perform]_vars
================================================================================
