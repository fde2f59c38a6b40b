---------------------------- MODULE ImportDB_proofs ----------------------------
(***************************************************************************)
(* Proofs about ImportDB, for every value of its constants.  IInv is shown *)
(* to be inductive with one lemma per action; a lemma first says what the  *)
(* action finds (from IInv) and what it leaves, then shows the conjuncts   *)
(* of IInv one by one.  The theorems at the end follow from IInv.          *)
(***************************************************************************)
EXTENDS ImportDBInv, TLAPS

(* Phases are numbers and steps are strings throughout.                    *)
USE DEF Phase, DISCOVERED, DEFINED, STRIPPED, LOADED, REBUILT, FK_DEFINED,
        STATS_UPDATED, DONE, Steps, Fallible, Defining, Committing, Recording,
        Settled, AfterGraph, AtDefined, AtStripped, AtLoaded, AtRebuilt, AtFk,
        AtStats, BeforeLoad, Loose, Staged, Whole

(* The empty record and the empty database are of their types.             *)
LEMMA EmptyTypes ==
  /\ NoRecord \in Record
  /\ NoManifest \in Record
  /\ EmptyDb \in Database
  /\ NoRows \in [Class -> Nat]
<1>1. NoRecord \in Record
  BY DEF NoRecord, Record
<1>2. NoManifest \in Record
  BY <1>1 DEF NoManifest, Record
<1>3. EmptyDb \in Database
  BY DEF EmptyDb, Database, NoRows
<1>4. NoRows \in [Class -> Nat]
  BY DEF NoRows
<1> QED
  BY <1>1, <1>2, <1>3, <1>4

(* What a fresh record holds.                                              *)
LEMMA NoRecordFields ==
  /\ NoRecord.exists
  /\ ~NoRecord.hasGraph
  /\ NoRecord.graph = {}
  /\ NoRecord.violated = {}
  /\ NoRecord.withheld = {}
  BY DEF NoRecord

-----------------------------------------------------------------------------
(* The initial state, and steps that end or start a run.                   *)

(* The invariant holds of an empty target without a manifest.              *)
LEMMA InitIInv == Init => IInv
<1> SUFFICES ASSUME Init PROVE IInv
  OBVIOUS
<1> USE EmptyTypes, NoRecordFields DEF Init
<1>1. /\ manifest.phase = DISCOVERED
      /\ ~manifest.hasGraph /\ manifest.graph = {}
      /\ manifest.violated = {}
  BY DEF NoManifest, NoRecord
<1>2. db.cls = {} /\ db.con = {} /\ db.trg = {} /\ db.rows = NoRows
  BY DEF EmptyDb
<1>3. TypeOK
  <2>1. restored \in BOOLEAN /\ keep \in BOOLEAN /\ lost \in BOOLEAN
    BY Zenon
  <2> QED
    BY <2>1, ConstantAssumption DEF TypeOK, Outcomes
<1>4. Sound(manifest.phase, manifest, db)
  BY <1>1, <1>2 DEF Sound
<1>5. PhaseOfStep /\ Reading /\ Definition /\ Entering
  <2>1. PhaseOfStep
    BY DEF PhaseOfStep
  <2>2. Reading
    BY <1>1 DEF Reading, Resuming
  <2>3. Definition /\ Entering
    BY DEF Definition, Entering
  <2> QED
    BY <2>1, <2>2, <2>3
<1>6. Working
  BY DEF Working
<1>7. Finished
  BY <1>1 DEF Finished
<1> QED
  BY <1>3, <1>4, <1>5, <1>6, <1>7 DEF IInv

(* The invariant reads nothing but the variables of vars.                  *)
LEMMA StutterIInv ==
  ASSUME IInv, UNCHANGED vars
  PROVE  IInv'
<1>1. UNCHANGED <<db, manifest, preserved, lost, opt, prior, keep, ses, mem, present,
                  fed, restored, outcome, flaw, faults, pc>>
  BY DEF vars, file, proc
<1>2. TypeOK'
  BY <1>1 DEF IInv, TypeOK
<1>3. Sound(manifest.phase, manifest, db)'
  BY <1>1 DEF IInv, Sound
<1>4. PhaseOfStep' /\ Reading' /\ Definition' /\ Entering'
  BY <1>1 DEF IInv, PhaseOfStep, Reading, Definition, Entering, Resuming
<1>5. Working'
  <2>1. /\ Sound(manifest.phase, mem, db)' = Sound(manifest.phase, mem, db)
        /\ Sound(manifest.phase, manifest, ses)'
             = Sound(manifest.phase, manifest, ses)
        /\ Sound(manifest.phase + 1, mem, ses)'
             = Sound(manifest.phase + 1, mem, ses)
    BY <1>1 DEF Sound
  <2>2. UNCHANGED Resuming
    BY <1>1 DEF Resuming
  <2> QED
    BY <1>1, <2>1, <2>2 DEF IInv, Working
<1>6. Finished'
  BY <1>1 DEF IInv, Finished, Unresolved, Resuming
<1> QED
  BY <1>2, <1>3, <1>4, <1>5, <1>6 DEF IInv

(* A run that ends, however it ends, leaves the invariant: the two stores  *)
(* are unchanged and what the process held is gone.  The two exit codes 0  *)
(* claim a finished record, and a resume that is turned away must have its *)
(* reason.                                                                 *)
LEMMA ExitIInv ==
  ASSUME IInv, NEW how \in Outcomes, UNCHANGED <<db, file>>, Exit(how),
         faults' \in 0 .. MaxFaults, pc # "idle",
         how \in {"imported", "already"} =>
           manifest.phase = DONE /\ ~Unresolved(manifest),
         how = "mismatch" => lost,
         how = "stuck" => ~OwnKeys
  PROVE  IInv'
<1> USE DEF Exit, file, IInv
<1>1. TypeOK'
  <2>1. manifest' \in Record /\ preserved' \subseteq Record /\ mem' \in Record
    BY EmptyTypes DEF TypeOK
  <2>2. db' \in Database /\ ses' \in Database
    BY DEF TypeOK
  <2>3. /\ opt' \in [dry : BOOLEAN, restart : BOOLEAN, cont : BOOLEAN]
        /\ flaw' \subseteq Flawed
        /\ pc' \in Steps
    BY DEF TypeOK
  <2>4. prior' \in 0..6
    OBVIOUS
  <2>5. keep' \in BOOLEAN /\ restored' \in BOOLEAN
    BY Zenon
  <2>6. /\ present' \subseteq Con \cup Index
        /\ fed' \in [Class -> Nat]
        /\ outcome' \in Outcomes
    BY EmptyTypes
  <2> QED
    BY <2>1, <2>2, <2>3, <2>4, <2>5, <2>6 DEF TypeOK
<1>2. Sound(manifest.phase, manifest, db)'
  BY DEF Sound
<1>3. PhaseOfStep' /\ Reading' /\ Definition' /\ Entering'
  <2>1. PhaseOfStep' /\ Definition' /\ Entering'
    BY DEF PhaseOfStep, Definition, Entering
  <2>2. Reading'
    BY NoRecordFields DEF Reading, Resuming
  <2> QED
    BY <2>1, <2>2
<1>4. Working'
  BY DEF Working
<1>5. Finished'
  BY DEF Finished, NoRecord, Unresolved
<1> QED
  BY <1>1, <1>2, <1>3, <1>4, <1>5

(* Starting a run touches neither store.                                   *)
LEMMA StartIInv ==
  ASSUME IInv, NEW o \in Options, Start(o)
  PROVE  IInv'
<1> USE DEF Start, Goto, NoFault, file, IInv
<1>1. TypeOK'
  BY ConstantAssumption DEF TypeOK, Options, Outcomes
<1>2. Sound(manifest.phase, manifest, db)'
  BY DEF Sound
<1>3. PhaseOfStep' /\ Reading' /\ Definition' /\ Entering'
  BY DEF PhaseOfStep, Reading, Definition, Entering, Resuming
<1>4. Working'
  BY DEF Working
<1>5. Finished'
  BY DEF Finished, NoRecord, Unresolved
<1> QED
  BY <1>1, <1>2, <1>3, <1>4, <1>5

(* The operator empties the target only while nothing is recorded.         *)
LEMMA EmptyTargetIInv ==
  ASSUME IInv, EmptyTarget
  PROVE  IInv'
<1> USE DEF EmptyTarget, NoFault, file, IInv
<1>1. TypeOK'
  BY EmptyTypes DEF TypeOK
<1>2. Sound(manifest.phase, manifest, db)'
  BY DEF Sound, EmptyDb
<1>3. PhaseOfStep' /\ Reading' /\ Definition' /\ Entering'
  BY DEF PhaseOfStep, Reading, Definition, Entering, Resuming
<1>4. Working'
  BY DEF Working
<1>5. Finished'
  BY DEF Finished, Unresolved, Resuming
<1> QED
  BY <1>1, <1>2, <1>3, <1>4, <1>5

(* A kill at any step leaves the invariant.                                *)
LEMMA KillIInv ==
  ASSUME IInv, Kill
  PROVE  IInv'
<1>1. faults' \in 0 .. MaxFaults
  BY ConstantAssumption DEF Kill, Fault, IInv, TypeOK
<1>2. "killed" \in Outcomes
  BY DEF Outcomes
<1> QED
  BY <1>1, <1>2, ExitIInv DEF Kill

(* So does an I/O failure at any step that has one.                        *)
LEMMA FailAtIInv ==
  ASSUME IInv, FailAt(Fallible)
  PROVE  IInv'
<1>1. faults' \in 0 .. MaxFaults
  BY ConstantAssumption DEF FailAt, Fault, IInv, TypeOK
<1>2. "error" \in Outcomes
  BY DEF Outcomes
<1> QED
  BY <1>1, <1>2, ExitIInv DEF FailAt

-----------------------------------------------------------------------------
(* One lemma per step of a run, in the order of the pipeline.              *)

(* importdb() reads the manifest: a fresh start forgets it, a resume takes *)
(* it into memory, DONE ends the run.                                      *)
LEMMA DecideIInv ==
  ASSUME IInv, Decide
  PROVE  IInv'
<1> USE DEF NoFault, file
<1>1. pc = "decide" /\ UNCHANGED <<db, manifest, preserved, lost, faults>>
  BY DEF Decide
<1>2. faults' \in 0 .. MaxFaults
  BY <1>1 DEF IInv, TypeOK
<1>3. CASE manifest.phase = DONE
           /\ Exit(IF Unresolved(manifest) THEN "already_partial"
                                           ELSE "already")
  <2>1. CASE Unresolved(manifest)
    BY <1>1, <1>2, <1>3, <2>1, ExitIInv DEF Outcomes
  <2>2. CASE ~Unresolved(manifest)
    BY <1>1, <1>2, <1>3, <2>2, ExitIInv DEF Outcomes
  <2> QED
    BY <2>1, <2>2
<1>4. CASE \E p \in BOOLEAN : Fresh(p) /\ (p \/ opt.dry \/ ~manifest.exists)
  <2> USE DEF Fresh, Goto, IInv
  <2>1. TypeOK'
    BY <1>1, <1>4, EmptyTypes DEF TypeOK
  <2>2. Sound(manifest.phase, manifest, db)'
    BY <1>1, <1>4 DEF Sound
  <2>3. PhaseOfStep' /\ Reading' /\ Definition' /\ Entering'
    BY <1>1, <1>4 DEF PhaseOfStep, Reading, Definition, Entering, Resuming
  <2>4. Working'
    BY <1>1, <1>4 DEF Working
  <2>5. Finished'
    BY <1>1, <1>4 DEF Finished, Unresolved, NoRecord,
       Resuming
  <2> QED
    BY <2>1, <2>2, <2>3, <2>4, <2>5
<1>5. CASE ~opt.dry /\ manifest.phase \in DEFINED .. STATS_UPDATED
           /\ ResumeFrom(manifest)
  <2> USE DEF ResumeFrom, Goto, IInv
  <2>1. TypeOK'
    <3>1. prior' \in 0 .. 6 /\ mem' \in Record
      BY <1>1, <1>5 DEF TypeOK, Record
    <3>2. keep' \in BOOLEAN
      BY <1>5, Zenon
    <3> QED
      BY <1>1, <1>5, <3>1, <3>2 DEF TypeOK
  <2>2. Sound(manifest.phase, manifest, db)'
    BY <1>1, <1>5 DEF Sound
  <2>3. PhaseOfStep' /\ Reading' /\ Definition' /\ Entering'
    BY <1>1, <1>5 DEF PhaseOfStep, Reading, Definition, Entering, Resuming
  <2>4. Working'
    BY <1>1, <1>5 DEF Working
  <2>5. Finished'
    BY <1>1, <1>5 DEF Finished, Unresolved, Resuming
  <2> QED
    BY <2>1, <2>2, <2>3, <2>4, <2>5
<1> QED
  BY <1>3, <1>4, <1>5 DEF Decide

(* A run that does not resume goes on only on an empty target, and on an   *)
(* empty target nothing is recorded.                                       *)
LEMMA OpenIInv ==
  ASSUME IInv, Open
  PROVE  IInv'
<1> USE DEF NoFault, file
<1>1. pc = "open" /\ UNCHANGED <<db, manifest, preserved, lost, faults>>
  BY DEF Open
<1>2. CASE Exit("not_empty")
  <2>1. faults' \in 0 .. MaxFaults /\ "not_empty" \in Outcomes
    BY <1>1 DEF IInv, TypeOK, Outcomes
  <2> QED
    BY <1>1, <1>2, <2>1, ExitIInv
<1>3. CASE /\ Resuming \/ db.cls = {}
           /\ Goto(IF Resuming THEN "graph"
                   ELSE IF opt.dry THEN "define"
                   ELSE IF keep THEN "preserve" ELSE "write_discovered")
           /\ UNCHANGED proc
  <2> USE DEF Goto, proc, IInv
  <2>1. TypeOK'
    BY <1>1, <1>3 DEF TypeOK
  <2>2. Sound(manifest.phase, manifest, db)'
    BY <1>1, <1>3 DEF Sound
  <2>3. ~Resuming /\ db.cls = {} => manifest.phase = DISCOVERED \/ lost
    BY ConstantAssumption DEF Sound, TypeOK, Record
  <2>4. PhaseOfStep' /\ Reading' /\ Definition' /\ Entering'
    BY <1>1, <1>3, <2>3 DEF PhaseOfStep, Reading, Definition, Entering,
       Resuming
  <2>5. Working'
    BY <1>1, <1>3 DEF Working, Resuming
  <2>6. Finished'
    BY <1>1, <1>3, <2>3 DEF Finished, Reading, Unresolved, Resuming
  <2> QED
    BY <2>1, <2>2, <2>4, <2>5, <2>6
<1> QED
  BY <1>2, <1>3 DEF Open

(* preserve_manifest replaces a record that an empty target has outlived.  *)
LEMMA PreserveIInv ==
  ASSUME IInv, Preserve
  PROVE  IInv'
<1> USE DEF Preserve, Goto, NoFault, proc, IInv
<1>1. pc = "preserve" /\ db.cls = {} /\ ses = db /\ ~lost'
      /\ manifest' = NoManifest
      /\ ~manifest'.hasGraph /\ manifest'.graph = {}
      /\ manifest'.phase = DISCOVERED
      /\ manifest'.violated = {}
  BY DEF Preserve, NoManifest, NoRecord, PhaseOfStep, Definition, Working
<1>2. TypeOK'
  BY <1>1, EmptyTypes DEF TypeOK
<1>3. Sound(manifest.phase, manifest, db)'
  BY <1>1 DEF Sound
<1>4. PhaseOfStep' /\ Reading' /\ Definition' /\ Entering'
  BY <1>1 DEF PhaseOfStep, Reading, Definition, Entering, Resuming
<1>5. Working'
  BY <1>1 DEF Working
<1>6. Finished'
  BY <1>1 DEF Finished, Unresolved, Resuming
<1> QED
  BY <1>2, <1>3, <1>4, <1>5, <1>6

(* A fresh record claims nothing of the database.                          *)
LEMMA WriteDiscoveredIInv ==
  ASSUME IInv, WriteDiscovered
  PROVE  IInv'
<1> USE DEF WriteDiscovered, Write, Goto, NoFault, proc, IInv
<1>1. /\ pc = "write_discovered"
      /\ ~lost
      /\ manifest.phase = DISCOVERED
      /\ db.cls = {}
      /\ ses = db
      /\ manifest' = NoRecord
      /\ manifest'.exists /\ ~manifest'.hasGraph /\ manifest'.graph = {}
      /\ manifest'.phase = DISCOVERED
      /\ manifest'.violated = {}
  BY DEF WriteDiscovered, Write, NoRecord, PhaseOfStep, Reading, Definition,
     Working
<1>2. TypeOK'
  BY <1>1, EmptyTypes DEF TypeOK
<1>3. Sound(manifest.phase, manifest, db)'
  BY <1>1 DEF Sound
<1>4. PhaseOfStep' /\ Reading' /\ Definition' /\ Entering'
  BY <1>1 DEF PhaseOfStep, Reading, Definition, Entering, Resuming
<1>5. Working'
  BY <1>1 DEF Working
<1>6. Finished'
  BY <1>1 DEF Finished, Unresolved, Resuming
<1> QED
  BY <1>2, <1>3, <1>4, <1>5, <1>6

(* The first schema file: a prefix of it may be durable.                   *)
LEMMA DefineClassesIInv ==
  ASSUME IInv, DefineClasses
  PROVE  IInv'
<1> USE DEF DefineClasses, DefinePart, Goto, NoFault, file, IInv
<1>1. /\ pc = "define"
      /\ \/ opt.dry
         \/ manifest.phase = DISCOVERED /\ ~lost /\ ~manifest.hasGraph
      /\ ses = db
      /\ db.cls = {}
      /\ db.con = {} /\ db.rows = NoRows /\ db.trg = {}
  BY DEF PhaseOfStep, Reading, Definition, Working, Sound
<1>2. /\ ses' \in Database
      /\ ses'.cls = Class
      /\ ses'.con = {}
      /\ ses'.rows = NoRows
      /\ ses'.trg = {}
  BY <1>1 DEF TypeOK, Database
<1>3. db' = db \/ (~opt.dry /\ db' = ses')
  OBVIOUS
<1> HIDE DEF DefineClasses, DefinePart
<1>4. /\ UNCHANGED <<manifest, preserved, lost, opt, prior, keep, mem, present, fed,
                     restored, outcome, flaw, faults>>
      /\ pc' = "define_keys"
  BY DEF DefineClasses, DefinePart
<1>5. TypeOK'
  BY <1>1, <1>2, <1>3, <1>4 DEF TypeOK
<1>6. Sound(manifest.phase, manifest, db)'
  BY <1>1, <1>2, <1>3, <1>4 DEF Sound
<1>7. PhaseOfStep' /\ Reading' /\ Definition' /\ Entering'
  BY <1>1, <1>2, <1>3, <1>4 DEF PhaseOfStep, Reading, Definition, Entering,
     Resuming
<1>8. Working'
  BY <1>1, <1>2, <1>3, <1>4 DEF Working
<1>9. Finished'
  BY <1>1, <1>2, <1>3, <1>4 DEF Finished, Unresolved, Resuming
<1> QED
  BY <1>5, <1>6, <1>7, <1>8, <1>9

(* The second schema file: a prefix of it may be durable.                  *)
LEMMA DefineKeysIInv ==
  ASSUME IInv, DefineKeys
  PROVE  IInv'
<1> USE DEF file, IInv
<1>1. /\ pc = "define_keys"
      /\ \/ opt.dry
         \/ manifest.phase = DISCOVERED /\ ~lost /\ ~manifest.hasGraph
      /\ ses.cls = Class /\ ses.con = {} /\ ses.rows = NoRows /\ ses.trg = {}
  BY DEF DefineKeys, DefinePart, PhaseOfStep, Reading, Definition, Sound
<1>2. /\ ses' \in Database
      /\ ses'.cls = Class
      /\ ses'.con = Key
      /\ ses'.rows = NoRows
      /\ ses'.trg = {}
  BY <1>1 DEF DefineKeys, DefinePart, TypeOK, Database, Con
<1>3. /\ UNCHANGED <<manifest, preserved, lost, opt, prior, keep, mem, present, fed,
                     restored, outcome, flaw, faults>>
      /\ pc' = "define_fks"
      /\ db' = db \/ (~opt.dry /\ db' = ses')
  BY DEF DefineKeys, DefinePart, Goto, NoFault
<1>4. TypeOK'
  BY ConstantAssumption, <1>1, <1>2, <1>3, EmptyTypes DEF TypeOK
<1>5. Sound(manifest.phase, manifest, db)'
  BY ConstantAssumption, <1>1, <1>2, <1>3 DEF Sound
<1>6. PhaseOfStep' /\ Reading' /\ Definition' /\ Entering'
  BY ConstantAssumption, <1>1, <1>2, <1>3 DEF PhaseOfStep, Reading,
     Definition, Entering, Resuming
<1>7. Working'
  BY ConstantAssumption, <1>1, <1>2, <1>3 DEF Working, Sound
<1>8. Finished'
  BY ConstantAssumption, <1>1, <1>2, <1>3 DEF Finished, Unresolved, Resuming
<1> QED
  BY <1>4, <1>5, <1>6, <1>7, <1>8

(* The third schema file: a prefix of it may be durable.                   *)
LEMMA DefineFksIInv ==
  ASSUME IInv, DefineFks
  PROVE  IInv'
<1> USE DEF file, IInv
<1>1. /\ pc = "define_fks"
      /\ \/ opt.dry
         \/ manifest.phase = DISCOVERED /\ ~lost /\ ~manifest.hasGraph
      /\ ses.cls = Class /\ ses.con = Key /\ ses.rows = NoRows /\ ses.trg = {}
  BY DEF DefineFks, DefinePart, PhaseOfStep, Reading, Definition, Sound
<1>2. /\ ses' \in Database
      /\ ses'.cls = Class
      /\ ses'.con = Con
      /\ ses'.rows = NoRows
      /\ ses'.trg = {}
  BY <1>1 DEF DefineFks, DefinePart, TypeOK, Database, Con
<1>3. /\ UNCHANGED <<manifest, preserved, lost, opt, prior, keep, mem, present, fed,
                     restored, outcome, flaw, faults>>
      /\ pc' = "define_end"
      /\ db' = db \/ (~opt.dry /\ db' = ses')
  BY DEF DefineFks, DefinePart, Goto, NoFault
<1>4. TypeOK'
  BY ConstantAssumption, <1>1, <1>2, <1>3, EmptyTypes DEF TypeOK
<1>5. Sound(manifest.phase, manifest, db)'
  BY ConstantAssumption, <1>1, <1>2, <1>3 DEF Sound
<1>6. PhaseOfStep' /\ Reading' /\ Definition' /\ Entering'
  BY ConstantAssumption, <1>1, <1>2, <1>3 DEF PhaseOfStep, Reading,
     Definition, Entering, Resuming
<1>7. Working'
  BY ConstantAssumption, <1>1, <1>2, <1>3 DEF Working, Sound
<1>8. Finished'
  BY ConstantAssumption, <1>1, <1>2, <1>3 DEF Finished, Unresolved, Resuming
<1> QED
  BY <1>4, <1>5, <1>6, <1>7, <1>8

(* The commit that makes the whole definition durable, or a refused one    *)
(* that nobody notices: then the schema is what the transaction holds, or  *)
(* what is durable of it, and `lost' tells whether the two differ.         *)
LEMMA DefineEndIInv ==
  ASSUME IInv, DefineEnd
  PROVE  IInv'
<1> USE DEF IInv
<1>1. /\ pc = "define_end"
      /\ \/ opt.dry
         \/ /\ manifest.phase = DISCOVERED /\ manifest.exists
            /\ ~lost /\ ~manifest.hasGraph
      /\ ses.cls = Class /\ ses.con = Con /\ ses.rows = NoRows /\ ses.trg = {}
  BY DEF DefineEnd, PhaseOfStep, Reading, Definition, Sound
<1>2. /\ UNCHANGED <<manifest, preserved, opt, prior, keep, mem, present, fed,
                     restored, outcome, flaw>>
      /\ pc' = IF opt.dry THEN "graph" ELSE "write_defined"
  BY DEF DefineEnd, Goto
<1>3. \/ opt.dry /\ UNCHANGED <<db, ses, lost>>
      \/ ~opt.dry /\ db' = ses /\ ses' = ses /\ ~lost'
      \/ /\ ~opt.dry /\ db' = db
         /\ ses' = db \/ ses' = ses
         /\ lost' \/ ses = db
  BY <1>1 DEF DefineEnd
<1>4. faults' \in 0 .. MaxFaults
  BY ConstantAssumption DEF DefineEnd, Fault, NoFault, TypeOK
<1>5. lost' \in BOOLEAN
  <2>1. CASE lost' = lost
    BY <2>1 DEF TypeOK
  <2>2. CASE lost' = (db # ses)
    BY <2>2, Zenon
  <2> QED
    BY <1>1, <1>3, <2>1, <2>2 DEF DefineEnd
<1>6. TypeOK'
  BY <1>2, <1>3, <1>4, <1>5 DEF TypeOK
<1>7. Sound(manifest.phase, manifest, db)'
  BY <1>1, <1>2, <1>3, ConstantAssumption DEF Sound
<1>8. PhaseOfStep' /\ Reading' /\ Definition' /\ Entering'
  BY <1>1, <1>2, <1>3 DEF PhaseOfStep, Reading, Definition, Entering,
     Resuming
<1>9. Working'
  <2>1. CASE opt.dry
    BY <1>1, <1>2, <1>3, <2>1 DEF Working
  <2>2. CASE ~opt.dry
    <3>1. Staged(db.con) /\ db.rows = NoRows /\ db.trg = {}
          /\ (db.cls = {} => db.con = {})
      BY <1>1, <2>2 DEF Sound
    <3>2. Class # {}
      BY ConstantAssumption
    <3>3. /\ pc' = "write_defined" /\ fed' = NoRows
          /\ ~Resuming'
          /\ ses'.rows = NoRows /\ ses'.trg = {}
          /\ Staged(ses'.con) /\ db'.con \subseteq ses'.con
          /\ ses'.cls = {} => ses'.con = {}
          /\ ses' = db' \/ lost'
      BY <1>1, <1>2, <1>3, <2>2, <3>1, <3>2 DEF Working, Reading, Resuming, Con
    <3> QED
      BY <3>3 DEF Working
  <2> QED
    BY <2>1, <2>2
<1>10. Finished'
  BY <1>1, <1>2, <1>3 DEF Finished, Unresolved, Resuming
<1> QED
  BY <1>6, <1>7, <1>8, <1>9, <1>10

(* The marker DEFINED is written over a durable definition, if none of it  *)
(* was lost.                                                               *)
LEMMA WriteDefinedIInv ==
  ASSUME IInv, WriteDefined
  PROVE  IInv'
<1> USE DEF proc, Goto, NoFault, IInv
<1>1. /\ pc = "write_defined" /\ ~opt.dry /\ ~Resuming
      /\ manifest.phase = DISCOVERED
      /\ ses = db \/ lost
      /\ ~lost => ses.cls = Class /\ ses.con = Con
      /\ Staged(db.con) /\ db.rows = NoRows /\ db.trg = {}
      /\ db.cls = {} => db.con = {}
  BY DEF WriteDefined, Write, PhaseOfStep, Reading, Definition, Sound, Working
<1>2. /\ manifest' \in Record /\ manifest'.phase = DEFINED
      /\ ~manifest'.hasGraph /\ manifest'.graph = {} /\ manifest'.exists
      /\ manifest'.violated = {} /\ manifest'.withheld = {}
  <2>1. manifest' = [NoRecord EXCEPT !.phase = DEFINED]
    BY DEF WriteDefined, Write
  <2>2. manifest' \in Record /\ manifest'.phase = DEFINED
    BY <2>1, EmptyTypes DEF Record
  <2>3. /\ manifest'.hasGraph = NoRecord.hasGraph
        /\ manifest'.graph = NoRecord.graph
        /\ manifest'.exists = NoRecord.exists
        /\ manifest'.violated = NoRecord.violated
        /\ manifest'.withheld = NoRecord.withheld
    BY <2>1 DEF NoRecord
  <2> QED
    BY <2>2, <2>3, NoRecordFields
<1>3. /\ UNCHANGED <<db, preserved, lost, opt, prior, keep, ses, mem, present, fed,
                     restored, outcome, flaw, faults>>
      /\ pc' = "graph"
  BY DEF WriteDefined, Write
<1>4. TypeOK'
  BY ConstantAssumption, <1>1, <1>2, <1>3, EmptyTypes DEF TypeOK
<1>5. Sound(manifest.phase, manifest, db)'
  BY ConstantAssumption, <1>1, <1>2, <1>3 DEF Sound
<1>6. PhaseOfStep' /\ Reading' /\ Definition' /\ Entering'
  BY ConstantAssumption, <1>1, <1>2, <1>3 DEF PhaseOfStep, Reading,
     Definition, Entering, Resuming
<1>7. Working'
  BY <1>1, <1>2, <1>3 DEF Working, Resuming
<1>8. Finished'
  BY ConstantAssumption, <1>1, <1>2, <1>3 DEF Finished, Unresolved, Resuming
<1> QED
  BY <1>4, <1>5, <1>6, <1>7, <1>8

(* The constraint inventory names all that is defined, whether it is read  *)
(* from the catalog or from the record: a record without one was left by a *)
(* run that had stripped nothing.                                          *)
LEMMA GraphIInv ==
  ASSUME IInv, Graph
  PROVE  IInv'
<1> USE DEF file, Goto, NoFault, IInv
<1>1. pc = "graph" /\ manifest.phase \in Phase /\ prior \in 0 .. 6
  BY DEF Graph, TypeOK, Record
<1>2. /\ UNCHANGED <<db, manifest, preserved, lost, opt, prior, keep, ses, present,
                     fed, restored, outcome, flaw, faults>>
      /\ pc' = IF opt.dry THEN "dry_end"
               ELSE IF prior <= DEFINED THEN "write_graph" ELSE "guard"
  BY DEF Graph
<1>3. ~(Resuming /\ mem.hasGraph) =>
        /\ ses.con \subseteq Con => ses.con \ Index = ses.con
        /\ ~lost => ses.con = Con
        /\ ~opt.dry => Staged(ses.con) /\ db.con \subseteq ses.con
  <2>1. ses.con \subseteq Con => ses.con \ Index = ses.con
    BY ConstantAssumption DEF Con
  <2>2. CASE ~Resuming
    BY <1>1, <2>1, <2>2 DEF Reading, Working
  <2>3. CASE Resuming /\ ~mem.hasGraph
    BY <1>1, <2>1, <2>3 DEF Reading, Working, Sound, Resuming
  <2> QED
    BY <2>1, <2>2, <2>3
<1>4. /\ mem' \in Record /\ mem'.hasGraph /\ mem'.exists = mem.exists
      /\ mem'.strip = mem.strip
      /\ mem'.graph = IF Resuming /\ mem.hasGraph THEN mem.graph
                      ELSE ses.con \ Index
      /\ mem'.violated = mem.violated /\ mem'.withheld = mem.withheld
  <2>1. CASE Resuming /\ mem.hasGraph
    BY <2>1 DEF Graph, TypeOK
  <2>2. CASE ~(Resuming /\ mem.hasGraph)
    <3>1. mem' = [mem EXCEPT !.hasGraph = TRUE, !.nodes = ses.cls,
                             !.graph = ses.con \ Index, !.plan = TRUE]
      BY <2>2 DEF Graph
    <3>2. ses.cls \subseteq Class /\ ses.con \ Index \subseteq Con
      BY DEF TypeOK, Database
    <3> QED
      BY <2>2, <3>1, <3>2 DEF TypeOK, Record
  <2> QED
    BY <2>1, <2>2
<1>5. /\ ~opt.dry => ses = db \/ (lost /\ ~Resuming)
      /\ Resuming => ses = db
  BY <1>1 DEF Working, Reading
<1>6. /\ mem'.pending = mem.pending /\ mem'.failedIdx = mem.failedIdx
      /\ mem'.held = mem.held
  BY DEF Graph, TypeOK, Record
<1>7. ~opt.dry => Sound(manifest.phase, mem', db) /\ (~Resuming =>
                     mem'.graph = ses.con)
  <2>1. CASE Resuming /\ mem.hasGraph
    BY <1>1, <1>4, <1>6, <2>1 DEF Reading, Sound, Resuming
  <2>2. CASE Resuming /\ ~mem.hasGraph /\ ~opt.dry
    <3>1. manifest.phase = DEFINED /\ mem = manifest /\ ses = db
      BY <1>1, <1>5, <2>2 DEF Reading, Sound, Resuming
    <3>2. mem'.graph = db.con
      BY <1>3, <1>4, <2>2, <3>1 DEF Con
    <3> QED
      BY <1>3, <1>4, <2>2, <3>1, <3>2 DEF Sound
  <2>3. CASE ~Resuming /\ ~opt.dry
    <3>1. manifest.phase = DEFINED
      BY <1>1, <2>3 DEF Reading
    <3>2. mem'.graph = ses.con
      BY <1>3, <1>4, <2>3 DEF Con
    <3> QED
      BY <1>3, <1>4, <1>5, <2>3, <3>1, <3>2 DEF Sound
  <2> QED
    BY <2>1, <2>2, <2>3
<1>8. TypeOK'
  BY <1>1, <1>2, <1>4, EmptyTypes DEF TypeOK
<1>9. Sound(manifest.phase, manifest, db)'
  BY <1>2 DEF Sound
<1>10. PhaseOfStep' /\ Reading' /\ Definition' /\ Entering'
  BY <1>1, <1>2, <1>4, <1>5, <1>7 DEF PhaseOfStep, Reading, Definition,
     Entering, Resuming
<1>11. pc' = "guard" => manifest.hasGraph /\ mem' = manifest
  BY <1>1, <1>2 DEF Graph, Reading, Sound, Resuming
<1>12. Working'
  <2>1. (pc \in AfterGraph => Sound(manifest.phase, mem, db))'
    BY <1>1, <1>2, <1>7 DEF Sound, Reading
  <2> QED
    BY <1>1, <1>2, <1>4, <1>5, <1>11, <2>1 DEF Working, Reading, Resuming
<1>13. Finished'
  BY <1>1, <1>2, <1>4, <1>5, <1>7 DEF Finished, Unresolved, Reading, Resuming
<1> QED
  BY <1>8, <1>9, <1>10, <1>12, <1>13

(* The end of a dry run.                                                   *)
LEMMA DryEndIInv ==
  ASSUME IInv, DryEnd
  PROVE  IInv'
<1>1. faults' \in 0 .. MaxFaults
  BY DEF DryEnd, NoFault, IInv, TypeOK
<1>2. "dry" \in Outcomes
  BY DEF Outcomes
<1> QED
  BY <1>1, <1>2, ExitIInv DEF DryEnd

(* The first rewrite of DEFINED records the graph.                         *)
LEMMA WriteGraphIInv ==
  ASSUME IInv, WriteGraph
  PROVE  IInv'
<1> USE DEF proc, Goto, NoFault, IInv
<1>1. /\ pc = "write_graph" /\ manifest.phase = DEFINED
      /\ mem.hasGraph /\ Sound(DEFINED, mem, db)
      /\ prior \in {DISCOVERED, DEFINED}
  BY DEF WriteGraph, Write, PhaseOfStep, Working
<1>2. mem \in Record
  BY DEF TypeOK
<1>3. manifest' = [Reached(DEFINED) EXCEPT !.plan = FALSE]
  BY DEF WriteGraph, Write
<1>4. /\ manifest' \in Record /\ manifest'.phase = DEFINED
      /\ manifest'.hasGraph /\ manifest'.exists = mem.exists
      /\ manifest'.graph = mem.graph
      /\ manifest'.violated = mem.violated /\ manifest'.withheld = mem.withheld
  <2>1. /\ Reached(DEFINED) \in Record /\ Reached(DEFINED).phase = DEFINED
        /\ Reached(DEFINED).exists = mem.exists
        /\ Reached(DEFINED).hasGraph = mem.hasGraph
        /\ Reached(DEFINED).graph = mem.graph
        /\ Reached(DEFINED).violated = mem.violated
        /\ Reached(DEFINED).withheld = mem.withheld
    BY <1>2 DEF Reached, Record
  <2> QED
    BY <1>1, <1>3, <2>1 DEF Record
<1>5. /\ UNCHANGED <<db, preserved, lost, opt, prior, keep, ses, mem, present, fed,
                     restored, outcome, flaw, faults>>
      /\ pc' = "write_plan"
  BY DEF WriteGraph, Write
<1>6. TypeOK'
  BY <1>1, <1>4, <1>5, EmptyTypes DEF TypeOK
<1>7. Sound(manifest.phase, manifest, db)'
  BY <1>1, <1>4, <1>5 DEF Sound
<1>8. PhaseOfStep' /\ Reading' /\ Definition' /\ Entering'
  BY <1>1, <1>4, <1>5 DEF PhaseOfStep, Reading, Definition, Entering, Resuming
<1>9. Working'
  <2>1. Sound(manifest.phase, mem, db)'
    BY <1>1, <1>4, <1>5 DEF Sound
  <2> QED
    BY <1>1, <1>4, <1>5, <2>1 DEF Working, Resuming
<1>10. Finished'
  BY <1>1, <1>4, <1>5 DEF Finished, Unresolved, Resuming
<1> QED
  BY <1>6, <1>7, <1>8, <1>9, <1>10

(* The second rewrite of DEFINED records the plan.                         *)
LEMMA WritePlanIInv ==
  ASSUME IInv, WritePlan
  PROVE  IInv'
<1> USE DEF proc, Goto, NoFault, IInv
<1>1. /\ pc = "write_plan" /\ manifest.phase = DEFINED
      /\ mem.hasGraph /\ Sound(DEFINED, mem, db)
      /\ mem \in Record
      /\ prior \in {DISCOVERED, DEFINED}
  BY DEF WritePlan, Write, PhaseOfStep, Working, TypeOK
<1>2. /\ manifest' = Reached(DEFINED)
      /\ UNCHANGED <<db, preserved, lost, opt, prior, keep, ses, mem, present, fed,
                     restored, outcome, flaw, faults>>
      /\ pc' = IF Resuming THEN "guard" ELSE "strip"
  BY DEF WritePlan, Write
<1>3. /\ manifest' \in Record /\ manifest'.phase = DEFINED
      /\ manifest'.hasGraph /\ manifest'.exists = mem.exists
      /\ manifest'.graph = mem.graph
      /\ manifest'.strip = mem.strip
      /\ manifest'.pending = mem.pending /\ manifest'.failedIdx = mem.failedIdx
      /\ manifest'.held = mem.held /\ manifest'.violated = mem.violated
      /\ manifest'.withheld = mem.withheld
      /\ manifest'.statsFail = mem.statsFail
      /\ manifest'.trigFail = mem.trigFail
  BY <1>1, <1>2 DEF Reached, Record
<1>4. TypeOK'
  BY <1>1, <1>2, <1>3, EmptyTypes DEF TypeOK
<1>5. Sound(manifest.phase, manifest, db)'
  BY <1>1, <1>2, <1>3 DEF Sound
<1>6. PhaseOfStep' /\ Reading' /\ Definition' /\ Entering'
  <2>1. PhaseOfStep' /\ Definition'
    BY <1>1, <1>2, <1>3 DEF PhaseOfStep, Definition
  <2>2. Reading'
    <3>1. /\ pc' \in {"guard", "strip"} /\ ~opt.dry
          /\ pc' = "guard" => Resuming /\ prior = DEFINED
      BY <1>1, <1>2 DEF Reading, Resuming
    <3> QED
      BY <1>1, <1>2, <1>3, <3>1 DEF Reading, Resuming
  <2>3. Entering'
    BY <1>1, <1>2, <1>3 DEF Entering, Resuming
  <2> QED
    BY <2>1, <2>2, <2>3
<1>7. Working'
  <2>1. Sound(manifest.phase, mem, db)'
    BY <1>1, <1>2, <1>3 DEF Sound
  <2> QED
    BY <1>1, <1>2, <1>3, <2>1 DEF Working, Resuming
<1>8. Finished'
  BY <1>1, <1>2, <1>3 DEF Finished, Unresolved, Resuming
<1> QED
  BY <1>4, <1>5, <1>6, <1>7, <1>8

(* A target whose record is sound matches it, so a resume is let through,  *)
(* unless the record names classes of a definition that was lost.          *)
LEMMA GuardIInv ==
  ASSUME IInv, Guard
  PROVE  IInv'
<1> USE DEF Goto, NoFault
<1>1. /\ pc = "guard"
      /\ prior = manifest.phase
      /\ prior \in DEFINED .. STATS_UPDATED
      /\ Sound(prior, mem, db)
      /\ mem.nodes \subseteq Class
      /\ UNCHANGED <<db, file, faults>>
  BY DEF Guard, IInv, Reading, Working, Resuming, TypeOK, Record
<1>2. TargetMatches \/ lost
  BY <1>1 DEF Sound, TargetMatches
<1>3. CASE TargetMatches
  <2> USE DEF file, IInv
  <2>1. /\ UNCHANGED <<db, manifest, preserved, lost, opt, prior, keep, ses,
                       mem, fed, restored, outcome, flaw, faults>>
        /\ present' = db.con
        /\ pc' = Entry(prior)
    BY <1>3 DEF Guard
  <2>2. /\ pc' \in {"strip", "truncate", "rebuild", "commit_keys", "stats",
                     "triggers"}
        /\ pc' = "strip" => prior = DEFINED
        /\ pc' = "truncate" => prior = STRIPPED
        /\ pc' = "rebuild" => prior = LOADED
        /\ pc' = "commit_keys" => prior = REBUILT
        /\ pc' = "stats" => prior = FK_DEFINED
        /\ pc' = "triggers" => prior = STATS_UPDATED
    BY <1>1, <2>1 DEF Entry
  <2>3. TypeOK'
    BY <1>1, <2>1, <2>2 DEF TypeOK, Database
  <2>4. Sound(manifest.phase, manifest, db)'
    BY <1>1, <2>1, <2>2 DEF Sound
  <2>5. PhaseOfStep' /\ Reading' /\ Definition' /\ Entering'
    BY <1>1, <2>1, <2>2 DEF PhaseOfStep, Reading, Definition, Entering,
       Resuming
  <2>6. Working'
    <3>1. Resuming
      BY <1>1 DEF Reading
    <3> QED
      BY <1>1, <2>1, <2>2, <3>1 DEF Working, Sound
  <2>7. Finished'
    BY <1>1, <2>1, <2>2 DEF Finished, Unresolved, Resuming
  <2> QED
    BY <2>3, <2>4, <2>5, <2>6, <2>7
<1>4. CASE lost /\ Exit("mismatch")
  <2>1. faults' \in 0 .. MaxFaults /\ "mismatch" \in Outcomes
    BY <1>1 DEF IInv, TypeOK, Outcomes
  <2> QED
    BY <1>1, <1>4, <2>1, ExitIInv
<1> QED
  BY <1>2, <1>3, <1>4 DEF Guard

(* A commit at a phase boundary makes the transaction durable: what it     *)
(* holds is a state the record before it can resume from (Sound of the old *)
(* phase) and the state the next record will claim.                        *)
LEMMA CommitIInv ==
  ASSUME IInv, NEW from, NEW to, CommitAt(from, to),
         <<from, to>> \in {<<"commit_strip", "write_stripped">>,
                            <<"commit_truncate", "commit_bare">>,
                            <<"commit_bare", "load">>,
                            <<"commit_load", "write_loaded">>,
                            <<"commit_rebuild", "write_rebuilt">>,
                            <<"commit_keys", "fkdefine">>,
                            <<"commit_fk", "write_fk">>,
                            <<"commit_stats", "write_stats">>,
                            <<"commit_triggers", "verify">>}
  PROVE  IInv'
<1> USE DEF IInv
<1>1. /\ pc = from /\ db' = ses /\ pc' = to
      /\ UNCHANGED <<manifest, preserved, lost, opt, prior, keep, ses, mem, present,
                     fed, restored, outcome, flaw, faults>>
  BY DEF CommitAt, file, proc, Goto, NoFault
<1>2. manifest.phase \in Phase
  BY DEF TypeOK, Record
<1>3. TypeOK'
  BY <1>1, <1>2 DEF TypeOK
<1>4. Sound(manifest.phase, manifest, ses)
  <2>1. CASE pc \in Committing \cup {"commit_truncate"}
    BY <2>1 DEF Working
  <2>2. CASE pc \notin Committing \cup {"commit_truncate"}
    BY <1>1, <2>2 DEF Working
  <2> QED
    BY <2>1, <2>2
<1>5. Sound(manifest.phase, manifest, db)'
  BY <1>1, <1>4 DEF Sound
<1>6. /\ pc \notin Committing \cup {"commit_truncate"} => ses = db
      /\ pc \in Committing => Sound(manifest.phase + 1, mem, ses)
      /\ Sound(manifest.phase, mem, db)
      /\ pc = "commit_truncate" => ses.rows = NoRows
      /\ pc = "commit_load" => db.rows = Batches
  BY <1>1 DEF Working
<1>7. pc \in {"commit_bare", "commit_truncate"} => db'.rows = NoRows
  BY <1>1, <1>6 DEF Working
<1>8. PhaseOfStep' /\ Reading' /\ Definition'
  BY <1>1, <1>2 DEF PhaseOfStep, Reading, Definition, Resuming
<1>9. Entering'
  BY <1>1, <1>2, <1>6 DEF PhaseOfStep, Entering, Resuming
<1>10. Sound(manifest.phase, mem, ses)
  BY <1>1, <1>2, <1>4, <1>6 DEF Sound, PhaseOfStep
<1>11. Working'
  <2>1. Sound(manifest.phase, mem, db)'
    BY <1>1, <1>10 DEF Sound
  <2>2. (pc \in Recording => Sound(manifest.phase + 1, mem, ses))'
    <3>1. CASE pc \in Committing
      BY <1>1, <1>6, <3>1 DEF Sound
    <3>2. CASE pc = "commit_load"
      BY <1>1, <1>6, <3>2 DEF Sound, PhaseOfStep, Working
    <3> QED
      BY <1>1, <3>1, <3>2
  <2> QED
    BY <1>1, <1>6, <1>7, <2>1, <2>2 DEF Working
<1>12. Finished'
  BY <1>1, <1>2 DEF Finished, Unresolved, Resuming
<1> QED
  BY <1>3, <1>5, <1>8, <1>9, <1>11, <1>12

(* Under the guard strip() drops exactly what is left to drop.             *)
LEMMA StripIInv ==
  ASSUME IInv, Strip
  PROVE  IInv'
<1> DEFINE todo == IF prior = DEFINED THEN mem.graph \cap present
                                      ELSE mem.graph
<1> USE DEF NoFault, file, IInv
<1>1. /\ pc = "strip" /\ manifest.phase = DEFINED /\ prior \in 0 .. 6
      /\ Sound(DEFINED, mem, db) /\ Sound(DEFINED, manifest, db)
      /\ mem.graph = manifest.graph /\ mem.hasGraph /\ manifest.hasGraph
      /\ prior \in {DISCOVERED, DEFINED} /\ ~opt.dry
  BY DEF Strip, PhaseOfStep, Reading, Working, TypeOK
<1>2. /\ todo \subseteq ses.con
      /\ ses.con \ todo = {}
  <2>1. CASE prior = DEFINED
    BY <1>1, <2>1 DEF Entering, Working, Resuming, Sound
  <2>2. CASE prior # DEFINED
    BY <1>1, <2>2 DEF Entering
  <2> QED
    BY <2>1, <2>2
<1>3. PhaseDone([ses EXCEPT !.con = @ \ todo],
                [mem EXCEPT !.strip = mem.graph], "commit_strip")
      /\ faults' = faults
  BY <1>2 DEF Strip
<1>4. /\ ses' \in Database
      /\ ses'.con = {}
      /\ ses'.cls = ses.cls
      /\ ses'.rows = NoRows
      /\ ses'.trg = {}
  <2>1. ses' = [ses EXCEPT !.con = ses.con \ todo]
    BY <1>3 DEF PhaseDone
  <2>2. ses.rows = NoRows /\ ses.trg = {}
    BY <1>1 DEF Working, Resuming, Sound
  <2> HIDE DEF todo
  <2> QED
    BY <1>2, <2>1, <2>2 DEF TypeOK, Database
<1>5. /\ mem'.hasGraph = mem.hasGraph
      /\ mem'.exists = mem.exists
      /\ mem'.graph = mem.graph
      /\ mem'.strip = mem.graph
   /\ mem' \in Record
   /\ mem'.violated = mem.violated
   /\ mem'.withheld = mem.withheld
  BY <1>3 DEF PhaseDone, TypeOK, Record
<1> HIDE DEF todo
<1>6. /\ UNCHANGED <<db, file, opt, prior, keep, present, fed, restored, outcome,
                     flaw, faults>>
      /\ pc' = "commit_strip"
  BY <1>3 DEF PhaseDone, Goto
<1>7. TypeOK'
  BY <1>4, <1>5, <1>6 DEF TypeOK
<1>8. Sound(manifest.phase, manifest, db)'
  BY <1>6 DEF Sound
<1>9. PhaseOfStep' /\ Reading' /\ Definition' /\ Entering'
  BY <1>1, <1>5, <1>6 DEF file, PhaseOfStep, Reading, Definition, Entering, Resuming
<1>10. Working'
  <2>0. ~lost => ses.cls = Class
    BY <1>1 DEF Working, Sound
  <2>1. Sound(STRIPPED, mem', ses')
    BY <1>1, <1>4, <1>5, <2>0 DEF Sound
  <2>2. Sound(DEFINED, manifest, ses')
    BY <1>1, <1>4, <1>5, <2>0 DEF Sound
  <2> QED
  BY <1>1, <1>4, <1>5, <1>6, <2>1, <2>2 DEF Working, Sound
<1>11. Finished'
  BY <1>1, <1>4, <1>5, <1>6 DEF Finished, Unresolved, Resuming
<1> QED
  BY <1>7, <1>8, <1>9, <1>10, <1>11

(* The marker STRIPPED is written over bare tables.                        *)
LEMMA WriteStrippedIInv ==
  ASSUME IInv, WriteStripped
  PROVE  IInv'
<1> USE DEF proc, Goto, NoFault, IInv
<1>1. /\ pc = "write_stripped" /\ manifest.phase = DEFINED
      /\ ses = db /\ mem.hasGraph /\ Sound(STRIPPED, mem, db)
      /\ mem \in Record
      /\ prior \in {DISCOVERED, DEFINED}
      /\ db.rows = NoRows
  BY DEF WriteStripped, Write, PhaseOfStep, Working, TypeOK, Sound
<1>2. /\ manifest' = Reached(STRIPPED)
      /\ UNCHANGED <<db, preserved, lost, opt, prior, keep, ses, mem, present, fed,
                     restored, outcome, flaw, faults>>
      /\ pc' = "commit_bare"
  BY DEF WriteStripped, Write
<1>3. /\ manifest' \in Record /\ manifest'.phase = STRIPPED
      /\ manifest'.hasGraph /\ manifest'.exists = mem.exists
      /\ manifest'.graph = mem.graph
      /\ manifest'.strip = mem.strip
      /\ manifest'.pending = mem.pending /\ manifest'.failedIdx = mem.failedIdx
      /\ manifest'.held = mem.held /\ manifest'.violated = mem.violated
      /\ manifest'.withheld = mem.withheld
      /\ manifest'.statsFail = mem.statsFail
      /\ manifest'.trigFail = mem.trigFail
  BY <1>1, <1>2 DEF Reached, Record
<1>4. TypeOK'
  BY <1>1, <1>2, <1>3, EmptyTypes DEF TypeOK
<1>5. Sound(manifest.phase, manifest, db)'
  BY <1>1, <1>2, <1>3 DEF Sound
<1>6. PhaseOfStep' /\ Reading' /\ Definition' /\ Entering'
  <2>1. PhaseOfStep' /\ Definition'
    BY <1>1, <1>2, <1>3 DEF PhaseOfStep, Definition
  <2>2. Reading'
    BY <1>1, <1>2, <1>3 DEF Reading, Resuming
  <2>3. Entering'
    BY <1>1, <1>2, <1>3 DEF Entering, Resuming
  <2> QED
    BY <2>1, <2>2, <2>3
<1>7. Working'
  BY <1>1, <1>2, <1>3 DEF Working, Sound
<1>8. Finished'
  BY <1>1, <1>2, <1>3 DEF Finished, Unresolved, Resuming
<1> QED
  BY <1>4, <1>5, <1>6, <1>7, <1>8

(* truncate_classes() only empties tables.                                 *)
LEMMA TruncateIInv ==
  ASSUME IInv, Truncate
  PROVE  IInv'
<1> USE DEF IInv
<1>1. /\ pc = "truncate" /\ manifest.phase = STRIPPED /\ ses = db
      /\ Sound(STRIPPED, mem, db)
  BY DEF Truncate, PhaseOfStep, Working
<1>2. /\ UNCHANGED <<db, manifest, preserved, lost, opt, prior, keep, mem, present,
                     fed, restored, outcome, flaw, faults>>
      /\ pc' = "commit_truncate"
  BY DEF Truncate, PhaseDone, file, Goto, NoFault
<1>3. /\ ses' \in Database /\ ses'.rows = NoRows /\ ses'.cls = ses.cls
      /\ ses'.con = ses.con /\ ses'.trg = ses.trg
  BY EmptyTypes DEF Truncate, PhaseDone, TypeOK, Database
<1>4. TypeOK'
  BY <1>1, <1>2, <1>3 DEF TypeOK
<1>5. Sound(manifest.phase, manifest, db)'
  BY <1>1, <1>2, <1>3 DEF Sound
<1>6. PhaseOfStep' /\ Reading' /\ Definition' /\ Entering'
  <2>1. PhaseOfStep' /\ Definition'
    BY <1>1, <1>2, <1>3 DEF PhaseOfStep, Definition
  <2>2. Reading'
    BY <1>1, <1>2, <1>3 DEF Reading, Resuming
  <2>3. Entering'
    BY <1>1, <1>2, <1>3 DEF Entering, Resuming
  <2> QED
    BY <2>1, <2>2, <2>3
<1>7. Working'
  BY <1>1, <1>2, <1>3 DEF Working, Sound
<1>8. Finished'
  BY <1>1, <1>2, <1>3 DEF Finished, Unresolved, Resuming
<1> QED
  BY <1>4, <1>5, <1>6, <1>7, <1>8

(* A commit of a loader child adds the rows it counts.                     *)
LEMMA LoadBatchIInv ==
  ASSUME IInv, NEW c \in Class, LoadBatch(c)
  PROVE  IInv'
<1> USE DEF IInv
<1>1. /\ pc = "load" /\ manifest.phase = STRIPPED /\ ses = db /\ db.rows = fed
      /\ Sound(STRIPPED, mem, db) /\ db.cls # {}
  BY DEF LoadBatch, PhaseOfStep, Working
<1>2. /\ UNCHANGED <<manifest, preserved, lost, opt, prior, keep, mem, present,
                     restored, outcome, flaw, faults, pc>>
      /\ fed' = [fed EXCEPT ![c] = @ + 1]
      /\ db' = [db EXCEPT !.rows[c] = @ + 1]
  BY DEF LoadBatch, file, NoFault
<1>3. fed' \in [Class -> Nat]
  BY <1>2 DEF TypeOK
<1>4. /\ db' \in Database /\ db'.rows = fed' /\ db'.cls = db.cls
      /\ db'.con = db.con /\ db'.trg = db.trg
  BY <1>1, <1>2, <1>3 DEF TypeOK, Database
<1>5. ses' = db'
  BY <1>1 DEF LoadBatch
<1> HIDE DEF LoadBatch
<1>6. /\ UNCHANGED <<manifest, preserved, lost, opt, prior, keep, mem, present,
                     restored, outcome, flaw, faults, pc>>
  BY <1>2
<1>7. TypeOK'
  BY <1>1, <1>3, <1>4, <1>5, <1>6 DEF TypeOK
<1>8. Sound(manifest.phase, manifest, db)'
  BY <1>1, <1>3, <1>4, <1>5, <1>6 DEF Sound
<1>9. PhaseOfStep' /\ Reading' /\ Definition' /\ Entering'
  BY <1>1, <1>3, <1>4, <1>5, <1>6 DEF PhaseOfStep, Reading, Definition,
     Entering, Resuming
<1>10. Working'
  BY <1>1, <1>3, <1>4, <1>5, <1>6 DEF Working, Sound
<1>11. Finished'
  BY <1>1, <1>3, <1>4, <1>5, <1>6 DEF Finished, Unresolved, Resuming
<1> QED
  BY <1>7, <1>8, <1>9, <1>10, <1>11

(* When every child is done each row is there once.                        *)
LEMMA LoadEndIInv ==
  ASSUME IInv, LoadEnd
  PROVE  IInv'
<1> USE DEF IInv
<1>1. /\ pc = "load" /\ db.rows = Batches /\ db.cls = Class
  BY DEF LoadEnd, Working, TypeOK, Database
<1>2. /\ UNCHANGED <<db, manifest, preserved, lost, opt, prior, keep, ses, mem,
                     present, fed, restored, outcome, flaw, faults>>
      /\ pc' = "commit_load"
  BY DEF LoadEnd, file, proc, Goto, NoFault
<1>3. TypeOK'
  BY <1>1, <1>2 DEF TypeOK
<1>4. Sound(manifest.phase, manifest, db)'
  BY <1>1, <1>2 DEF Sound
<1>5. PhaseOfStep' /\ Reading' /\ Definition' /\ Entering'
  BY <1>1, <1>2 DEF PhaseOfStep, Reading, Definition, Entering, Resuming
<1>6. Working'
  BY <1>1, <1>2 DEF Working, Sound
<1>7. Finished'
  BY <1>1, <1>2 DEF Finished, Unresolved, Resuming
<1> QED
  BY <1>3, <1>4, <1>5, <1>6, <1>7

(* A loader that misses its class ends the run.                            *)
LEMMA LoadFailsIInv ==
  ASSUME IInv, LoadFails
  PROVE  IInv'
<1>1. faults' \in 0 .. MaxFaults
  BY DEF LoadFails, NoFault, IInv, TypeOK
<1>2. "error" \in Outcomes
  BY DEF Outcomes
<1> QED
  BY <1>1, <1>2, ExitIInv DEF LoadFails

(* The marker LOADED is written over loaded tables.                        *)
LEMMA WriteLoadedIInv ==
  ASSUME IInv, WriteLoaded
  PROVE  IInv'
<1> USE DEF proc, Goto, NoFault, IInv
<1>1. /\ pc = "write_loaded" /\ manifest.phase = STRIPPED
      /\ ses = db /\ mem.hasGraph /\ Sound(LOADED, mem, db)
      /\ mem \in Record /\ db.con = {} /\ prior \in DISCOVERED .. STRIPPED
  BY DEF WriteLoaded, Write, PhaseOfStep, Working, TypeOK, Sound, Entering
<1>2. /\ manifest' = Reached(LOADED)
      /\ UNCHANGED <<db, preserved, lost, opt, prior, keep, ses, mem, present, fed,
                     restored, outcome, flaw, faults>>
      /\ pc' = "rebuild"
  BY DEF WriteLoaded, Write
<1>3. /\ manifest' \in Record /\ manifest'.phase = LOADED
      /\ manifest'.hasGraph /\ manifest'.exists = mem.exists
      /\ manifest'.graph = mem.graph
      /\ manifest'.strip = mem.strip
      /\ manifest'.pending = mem.pending /\ manifest'.failedIdx = mem.failedIdx
      /\ manifest'.held = mem.held /\ manifest'.violated = mem.violated
      /\ manifest'.withheld = mem.withheld
      /\ manifest'.statsFail = mem.statsFail
      /\ manifest'.trigFail = mem.trigFail
  BY <1>1, <1>2 DEF Reached, Record
<1>4. TypeOK'
  BY <1>1, <1>2, <1>3, EmptyTypes DEF TypeOK
<1>5. Sound(manifest.phase, manifest, db)'
  BY <1>1, <1>2, <1>3 DEF Sound
<1>6. PhaseOfStep' /\ Reading' /\ Definition' /\ Entering'
  <2>1. PhaseOfStep' /\ Definition'
    BY <1>1, <1>2, <1>3 DEF PhaseOfStep, Definition
  <2>2. Reading'
    BY <1>1, <1>2, <1>3 DEF Reading, Resuming
  <2>3. Entering'
    BY <1>1, <1>2, <1>3 DEF Entering, Resuming
  <2> QED
    BY <2>1, <2>2, <2>3
<1>7. Working'
  BY <1>1, <1>2, <1>3 DEF Working, Sound
<1>8. Finished'
  BY <1>1, <1>2, <1>3 DEF Finished, Unresolved, Resuming
<1> QED
  BY <1>4, <1>5, <1>6, <1>7, <1>8

(* Whatever an interrupted rebuild had built, its re-run ends with a key   *)
(* pending exactly when the catalog lacks it.                              *)
LEMMA RebuildIInv ==
  ASSUME IInv, NEW bad \in SUBSET (Key \cup Index), Rebuild(bad)
  PROVE  IInv'
<1> DEFINE keys    == (mem.strip \cap Key) \ Skip(LOADED)
           idxs    == Index \ Skip(LOADED)
           refused == flaw \cup ses.con \cup bad
           pending == keys \cap refused
           con     == ses.con \cup ((keys \cup idxs) \ refused)
<1> USE DEF IInv
<1>1. /\ pc = "rebuild" /\ manifest.phase = LOADED /\ ses = db
      /\ Sound(LOADED, mem, db) /\ Sound(LOADED, manifest, db)
      /\ mem.strip = mem.graph /\ db.con \cap Fk = {} /\ prior <= LOADED
      /\ manifest.graph = mem.graph
  BY DEF Rebuild, PhaseOfStep, Working, Sound, Entering
<1>2. /\ UNCHANGED <<db, manifest, preserved, lost, opt, prior, keep, present, fed,
                     restored, outcome, flaw>>
      /\ pc' = "commit_rebuild"
  BY DEF Rebuild, PhaseDone, file, Goto
<1>3. faults' \in 0 .. MaxFaults
  BY ConstantAssumption DEF Rebuild, Fault, NoFault, TypeOK
<1>4. ses' = [ses EXCEPT !.con = con]
  BY DEF Rebuild, PhaseDone
<1>5. mem' = [mem EXCEPT !.pending = pending, !.failedIdx = idxs \cap refused,
                         !.held = Held(Edges, pending)]
  BY DEF Rebuild, PhaseDone
<1>6. IF prior = LOADED THEN Skip(LOADED) = db.con
                         ELSE Skip(LOADED) = {} /\ db.con = {}
  BY <1>1 DEF Skip, Entering
<1>7. /\ pending = (Key \cap mem.graph) \ con
      /\ idxs \cap refused = Index \ con
      /\ con \cap Fk = {}
      /\ con \subseteq Con \cup Index
  BY <1>1, <1>6, ConstantAssumption DEF Con, TypeOK, Database
<1>8. /\ Held(Edges, pending) \subseteq Edge /\ pending \subseteq Key
      /\ idxs \cap refused \subseteq Index
      /\ db.cls # {}
  <2>1. Held(Edges, pending) \subseteq Edge
    BY DEF Held, Edges
  <2>2. db.cls # {}
    BY <1>1, ConstantAssumption DEF Sound
  <2> QED
    BY <2>1, <2>2
<1> HIDE DEF con, pending, refused, idxs, keys
<1>9. /\ ses' \in Database /\ ses'.con = con /\ ses'.cls = db.cls
      /\ ses'.rows = db.rows /\ ses'.trg = db.trg
  BY <1>1, <1>4, <1>7 DEF TypeOK, Database
<1>10. /\ mem' \in Record /\ mem'.hasGraph = mem.hasGraph
       /\ mem'.exists = mem.exists
       /\ mem'.graph = mem.graph /\ mem'.strip = mem.strip
       /\ mem'.pending = pending /\ mem'.failedIdx = idxs \cap refused
       /\ mem'.held = Held(Edges, pending)
       /\ mem'.violated = mem.violated /\ mem'.withheld = mem.withheld
  BY <1>5, <1>8 DEF TypeOK, Record
<1>11. Sound(REBUILT, mem', ses')
  BY <1>1, <1>7, <1>8, <1>9, <1>10 DEF Sound, Edges
<1>12. Sound(LOADED, manifest, ses')
  BY <1>1, <1>7, <1>8, <1>9 DEF Sound
<1>13. TypeOK'
  BY <1>1, <1>2, <1>3, <1>7, <1>9, <1>10 DEF TypeOK
<1>14. Sound(manifest.phase, manifest, db)'
  BY <1>1, <1>2, <1>3, <1>7, <1>9, <1>10 DEF Sound
<1>15. PhaseOfStep' /\ Reading' /\ Definition' /\ Entering'
  BY <1>1, <1>2, <1>3, <1>7, <1>9, <1>10 DEF PhaseOfStep, Reading, Definition,
     Entering, Resuming
<1>16. Working'
  <2>1. (Sound(manifest.phase, mem, db))'
    BY <1>1, <1>2, <1>10 DEF Sound
  <2>2. (Sound(manifest.phase + 1, mem, ses))'
    BY <1>1, <1>2, <1>11 DEF Sound
  <2>3. (Sound(manifest.phase, manifest, ses))'
    BY <1>1, <1>2, <1>12 DEF Sound
  <2> QED
    BY <1>1, <1>2, <1>10, <2>1, <2>2, <2>3 DEF Working
<1>17. Finished'
  BY <1>1, <1>2, <1>3, <1>7, <1>9, <1>10 DEF Finished, Unresolved, Resuming
<1> QED
  BY <1>13, <1>14, <1>15, <1>16, <1>17

(* The marker REBUILT is written over committed keys.                      *)
LEMMA WriteRebuiltIInv ==
  ASSUME IInv, WriteRebuilt
  PROVE  IInv'
<1> USE DEF proc, Goto, NoFault, IInv
<1>1. /\ pc = "write_rebuilt" /\ manifest.phase = LOADED
      /\ ses = db /\ mem.hasGraph /\ Sound(REBUILT, mem, db)
      /\ mem \in Record
  BY DEF WriteRebuilt, Write, PhaseOfStep, Working, TypeOK
<1>2. /\ manifest' = Reached(REBUILT)
      /\ UNCHANGED <<db, preserved, lost, opt, prior, keep, ses, mem, present, fed,
                     restored, outcome, flaw, faults>>
      /\ pc' = "commit_keys"
  BY DEF WriteRebuilt, Write
<1>3. /\ manifest' \in Record /\ manifest'.phase = REBUILT
      /\ manifest'.hasGraph /\ manifest'.exists = mem.exists
      /\ manifest'.graph = mem.graph
      /\ manifest'.strip = mem.strip
      /\ manifest'.pending = mem.pending /\ manifest'.failedIdx = mem.failedIdx
      /\ manifest'.held = mem.held /\ manifest'.violated = mem.violated
      /\ manifest'.withheld = mem.withheld
      /\ manifest'.statsFail = mem.statsFail
      /\ manifest'.trigFail = mem.trigFail
  BY <1>1, <1>2 DEF Reached, Record
<1>4. TypeOK'
  BY <1>1, <1>2, <1>3, EmptyTypes DEF TypeOK
<1>5. Sound(manifest.phase, manifest, db)'
  BY <1>1, <1>2, <1>3 DEF Sound
<1>6. PhaseOfStep' /\ Reading' /\ Definition' /\ Entering'
  <2>1. PhaseOfStep' /\ Definition'
    BY <1>1, <1>2, <1>3 DEF PhaseOfStep, Definition
  <2>2. Reading'
    BY <1>1, <1>2, <1>3 DEF Reading, Resuming
  <2>3. Entering'
    BY <1>1, <1>2, <1>3 DEF Entering, Resuming
  <2> QED
    BY <2>1, <2>2, <2>3
<1>7. Working'
  BY <1>1, <1>2, <1>3 DEF Working, Sound
<1>8. Finished'
  BY <1>1, <1>2, <1>3 DEF Finished, Unresolved, Resuming
<1> QED
  BY <1>4, <1>5, <1>6, <1>7, <1>8

(* No FK that is attempted exists already, and with OwnKeys none lacks its *)
(* parent key, so no statement aborts the run; an FK neither added nor     *)
(* found in the catalog is withheld.                                       *)
LEMMA DefineForeignKeysIInv ==
  ASSUME IInv, DefineForeignKeys
  PROVE  IInv'
<1> DEFINE candidates   == Edges \ mem.held
           rejected     == (candidates \ Skip(REBUILT)) \cap flaw
           attempted    == {f \in candidates :
                              \/ opt.cont
                              \/ \A g \in rejected : FkPos[g] >= FkPos[f]}
           added        == (attempted \ Skip(REBUILT)) \ flaw
           defined      == added \cup GuardSkipped(attempted)
           con          == ses.con \cup added
<1> USE DEF IInv
<1>1. /\ pc = "fkdefine" /\ manifest.phase = REBUILT /\ ses = db
      /\ Sound(REBUILT, mem, db) /\ Sound(REBUILT, manifest, db)
      /\ manifest.hasGraph /\ mem.hasGraph /\ manifest.graph = mem.graph
  BY DEF DefineForeignKeys, PhaseOfStep, Working, Sound
<1>2. IF prior = REBUILT THEN Skip(REBUILT) = db.con
                          ELSE Skip(REBUILT) = {} /\ db.con \cap Fk = {}
  BY <1>1 DEF Skip, Entering
<1>3. /\ attempted \subseteq candidates
      /\ candidates \subseteq Edges
      /\ candidates \cap mem.held = {}
      /\ Edges \subseteq Edge /\ Edges \subseteq mem.graph
      /\ Edges \subseteq Fk
  BY ConstantAssumption DEF Edges
<1>4. /\ added \cap db.con = {} /\ added \cap flaw = {}
      /\ added \subseteq candidates
      /\ defined \subseteq con
      /\ rejected \cap defined = {}
      /\ rejected \subseteq Edges
      /\ attempted \cap rejected \subseteq Edges \ defined
  <2> HIDE DEF attempted, candidates
  <2> QED
    BY <1>1, <1>2, <1>3 DEF GuardSkipped
<1>5. OwnKeys => \A f \in added : f \notin ses.con /\ ParentPk[f] \in ses.con
  <2> SUFFICES ASSUME OwnKeys, NEW f \in added
               PROVE  f \notin ses.con /\ ParentPk[f] \in ses.con
    OBVIOUS
  <2> HIDE DEF added, candidates
  <2>1. f \in Edges /\ f \notin mem.held /\ f \notin ses.con
    BY <1>1, <1>3, <1>4
  <2>2. mem.pending = (Key \cap mem.graph) \ db.con
        /\ mem.held = Held(Edges, mem.pending)
    BY <1>1 DEF Sound, Edges
  <2>3. ParentPk[f] \in ParentKeys[f] /\ ParentPk[f] \in Key
    BY <1>3, <2>1, ConstantAssumption DEF OwnKeys
  <2>4. mem.graph = Con
    BY <1>1, <1>3, <2>1, ConstantAssumption DEF Sound
  <2> QED
    BY <1>1, <2>1, <2>2, <2>3, <2>4 DEF Held, Con
<1>6. CASE PhaseFails
  <2>1. ~(\A f \in added : f \notin ses.con /\ ParentPk[f] \in ses.con)
    <3>1. \E f \in added : f \in ses.con \/ ParentPk[f] \notin ses.con
      BY <1>1, <1>6 DEF DefineForeignKeys, PhaseDone, PhaseFails, Exit, Goto
    <3> QED
      BY <3>1
  <2>2. ~OwnKeys
    BY <1>5, <2>1
  <2>3. faults' \in 0 .. MaxFaults /\ "stuck" \in Outcomes
    BY <1>6 DEF PhaseFails, NoFault, TypeOK, Outcomes
  <2> QED
    BY <1>1, <1>6, <2>2, <2>3, ExitIInv DEF PhaseFails
<1>7. CASE /\ \A f \in added : f \notin ses.con /\ ParentPk[f] \in ses.con
           /\ PhaseDone([ses EXCEPT !.con = con],
                        [mem EXCEPT !.violated = attempted \cap rejected,
                                    !.withheld = Edges \ defined],
                        "commit_fk")
           /\ faults' = faults
  <2>0. db.cls = {} => added = {}
    <3>1. db.cls = {} => ses.con = {}
      BY <1>1 DEF Sound
    <3> HIDE DEF added
    <3> QED
      BY <1>7, <3>1
  <2> HIDE DEF con, defined, added, attempted, rejected, candidates
  <2>1. /\ UNCHANGED <<db, manifest, preserved, lost, opt, prior, keep,
                       present, fed, restored, outcome, flaw, faults>>
        /\ pc' = "commit_fk"
    BY <1>7 DEF PhaseDone, file, Goto
  <2>2. con = db.con \cup added /\ added \subseteq Fk \cap Edges
    BY <1>1, <1>3, <1>4 DEF con
  <2>3. /\ ses' \in Database /\ ses'.con = con /\ ses'.cls = db.cls
        /\ ses'.rows = db.rows /\ ses'.trg = db.trg
    BY <1>1, <1>7, <2>2 DEF PhaseDone, TypeOK, Database, Con
  <2>4. /\ mem' \in Record /\ mem'.hasGraph = mem.hasGraph
        /\ mem'.exists = mem.exists
        /\ mem'.graph = mem.graph /\ mem'.strip = mem.strip
        /\ mem'.pending = mem.pending /\ mem'.failedIdx = mem.failedIdx
        /\ mem'.held = mem.held
        /\ mem'.violated = attempted \cap rejected
        /\ mem'.withheld = Edges \ defined
    <3>1. attempted \cap rejected \subseteq Edge /\ Edges \ defined \subseteq Edge
      BY <1>3, <1>4
    <3> QED
      BY <1>7, <3>1 DEF PhaseDone, TypeOK, Record
  <2>5. /\ (Key \cap mem.graph) \ con = (Key \cap mem.graph) \ db.con
        /\ Index \ con = Index \ db.con
        /\ con \cap Fk = (db.con \cap Fk) \cup added
        /\ db.cls = {} => con = db.con
    BY <2>0, <2>2, ConstantAssumption
  <2>6. Edges \ (Edges \ defined) \subseteq con
    BY <1>4
  <2>7. manifest.held = mem.held
    <3>1. /\ mem.pending = (Key \cap mem.graph) \ db.con
          /\ mem.held = Held(Edge \cap mem.graph, mem.pending)
      BY <1>1 DEF Sound
    <3>2. /\ manifest.pending = (Key \cap manifest.graph) \ db.con
          /\ manifest.held = Held(Edge \cap manifest.graph, manifest.pending)
      BY <1>1 DEF Sound
    <3> QED
      BY <1>1, <3>1, <3>2
  <2>8. con \cap Fk \subseteq Edges \ (mem.held \cup flaw)
    <3>1. db.con \cap Fk \subseteq Edges \ (mem.held \cup flaw)
      BY <1>1 DEF Sound, Edges
    <3> QED
      BY <1>3, <1>4, <2>5, <3>1
  <2>9. Sound(FK_DEFINED, mem', ses')
    BY <1>1, <2>1, <2>3, <2>4, <2>5, <2>6, <2>8 DEF Sound, Edges
  <2>10. Sound(REBUILT, manifest, ses')
    BY <1>1, <2>3, <2>5, <2>7, <2>8 DEF Sound, Edges
  <2>11. TypeOK'
    BY <1>1, <2>1, <2>3, <2>4 DEF TypeOK
  <2>12. Sound(manifest.phase, manifest, db)'
    BY <2>1 DEF Sound
  <2>13. PhaseOfStep' /\ Reading' /\ Definition' /\ Entering'
    BY <1>1, <2>1, <2>3, <2>4 DEF PhaseOfStep, Reading, Definition, Entering,
       Resuming
  <2>14. Working'
    <3>1. (Sound(manifest.phase, mem, db))'
      BY <1>1, <2>1, <2>4 DEF Sound
    <3>2. (Sound(manifest.phase + 1, mem, ses))'
      BY <1>1, <2>1, <2>9 DEF Sound
    <3>3. (Sound(manifest.phase, manifest, ses))'
      <4>1. manifest.phase = REBUILT /\ manifest' = manifest /\ lost' = lost
            /\ flaw' = flaw
        BY <1>1, <2>1
      <4> HIDE DEF IInv
      <4> QED
        BY <2>10, <4>1, SMTT(40) DEF Sound
    <3> QED
      BY <1>1, <2>1, <2>4, <3>1, <3>2, <3>3 DEF Working
  <2>15. Finished'
    BY <1>1, <1>4, <2>1, <2>4 DEF Finished, Unresolved, Resuming
  <2> QED
    BY <2>11, <2>12, <2>13, <2>14, <2>15
<1> QED
  BY <1>6, <1>7 DEF DefineForeignKeys, NoFault

(* The marker FK_DEFINED is written over committed FKs.                    *)
LEMMA WriteFkDefinedIInv ==
  ASSUME IInv, WriteFkDefined
  PROVE  IInv'
<1> USE DEF proc, Goto, NoFault, IInv
<1>1. /\ pc = "write_fk" /\ manifest.phase = REBUILT
      /\ ses = db /\ mem.hasGraph /\ Sound(FK_DEFINED, mem, db)
      /\ mem \in Record
  BY DEF WriteFkDefined, Write, PhaseOfStep, Working, TypeOK
<1>2. /\ manifest' = Reached(FK_DEFINED)
      /\ UNCHANGED <<db, preserved, lost, opt, prior, keep, ses, mem, present, fed,
                     restored, outcome, flaw, faults>>
      /\ pc' = "stats"
  BY DEF WriteFkDefined, Write
<1>3. /\ manifest' \in Record /\ manifest'.phase = FK_DEFINED
      /\ manifest'.hasGraph /\ manifest'.exists = mem.exists
      /\ manifest'.graph = mem.graph
      /\ manifest'.strip = mem.strip
      /\ manifest'.pending = mem.pending /\ manifest'.failedIdx = mem.failedIdx
      /\ manifest'.held = mem.held /\ manifest'.violated = mem.violated
      /\ manifest'.withheld = mem.withheld
      /\ manifest'.statsFail = mem.statsFail
      /\ manifest'.trigFail = mem.trigFail
  BY <1>1, <1>2 DEF Reached, Record
<1>4. TypeOK'
  BY <1>1, <1>2, <1>3, EmptyTypes DEF TypeOK
<1>5. Sound(manifest.phase, manifest, db)'
  BY <1>1, <1>2, <1>3 DEF Sound
<1>6. PhaseOfStep' /\ Reading' /\ Definition' /\ Entering'
  <2>1. PhaseOfStep' /\ Definition'
    BY <1>1, <1>2, <1>3 DEF PhaseOfStep, Definition
  <2>2. Reading'
    BY <1>1, <1>2, <1>3 DEF Reading, Resuming
  <2>3. Entering'
    BY <1>1, <1>2, <1>3 DEF Entering, Resuming
  <2> QED
    BY <2>1, <2>2, <2>3
<1>7. Working'
  BY <1>1, <1>2, <1>3 DEF Working, Sound
<1>8. Finished'
  BY <1>1, <1>2, <1>3 DEF Finished, Unresolved, Resuming
<1> QED
  BY <1>4, <1>5, <1>6, <1>7, <1>8

(* Statistics change records only.                                         *)
LEMMA StatsIInv ==
  ASSUME IInv, NEW bad \in SUBSET Class, Stats(bad)
  PROVE  IInv'
<1> USE DEF IInv
<1>1. /\ pc = "stats" /\ manifest.phase = FK_DEFINED /\ ses = db
      /\ Sound(FK_DEFINED, mem, db)
  BY DEF Stats, PhaseOfStep, Working
<1>2. /\ UNCHANGED <<db, manifest, preserved, lost, opt, prior, keep, ses, present,
                     fed, restored, outcome, flaw>>
      /\ pc' = "commit_stats"
      /\ mem' = [mem EXCEPT !.statsFail = bad]
  BY DEF Stats, PhaseDone, file, Goto
<1>3. faults' \in 0 .. MaxFaults
  BY ConstantAssumption DEF Stats, Fault, NoFault, TypeOK
<1>4. /\ mem' \in Record /\ mem'.hasGraph = mem.hasGraph
      /\ mem'.exists = mem.exists
      /\ mem'.graph = mem.graph /\ mem'.strip = mem.strip
      /\ mem'.pending = mem.pending /\ mem'.failedIdx = mem.failedIdx
      /\ mem'.held = mem.held /\ mem'.violated = mem.violated
      /\ mem'.withheld = mem.withheld
  BY <1>2 DEF TypeOK, Record
<1>5. UNCHANGED <<db, manifest, preserved, lost, opt, prior, keep, ses, present,
                  fed, restored, outcome, flaw>> /\ pc' = "commit_stats"
  BY <1>2
<1>6. TypeOK'
  BY <1>1, <1>3, <1>4, <1>5 DEF TypeOK
<1>7. Sound(manifest.phase, manifest, db)'
  BY <1>1, <1>3, <1>4, <1>5 DEF Sound
<1>8. PhaseOfStep' /\ Reading' /\ Definition' /\ Entering'
  BY <1>1, <1>3, <1>4, <1>5 DEF PhaseOfStep, Reading, Definition, Entering,
     Resuming
<1>9. Working'
  BY <1>1, <1>3, <1>4, <1>5 DEF Working, Sound
<1>10. Finished'
  BY <1>1, <1>3, <1>4, <1>5 DEF Finished, Unresolved, Resuming
<1> QED
  BY <1>6, <1>7, <1>8, <1>9, <1>10

(* The marker STATS_UPDATED.                                               *)
LEMMA WriteStatsIInv ==
  ASSUME IInv, WriteStats
  PROVE  IInv'
<1> USE DEF proc, Goto, NoFault, IInv
<1>1. /\ pc = "write_stats" /\ manifest.phase = FK_DEFINED
      /\ ses = db /\ mem.hasGraph /\ Sound(STATS_UPDATED, mem, db)
      /\ mem \in Record
  BY DEF WriteStats, Write, PhaseOfStep, Working, TypeOK
<1>2. /\ manifest' = Reached(STATS_UPDATED)
      /\ UNCHANGED <<db, preserved, lost, opt, prior, keep, ses, mem, present, fed,
                     restored, outcome, flaw, faults>>
      /\ pc' = "triggers"
  BY DEF WriteStats, Write
<1>3. /\ manifest' \in Record /\ manifest'.phase = STATS_UPDATED
      /\ manifest'.hasGraph /\ manifest'.exists = mem.exists
      /\ manifest'.graph = mem.graph
      /\ manifest'.strip = mem.strip
      /\ manifest'.pending = mem.pending /\ manifest'.failedIdx = mem.failedIdx
      /\ manifest'.held = mem.held /\ manifest'.violated = mem.violated
      /\ manifest'.withheld = mem.withheld
      /\ manifest'.statsFail = mem.statsFail
      /\ manifest'.trigFail = mem.trigFail
  BY <1>1, <1>2 DEF Reached, Record
<1>4. TypeOK'
  BY <1>1, <1>2, <1>3, EmptyTypes DEF TypeOK
<1>5. Sound(manifest.phase, manifest, db)'
  BY <1>1, <1>2, <1>3 DEF Sound
<1>6. PhaseOfStep' /\ Reading' /\ Definition' /\ Entering'
  <2>1. PhaseOfStep' /\ Definition'
    BY <1>1, <1>2, <1>3 DEF PhaseOfStep, Definition
  <2>2. Reading'
    BY <1>1, <1>2, <1>3 DEF Reading, Resuming
  <2>3. Entering'
    BY <1>1, <1>2, <1>3 DEF Entering, Resuming
  <2> QED
    BY <2>1, <2>2, <2>3
<1>7. Working'
  BY <1>1, <1>2, <1>3 DEF Working, Sound
<1>8. Finished'
  BY <1>1, <1>2, <1>3 DEF Finished, Unresolved, Resuming
<1> QED
  BY <1>4, <1>5, <1>6, <1>7, <1>8

(* A trigger that is not recorded as failed exists.                        *)
LEMMA TriggersIInv ==
  ASSUME IInv, NEW bad \in SUBSET Trigger, Triggers(bad)
  PROVE  IInv'
<1> DEFINE exists  == IF prior = STATS_UPDATED THEN {} ELSE ses.trg
           refused == (flaw \cup bad \cup exists) \ (ses.trg \ exists)
           trg     == ses.trg \cup (Trigger \ refused)
           failed  == Trigger \cap refused
<1> USE DEF IInv
<1>1. /\ pc = "triggers" /\ manifest.phase = STATS_UPDATED /\ ses = db
      /\ Sound(STATS_UPDATED, mem, db)
  BY DEF Triggers, PhaseOfStep, Working
<1>2. faults' \in 0 .. MaxFaults
  BY ConstantAssumption DEF Triggers, Fault, NoFault, TypeOK
<1>3. PhaseDone([ses EXCEPT !.trg = trg], [mem EXCEPT !.trigFail = failed],
                "commit_triggers")
  BY DEF Triggers
<1>4. /\ trg \subseteq Trigger
      /\ failed \subseteq Trigger
      /\ Trigger \ failed \subseteq trg
      /\ db.cls # {}
  <2>1. db.cls # {}
    BY <1>1, ConstantAssumption DEF Sound
  <2> QED
    BY <2>1 DEF TypeOK, Database
<1> HIDE DEF trg, failed, refused, exists
<1>5. /\ mem' \in Record /\ mem'.hasGraph = mem.hasGraph
      /\ mem'.exists = mem.exists
      /\ mem'.graph = mem.graph /\ mem'.strip = mem.strip
      /\ mem'.pending = mem.pending /\ mem'.failedIdx = mem.failedIdx
      /\ mem'.held = mem.held /\ mem'.violated = mem.violated
      /\ mem'.withheld = mem.withheld /\ mem'.trigFail = failed
  BY <1>3, <1>4 DEF PhaseDone, TypeOK, Record
<1>6. /\ UNCHANGED <<db, manifest, preserved, lost, opt, prior, keep, present, fed,
                     restored, outcome, flaw>>
      /\ pc' = "commit_triggers"
  BY <1>3 DEF PhaseDone, file, Goto
<1>7. /\ ses' \in Database /\ ses'.con = db.con /\ ses'.cls = db.cls
      /\ ses'.rows = db.rows /\ ses'.trg = trg
  BY <1>1, <1>3, <1>4 DEF PhaseDone, TypeOK, Database
<1>8. TypeOK'
  BY <1>1, <1>2, <1>4, <1>5, <1>6, <1>7 DEF TypeOK
<1>9. Sound(manifest.phase, manifest, db)'
  BY <1>1, <1>2, <1>4, <1>5, <1>6, <1>7 DEF Sound
<1>10. PhaseOfStep' /\ Reading' /\ Definition' /\ Entering'
  BY <1>1, <1>2, <1>4, <1>5, <1>6, <1>7 DEF PhaseOfStep, Reading, Definition,
     Entering, Resuming
<1>11. Working'
  BY <1>1, <1>2, <1>4, <1>5, <1>6, <1>7 DEF Working, Sound
<1>12. Finished'
  BY <1>1, <1>2, <1>4, <1>5, <1>6, <1>7 DEF Finished, Unresolved, Resuming
<1> QED
  BY <1>8, <1>9, <1>10, <1>11, <1>12

(* The final check reads the catalog only.                                 *)
LEMMA VerifyIInv ==
  ASSUME IInv, Verify
  PROVE  IInv'
<1> USE DEF IInv
<1>1. /\ pc = "verify" /\ manifest.phase = STATS_UPDATED /\ ses = db
  BY DEF Verify, PhaseOfStep, Working
<1>2. /\ UNCHANGED <<db, manifest, preserved, lost, opt, prior, keep, ses, mem,
                     present, fed, outcome, flaw>>
      /\ pc' = "write_done"
  BY DEF Verify, file, Goto
<1>3. faults' \in 0 .. MaxFaults
  BY ConstantAssumption DEF Verify, Fault, NoFault, TypeOK
<1>4. restored' \in BOOLEAN
  BY Zenon DEF Verify
<1>5. TypeOK'
  BY <1>1, <1>2, <1>3, <1>4 DEF TypeOK
<1>6. Sound(manifest.phase, manifest, db)'
  BY <1>1, <1>2, <1>3, <1>4 DEF Sound
<1>7. PhaseOfStep' /\ Reading' /\ Definition' /\ Entering'
  BY <1>1, <1>2, <1>3, <1>4 DEF PhaseOfStep, Reading, Definition, Entering,
     Resuming
<1>8. Working'
  BY <1>1, <1>2, <1>3, <1>4 DEF Working, Sound
<1>9. Finished'
  BY <1>1, <1>2, <1>3, <1>4 DEF Finished, Unresolved, Resuming
<1> QED
  BY <1>5, <1>6, <1>7, <1>8, <1>9

(* The marker DONE is written over committed triggers.                     *)
LEMMA WriteDoneIInv ==
  ASSUME IInv, WriteDone
  PROVE  IInv'
<1> USE DEF proc, Goto, NoFault, IInv
<1>1. /\ pc = "write_done" /\ manifest.phase = STATS_UPDATED
      /\ ses = db /\ mem.hasGraph /\ Sound(DONE, mem, db)
      /\ mem \in Record
  BY DEF WriteDone, Write, PhaseOfStep, Working, TypeOK
<1>2. /\ manifest' = Reached(DONE)
      /\ UNCHANGED <<db, preserved, lost, opt, prior, keep, ses, mem, present, fed,
                     restored, outcome, flaw, faults>>
      /\ pc' = "close"
  BY DEF WriteDone, Write
<1>3. /\ manifest' \in Record /\ manifest'.phase = DONE
      /\ manifest'.hasGraph /\ manifest'.exists = mem.exists
      /\ manifest'.graph = mem.graph
      /\ manifest'.strip = mem.strip
      /\ manifest'.pending = mem.pending /\ manifest'.failedIdx = mem.failedIdx
      /\ manifest'.held = mem.held /\ manifest'.violated = mem.violated
      /\ manifest'.withheld = mem.withheld
      /\ manifest'.statsFail = mem.statsFail
      /\ manifest'.trigFail = mem.trigFail
  BY <1>1, <1>2 DEF Reached, Record
<1>4. TypeOK'
  BY <1>1, <1>2, <1>3, EmptyTypes DEF TypeOK
<1>5. Sound(manifest.phase, manifest, db)'
  BY <1>1, <1>2, <1>3 DEF Sound
<1>6. PhaseOfStep' /\ Reading' /\ Definition' /\ Entering'
  <2>1. PhaseOfStep' /\ Definition'
    BY <1>1, <1>2, <1>3 DEF PhaseOfStep, Definition
  <2>2. Reading'
    BY <1>1, <1>2, <1>3 DEF Reading, Resuming
  <2>3. Entering'
    BY <1>1, <1>2, <1>3 DEF Entering, Resuming
  <2> QED
    BY <2>1, <2>2, <2>3
<1>7. Working'
  BY <1>1, <1>2, <1>3 DEF Working, Sound
<1>8. Finished'
  BY <1>1, <1>2, <1>3 DEF Finished, Unresolved, Resuming
<1> QED
  BY <1>4, <1>5, <1>6, <1>7, <1>8

(* Exit code 0 needs a record without an unresolved entry; a violated edge *)
(* is always withheld as well.                                             *)
LEMMA CloseIInv ==
  ASSUME IInv, Close
  PROVE  IInv'
<1> DEFINE partial(clean) ==
             \/ ~clean
             \/ ~restored
             \/ mem.pending \cup mem.failedIdx # {}
             \/ mem.violated # {} /\ prior < FK_DEFINED
             \/ mem.withheld # {}
             \/ mem.statsFail # {}
             \/ mem.trigFail # {}
<1>1. pc = "close" /\ UNCHANGED <<db, file>>
  BY DEF Close
<1>2. PICK clean \in BOOLEAN :
        /\ IF clean THEN NoFault ELSE Fault
        /\ Exit(IF partial(clean) THEN "imported_partial" ELSE "imported")
  BY DEF Close
<1>3. faults' \in 0 .. MaxFaults
  BY <1>2, ConstantAssumption DEF Fault, NoFault, IInv, TypeOK
<1>4. manifest.phase = DONE
  BY <1>1 DEF IInv, PhaseOfStep
<1>5. ~partial(clean) => ~Unresolved(manifest)
  BY <1>1 DEF IInv, Finished, Unresolved
<1>6. "imported" \in Outcomes /\ "imported_partial" \in Outcomes
  BY DEF Outcomes
<1> HIDE DEF partial
<1>7. CASE partial(clean)
  <2>1. Exit("imported_partial")
    BY <1>2, <1>7
  <2> QED
    BY <1>1, <1>3, <1>6, <2>1, ExitIInv
<1>8. CASE ~partial(clean)
  <2>1. Exit("imported")
    BY <1>2, <1>8
  <2> QED
    BY <1>1, <1>3, <1>4, <1>5, <1>6, <1>8, <2>1, ExitIInv
<1> QED
  BY <1>7, <1>8

-----------------------------------------------------------------------------
(* The theorems.                                                           *)

(* Every step preserves the invariant.                                     *)
LEMMA NextIInv == IInv /\ [Next]_vars => IInv'
<1> SUFFICES ASSUME IInv, [Next]_vars PROVE IInv'
  OBVIOUS
<1>1. CASE Decide \/ Open \/ Preserve
  BY <1>1, DecideIInv, OpenIInv, PreserveIInv
<1>2. CASE DefineClasses \/ DefineKeys \/ DefineFks \/ DefineEnd
  BY <1>2, DefineClassesIInv, DefineKeysIInv, DefineFksIInv, DefineEndIInv
<1>3. CASE Graph \/ DryEnd \/ Guard
  BY <1>3, GraphIInv, DryEndIInv, GuardIInv
<1>4. CASE WriteManifest
  BY <1>4, WriteDiscoveredIInv, WriteDefinedIInv, WriteGraphIInv,
     WritePlanIInv, WriteStrippedIInv, WriteLoadedIInv, WriteRebuiltIInv,
     WriteFkDefinedIInv, WriteStatsIInv, WriteDoneIInv DEF WriteManifest
<1>5. CASE Commit
  BY <1>5, CommitIInv DEF Commit
<1>6. CASE Strip \/ Truncate
  BY <1>6, StripIInv, TruncateIInv
<1>7. CASE (\E c \in Class : LoadBatch(c)) \/ LoadEnd \/ LoadFails
  BY <1>7, LoadBatchIInv, LoadEndIInv, LoadFailsIInv
<1>8. CASE \E bad \in SUBSET (Key \cup Index) : Rebuild(bad)
  BY <1>8, RebuildIInv
<1>9. CASE DefineForeignKeys
  BY <1>9, DefineForeignKeysIInv
<1>10. CASE \E bad \in SUBSET Class : Stats(bad)
  BY <1>10, StatsIInv
<1>11. CASE \E bad \in SUBSET Trigger : Triggers(bad)
  BY <1>11, TriggersIInv
<1>12. CASE Verify \/ Close
  BY <1>12, VerifyIInv, CloseIInv
<1>13. CASE Environment
  BY <1>13, StartIInv, EmptyTargetIInv, KillIInv, FailAtIInv DEF Environment
<1>14. CASE UNCHANGED vars
  BY <1>14, StutterIInv
<1> QED
  BY <1>1, <1>2, <1>3, <1>4, <1>5, <1>6, <1>7, <1>8, <1>9, <1>10, <1>11,
     <1>12, <1>13, <1>14 DEF Next, RunStep

(* The inductive invariant holds in every reachable state.                 *)
THEOREM Inductive == Spec => []IInv
  BY InitIInv, NextIInv, PTL DEF Spec

(* Every variable keeps its type.                                          *)
THEOREM TypeCorrect == Spec => []TypeOK
<1>1. IInv => TypeOK
  BY DEF IInv
<1> QED
  BY <1>1, Inductive, PTL

(* "Reached X" means X is durable, for every dump, every number of loader  *)
(* commits and every number of kills (import_db.cpp l.544), but for        *)
(* DEFINED after a refused commit (import_define.cpp l.665); what a later  *)
(* marker says of the recorded graph holds even then.                      *)
THEOREM MarkersDurable == Spec => []MarkerNeverAhead
<1>1. IInv => MarkerNeverAhead
  <2> SUFFICES ASSUME IInv PROVE MarkerNeverAhead
    OBVIOUS
  <2>1. Sound(manifest.phase, manifest, db) /\ manifest.phase \in Phase
    BY DEF IInv, TypeOK, Record
  <2> QED
    BY <2>1 DEF Sound, MarkerNeverAhead
<1> QED
  BY <1>1, Inductive, PTL

(* Exit code 0 means that the whole dump is in the database, as long as    *)
(* every FK of the dump is an edge of the graph, so that no class is       *)
(* skipped, and no refused commit lost a part of the schema (import_db.cpp *)
(* l.616).                                                                 *)
THEOREM SuccessIsComplete ==
  ASSUME Edge = Fk
  PROVE  Spec => []SuccessMeansImported
<1>1. IInv => SuccessMeansImported
  <2> SUFFICES ASSUME IInv, outcome \in {"imported", "already"}, ~lost
               PROVE  /\ db.con = Con \cup Index
                      /\ db.rows = Batches
                      /\ db.trg = Trigger
    BY DEF SuccessMeansImported
  <2>1. manifest.phase = DONE /\ ~Unresolved(manifest)
    BY DEF IInv, Finished
  <2>2. Sound(DONE, manifest, db)
    BY <2>1 DEF IInv
  <2>3. Key \subseteq db.con /\ Index \subseteq db.con /\ Fk \subseteq db.con
    <3>1. manifest.graph = Con
      BY <2>2 DEF Sound
    <3> QED
      BY <2>1, <2>2, <3>1 DEF Sound, Unresolved, Con
  <2>4. db.con \subseteq Con \cup Index /\ db.trg \subseteq Trigger
    BY DEF IInv, TypeOK, Database
  <2>5. Trigger \subseteq db.trg /\ db.rows = Batches
    BY <2>1, <2>2 DEF Sound, Unresolved
  <2> QED
    BY <2>3, <2>4, <2>5 DEF Con
<1> QED
  BY <1>1, Inductive, PTL

(* When every parent owns the key its FKs refer to, no phase trips over    *)
(* the work of the run it resumes; and verify_resume_target refuses no     *)
(* legitimate resume (import_db.cpp l.1003), unless a refused commit lost  *)
(* a part of the schema.                                                   *)
THEOREM ResumeAccepted ==
  ASSUME OwnKeys
  PROVE  Spec => []ResumeNeverStuck
<1>1. IInv => ResumeNeverStuck
  BY DEF IInv, Finished, ResumeNeverStuck
<1> QED
  BY <1>1, Inductive, PTL

(* A key or index recorded as not rebuilt is really missing                *)
(* (import_rebuild.cpp l.318).                                             *)
THEOREM PendingExact == Spec => []PendingIsMissing
<1>1. IInv => PendingIsMissing
  BY DEF IInv, PendingIsMissing, Sound
<1> QED
  BY <1>1, Inductive, PTL

(* The record of a durable definition is replaced only by a record at least*)
(* as far, or renamed (import_db.cpp l.804).                               *)
THEOREM RecordKept == Spec => RecordNeverLost
<1> DEFINE Kept == manifest' # manifest /\ manifest.phase > DISCOVERED =>
                     \/ manifest'.phase >= manifest.phase
                     \/ manifest \in preserved'
<1>1. IInv /\ IInv' /\ [Next]_vars => [Kept]_vars
  <2> SUFFICES ASSUME IInv, IInv', Next, manifest' # manifest,
                      manifest.phase > DISCOVERED
               PROVE  \/ manifest'.phase >= manifest.phase
                      \/ manifest \in preserved'
    OBVIOUS
  <2>1. CASE Preserve
    BY <2>1 DEF Preserve
  <2>2. CASE WritePlan
    <3>1. mem \in Record /\ manifest' = Reached(DEFINED)
      BY <2>2 DEF WritePlan, Write, IInv, TypeOK
    <3>2. manifest'.phase = DEFINED
      BY <3>1 DEF Reached, Record
    <3> QED
      BY <2>2, <3>2 DEF WritePlan, Write, IInv, PhaseOfStep
  <2>3. CASE WriteManifest /\ ~WritePlan
    <3>1. <<pc, pc'>> \in {<<"write_discovered", "define">>,
                           <<"write_defined", "graph">>,
                           <<"write_graph", "write_plan">>,
                           <<"write_stripped", "commit_bare">>,
                           <<"write_loaded", "rebuild">>,
                           <<"write_rebuilt", "commit_keys">>,
                           <<"write_fk", "stats">>,
                           <<"write_stats", "triggers">>,
                           <<"write_done", "close">>}
      BY <2>3 DEF WriteManifest, WriteDiscovered, WriteDefined, WriteGraph,
         WriteStripped, WriteLoaded, WriteRebuilt, WriteFkDefined,
         WriteStats, WriteDone, Write, Goto
    <3>2. PhaseOfStep /\ PhaseOfStep' /\ Reading
      BY DEF IInv
    <3> QED
      BY <3>1, <3>2 DEF PhaseOfStep, Reading
  <2>4. ~WriteManifest /\ ~Preserve => manifest' = manifest
    BY DEF Next, RunStep, Environment, Decide, Open, DefineClasses, DefineKeys,
       DefineFks, DefinePart, DefineEnd, Graph, DryEnd, Guard, Commit,
       CommitAt, Strip, Truncate, LoadBatch, LoadEnd, LoadFails, Rebuild,
       DefineForeignKeys, Stats, Triggers, Verify, Close, Start, EmptyTarget,
       Kill, FailAt, PhaseDone, PhaseFails, file
  <2> QED
    BY <2>1, <2>2, <2>3, <2>4
<1> QED
  BY <1>1, Inductive, PTL DEF Spec, RecordNeverLost

(* Rows are truncated or loaded only while STRIPPED is recorded, in tables *)
(* that have neither key nor trigger.                                      *)
THEOREM LoadsBare == Spec => LoadsIntoBareHeaps
<1> DEFINE Bare == \/ manifest.phase = STRIPPED /\ db.con = {} /\ db.trg = {}
                   \/ db' = EmptyDb
<1>1. IInv /\ [Next]_vars => [db'.rows # db.rows => Bare]_vars
  <2> SUFFICES ASSUME IInv, Next, db'.rows # db.rows PROVE Bare
    OBVIOUS
  <2>1. CASE EmptyTarget
    BY <2>1 DEF EmptyTarget
  <2>2. CASE \E c \in Class : LoadBatch(c)
    <3>1. manifest.phase = STRIPPED
      BY <2>2 DEF LoadBatch, IInv, PhaseOfStep
    <3> QED
      BY <3>1 DEF IInv, Sound
  <2>3. CASE DefineClasses \/ DefineKeys \/ DefineFks
    <3>1. pc \in {"define", "define_keys", "define_fks"}
      BY <2>3 DEF DefineClasses, DefineKeys, DefineFks, DefinePart
    <3>2. ~opt.dry => db.rows = NoRows /\ ses.rows = NoRows
      BY <3>1 DEF IInv, Sound, PhaseOfStep, Definition, Working
    <3>3. ses'.rows = ses.rows
      BY <2>3 DEF DefineClasses, DefineKeys, DefineFks, DefinePart, IInv,
         TypeOK, Database
    <3>4. db' = db \/ (~opt.dry /\ db' = ses')
      BY <2>3 DEF DefineClasses, DefineKeys, DefineFks, DefinePart
    <3> QED
      BY <3>2, <3>3, <3>4
  <2>4. CASE DefineEnd
    BY <2>4 DEF DefineEnd, IInv, Sound, PhaseOfStep, Definition
  <2>5. CASE Commit
    <3>1. db' = ses
      BY <2>5 DEF Commit, CommitAt
    <3>2. CASE pc = "commit_truncate"
      BY <3>2 DEF IInv, PhaseOfStep, Sound
    <3>3. CASE pc \in Committing
      <4>1. Sound(manifest.phase, manifest, ses)
            /\ Sound(manifest.phase, manifest, db)
            /\ manifest.phase # STRIPPED /\ manifest.phase \in Phase
        BY <3>3 DEF IInv, Working, PhaseOfStep, TypeOK, Record
      <4> QED
        BY <3>1, <4>1 DEF Sound
    <3>4. CASE pc \notin Committing \cup {"commit_truncate"}
      <4>1. ses = db
        BY <2>5, <3>4 DEF Commit, CommitAt, IInv, Working
      <4> QED
        BY <3>1, <4>1
    <3> QED
      BY <3>2, <3>3, <3>4
  <2>6. \/ db' = db \/ EmptyTarget \/ (\E c \in Class : LoadBatch(c))
        \/ DefineClasses \/ DefineKeys \/ DefineFks \/ DefineEnd \/ Commit
    BY DEF Next, RunStep, Environment, Decide, Open, Preserve, Graph, DryEnd,
       Guard, WriteManifest, WriteDiscovered, WriteDefined, WriteGraph,
       WritePlan, WriteStripped, WriteLoaded, WriteRebuilt, WriteFkDefined,
       WriteStats, WriteDone, Write, Strip, Truncate, LoadEnd, LoadFails,
       Rebuild,
       DefineForeignKeys, Stats, Triggers, Verify, Close, Start, Kill, FailAt,
       PhaseDone, PhaseFails
  <2> QED
    BY <2>1, <2>2, <2>3, <2>4, <2>5, <2>6
<1> QED
  BY <1>1, Inductive, PTL DEF Spec, LoadsIntoBareHeaps

(* A dry run changes neither the database nor the manifest.                *)
THEOREM DryRunSafe == Spec => DryRunLeavesNoTrace
<1>1. IInv /\ [Next]_vars =>
        [pc # "idle" /\ opt.dry => UNCHANGED <<db, manifest, preserved>>]_vars
  <2> SUFFICES ASSUME IInv, Next, pc # "idle", opt.dry
               PROVE  UNCHANGED <<db, manifest, preserved>>
    OBVIOUS
  <2>1. pc \in {"decide", "open", "define", "define_keys", "define_fks",
                "define_end", "graph", "dry_end"}
    BY DEF IInv, Reading
  <2>2. CASE DefineClasses \/ DefineKeys \/ DefineFks \/ DefineEnd
    BY <2>2 DEF DefineClasses, DefineKeys, DefineFks, DefinePart, DefineEnd,
       file
  <2>3. CASE ~(DefineClasses \/ DefineKeys \/ DefineFks \/ DefineEnd)
    BY <2>1, <2>3 DEF Next, RunStep, Environment, Decide, Open, Preserve,
       Graph,
       DryEnd, Guard, WriteManifest, WriteDiscovered, WriteDefined, WriteGraph,
       WritePlan, WriteStripped, WriteLoaded, WriteRebuilt, WriteFkDefined,
       WriteStats, WriteDone, Write, Commit, CommitAt, Strip, Truncate,
       LoadBatch, LoadEnd, LoadFails, Rebuild, DefineForeignKeys, Stats,
       Triggers, Verify,
       Close, Start, EmptyTarget, Kill, FailAt, file
  <2> QED
    BY <2>2, <2>3
<1> QED
  BY <1>1, Inductive, PTL DEF Spec, DryRunLeavesNoTrace

-----------------------------------------------------------------------------
(* What is withheld, under one policy.  WithheldIsMissing is not a         *)
(* consequence of IInv: a run that re-enters the FK phase finds edges that *)
(* a killed one committed, and may stop before it looks at them.  That it  *)
(* does not is a matter of the order: under the policy of the killed run   *)
(* the edges in the catalog are exactly those that it will attempt.        *)

(* The edges of the recorded graph.                                        *)
Known == Edge \cap manifest.graph

Candidates(d) == Known \ Held(Known, (Key \cap manifest.graph) \ d.con)

(* The edges that define_fks adds, one attempt or several.                 *)
Definable(cont, d) ==
  {f \in Candidates(d) \ flaw :
     \/ cont
     \/ \A g \in Candidates(d) \cap flaw : FkPos[g] >= FkPos[f]}

(* An interrupted FK phase committed all it could or nothing, and what is  *)
(* recorded as withheld, or about to be, is not in the catalog.            *)
FkInv(cont) ==
  /\ pc # "idle" => opt.cont = cont
  /\ manifest.phase = REBUILT => \/ db.con \cap Fk = {}
                                 \/ db.con \cap Fk = Definable(cont, db)
  /\ manifest.phase >= FK_DEFINED => manifest.withheld \cap db.con = {}
  /\ manifest.phase >= FK_DEFINED /\ pc \in AfterGraph =>
       mem.withheld \cap db.con = {}
  /\ pc = "commit_fk" => /\ ses.con \cap Fk = Definable(cont, ses)
                         /\ mem.withheld \cap ses.con = {}
  /\ pc = "write_fk" => mem.withheld \cap db.con = {}
  /\ pc \in {"commit_stats", "commit_triggers"} => ses.con = db.con

(* Steps that concern it only by what they leave in the two stores.        *)
Turning == {"commit_fk", "write_fk", "commit_stats", "commit_triggers"}

(* A step that changes neither the constraints nor the manifest.           *)
LEMMA FkKept ==
  ASSUME NEW cont, FkInv(cont), db'.con = db.con,
         UNCHANGED <<manifest, flaw>>, pc' \notin Turning,
         pc' # "idle" => opt'.cont = cont,
         manifest.phase >= FK_DEFINED /\ pc' \in AfterGraph =>
           mem'.withheld \cap db.con = {}
  PROVE  FkInv(cont)'
  BY DEF FkInv, Turning, Definable, Candidates, Known, Held

(* A step that leaves a manifest before REBUILT.                           *)
LEMMA FkEarly ==
  ASSUME NEW cont, manifest'.phase \in DISCOVERED .. LOADED,
         pc' \notin Turning, pc' # "idle" => opt'.cont = cont
  PROVE  FkInv(cont)'
  BY DEF FkInv, Turning

(* The end of a run.                                                       *)
LEMMA FkExit ==
  ASSUME NEW cont, FkInv(cont), UNCHANGED <<db, file>>, NEW how, Exit(how)
  PROVE  FkInv(cont)'
  BY FkKept DEF Exit, file, Turning

(* Steps before the guard, and the steps of the operator.                  *)
LEMMA FkReading ==
  ASSUME NEW cont, Policies \subseteq {cont}, IInv, FkInv(cont),
         \/ Decide \/ Open \/ Preserve \/ Graph \/ DryEnd \/ Guard
         \/ DefineClasses \/ DefineKeys \/ DefineFks \/ DefineEnd
         \/ Verify \/ Close \/ Environment
  PROVE  FkInv(cont)'
<1>1. CASE Decide
  <2>1. CASE pc' = "open" /\ opt' = opt /\ flaw' = flaw
    BY <1>1, <2>1, FkKept DEF Decide, file, FkInv, Turning
  <2>2. CASE \E how \in Outcomes : Exit(how)
    BY <1>1, <2>2, FkExit DEF Decide
  <2> QED
    BY <1>1, <2>1, <2>2 DEF Decide, Fresh, ResumeFrom, Goto, Outcomes
<1>2. CASE Open
  <2>1. CASE pc' \in {"graph", "define", "preserve", "write_discovered"}
             /\ opt' = opt /\ flaw' = flaw
    BY <1>2, <2>1, FkKept DEF Open, file, FkInv, Turning
  <2>2. CASE Exit("not_empty")
    BY <1>2, <2>2, FkExit DEF Open
  <2> QED
    BY <1>2, <2>1, <2>2 DEF Open, Goto, proc
<1>3. CASE Preserve
  BY <1>3, FkEarly DEF Preserve, NoManifest, NoRecord, Goto, proc, FkInv, Turning
<1>4. CASE Graph
  <2>1. /\ pc = "graph" /\ UNCHANGED <<db, manifest, flaw, opt>>
        /\ pc' \in {"dry_end", "write_graph", "guard"}
    BY <1>4 DEF Graph, file, Goto
  <2>2. ASSUME manifest.phase >= FK_DEFINED, pc' \in AfterGraph
        PROVE  mem'.withheld \cap db.con = {}
    <3>1. manifest.hasGraph
      <4>1. manifest.phase \in Phase
        BY DEF IInv, TypeOK, Record
      <4> QED
        BY <2>2, <4>1 DEF IInv, Sound
    <3>2. Resuming
      <4>0. ~opt.dry
        BY <1>4, <2>2 DEF Graph, Goto
      <4>1. ~Resuming => manifest.phase = DEFINED
        BY <2>1, <4>0 DEF IInv, Reading
      <4> QED
        BY <2>2, <4>1
    <3>3. mem = manifest
      BY <2>1, <3>2 DEF IInv, Reading
    <3> QED
      BY <1>4, <2>2, <3>1, <3>2, <3>3 DEF Graph, FkInv
  <2> QED
    BY <2>1, <2>2, FkKept DEF FkInv, Turning
<1>5. CASE DryEnd
  BY <1>5, FkExit DEF DryEnd
<1>6. CASE Guard
  <2>1. CASE Exit("mismatch")
    BY <1>6, <2>1, FkExit DEF Guard
  <2>2. CASE pc' = Entry(prior) /\ UNCHANGED <<opt, mem, flaw>> /\ Resuming
    <3>1. pc' \notin Turning
      BY <2>2 DEF IInv, TypeOK, Resuming, Entry, Turning
    <3> QED
      BY <1>6, <2>2, <3>1, FkKept DEF Guard, file, FkInv
  <2> QED
    BY <1>6, <2>1, <2>2 DEF Guard, Goto, IInv, Reading
<1>7. CASE DefineClasses \/ DefineKeys \/ DefineFks \/ DefineEnd
  <2>1. /\ pc' \in {"define_keys", "define_fks", "define_end", "graph",
                    "write_defined"}
        /\ pc # "idle" /\ pc \in Defining \ {"preserve"}
        /\ UNCHANGED <<manifest, opt, flaw>>
        /\ opt.dry => db' = db
    BY <1>7 DEF DefineClasses, DefineKeys, DefineFks, DefineEnd, DefinePart,
       Goto, file, proc
  <2>2. CASE opt.dry
    BY <2>1, <2>2, FkKept DEF FkInv, Turning
  <2>3. CASE ~opt.dry
    <3>1. manifest.phase = DISCOVERED
      BY <2>1, <2>3 DEF IInv, PhaseOfStep
    <3> QED
      BY <2>1, <3>1, FkEarly DEF FkInv, Turning
  <2> QED
    BY <2>2, <2>3
<1>8. CASE Verify
  BY <1>8, FkKept DEF Verify, Goto, file, FkInv, Turning
<1>9. CASE Close
  <2>1. \E how : Exit(how)
    BY <1>9 DEF Close
  <2> QED
    BY <1>9, <2>1, FkExit DEF Close
<1>10. CASE Environment
  <2>1. CASE \E o \in Options : Start(o)
    <3>1. PICK o \in Options : Start(o)
      BY <2>1
    <3>2. o.cont = cont
      BY DEF Options
    <3> QED
      BY <3>1, <3>2, FkKept DEF Start, Goto, file, Turning
  <2>2. CASE EmptyTarget
    BY <2>2, FkEarly DEF EmptyTarget, file, Turning
  <2>3. CASE Kill
    BY <2>3, FkExit DEF Kill
  <2>4. CASE FailAt(Fallible)
    BY <2>4, FkExit DEF FailAt
  <2> QED
    BY <1>10, <2>1, <2>2, <2>3, <2>4 DEF Environment
<1> QED
  BY <1>1, <1>2, <1>3, <1>4, <1>5, <1>6, <1>7, <1>8, <1>9, <1>10

(* The work of the phases up to REBUILT.                                   *)
LEMMA FkWorking ==
  ASSUME NEW cont, IInv, FkInv(cont),
         \/ Strip \/ Truncate
         \/ (\E c \in Class : LoadBatch(c)) \/ LoadEnd \/ LoadFails
         \/ (\E bad \in SUBSET (Key \cup Index) : Rebuild(bad))
  PROVE  FkInv(cont)'
<1>1. /\ pc \in {"strip", "truncate", "load", "rebuild"}
      /\ UNCHANGED <<manifest, opt>>
      /\ pc' \in {"idle", "commit_strip", "commit_truncate", "load", "commit_load",
                  "commit_rebuild"}
  BY DEF Strip, Truncate, LoadBatch, LoadEnd, LoadFails, Rebuild, PhaseDone,
     PhaseFails, Exit, Goto, file, proc
<1>2. manifest.phase \in DISCOVERED .. LOADED
  BY <1>1 DEF IInv, PhaseOfStep
<1> QED
  BY <1>1, <1>2, FkEarly DEF FkInv, Turning

(* A first FK phase finds no edge in the catalog, a repeated one all that  *)
(* it would define: either way it ends with exactly those.                 *)
LEMMA FkDefined ==
  ASSUME NEW cont, IInv, FkInv(cont), DefineForeignKeys
  PROVE  FkInv(cont)'
<1> DEFINE cand      == Candidates(ses)
           rejected  == (cand \ Skip(REBUILT)) \cap flaw
           attempted == {f \in cand : \/ opt.cont
                                      \/ \A g \in rejected : FkPos[g] >= FkPos[f]}
           added     == (attempted \ Skip(REBUILT)) \ flaw
           goal      == Definable(cont, ses)
<1>1. /\ pc = "fkdefine" /\ manifest.phase = REBUILT /\ ses = db
      /\ Sound(REBUILT, mem, db) /\ opt.cont = cont
      /\ mem.graph = manifest.graph
  BY DEF DefineForeignKeys, IInv, PhaseOfStep, Working, FkInv
<1>2. /\ mem.held = Held(Known, (Key \cap manifest.graph) \ ses.con)
      /\ Edges = Known
      /\ ses.con \cap Fk \cap flaw = {}
  BY <1>1 DEF Sound, Known, Edges
<1>3. IF prior = REBUILT THEN Skip(REBUILT) = ses.con
                         ELSE Skip(REBUILT) = {} /\ ses.con \cap Fk = {}
  BY <1>1 DEF Skip, IInv, Entering
<1>4. /\ cand = Edges \ mem.held /\ cand \subseteq Known
      /\ Known \subseteq Fk /\ cand \subseteq Fk
  BY <1>2, ConstantAssumption DEF Candidates, Known
<1>5. rejected = cand \cap flaw
  <2> HIDE DEF cand
  <2> QED
    BY <1>2, <1>3, <1>4
<1>6. goal = attempted \ flaw
  BY <1>1, <1>5 DEF Definable
<1>7. attempted \subseteq cand
  OBVIOUS
<1>8. \/ ses.con \cap Fk = {}
      \/ ses.con \cap Fk = goal
  BY <1>1 DEF FkInv
<1>9. CASE PhaseDone([ses EXCEPT !.con = @ \cup added],
                     [mem EXCEPT !.violated = attempted \cap rejected,
                                 !.withheld =
                          Edges \ (added \cup (attempted \cap Skip(REBUILT)))],
                     "commit_fk")
  <2> HIDE DEF cand, rejected, attempted, goal
  <2>1. /\ ses \in Database /\ mem \in Record
    BY DEF IInv, TypeOK
  <2>2. ses'.con = ses.con \cup added
    BY <1>9, <2>1 DEF PhaseDone, Database
  <2>3. mem'.withheld = Edges \ (added \cup (attempted \cap Skip(REBUILT)))
    BY <1>9, <2>1 DEF PhaseDone, Record
  <2>4. added \cup (attempted \cap Skip(REBUILT)) = goal
    BY <1>2, <1>3, <1>4, <1>6, <1>7
  <2>5. ses'.con \cap Fk = goal
    BY <1>3, <1>4, <1>6, <1>7, <1>8, <2>2
  <2>6. Key \ ses'.con = Key \ ses.con
    BY <1>4, <1>7, <2>2, ConstantAssumption
  <2>7. /\ flaw' = flaw /\ pc' = "commit_fk"
        /\ UNCHANGED <<db, manifest, opt>>
    BY <1>9 DEF PhaseDone, Goto, file
  <2>8. Definable(cont, ses)' = goal
    <3>1. /\ ((Key \cap manifest.graph) \ ses.con)'
                = (Key \cap manifest.graph) \ ses.con
          /\ Known' = Known
      BY <2>6, <2>7 DEF Known
    <3>2. Candidates(ses)' = Candidates(ses)
      BY <3>1 DEF Candidates, Held
    <3> QED
      BY <2>7, <3>2 DEF Definable, goal
  <2>9. mem'.withheld \cap ses'.con = {}
    BY <1>2, <1>4, <2>3, <2>4, <2>5
  <2>10. (ses.con \cap Fk = Definable(cont, ses))'
    BY <2>5, <2>8
  <2>11. (manifest.phase = REBUILT => \/ db.con \cap Fk = {}
                                      \/ db.con \cap Fk = Definable(cont, db))'
    BY <1>1, <1>8, <2>7 DEF goal, Definable, Candidates, Known, Held
  <2> QED
    BY <1>1, <2>7, <2>9, <2>10, <2>11 DEF FkInv
<1>10. CASE PhaseFails
  BY <1>10, FkExit DEF PhaseFails
<1> QED
  BY <1>4, <1>9, <1>10 DEF DefineForeignKeys, GuardSkipped

(* Statistics and triggers leave constraints and the FK record alone.      *)
LEMMA FkLater ==
  ASSUME NEW cont, IInv, FkInv(cont),
         \/ \E bad \in SUBSET Class : Stats(bad)
         \/ \E bad \in SUBSET Trigger : Triggers(bad)
  PROVE  FkInv(cont)'
<1>1. /\ pc \in {"stats", "triggers"} /\ UNCHANGED <<db, manifest, opt, flaw>>
      /\ pc' \in {"commit_stats", "commit_triggers"}
  BY DEF Stats, Triggers, PhaseDone, Goto, file
<1>2. /\ ses = db /\ manifest.phase \in FK_DEFINED .. STATS_UPDATED
      /\ ses \in Database /\ mem \in Record
  BY <1>1 DEF IInv, Working, PhaseOfStep, TypeOK
<1>3. ses'.con = db.con /\ mem'.withheld = mem.withheld
  BY <1>2 DEF Stats, Triggers, PhaseDone, Database, Record
<1> QED
  BY <1>1, <1>2, <1>3 DEF FkInv

(* The commit of a phase.                                                  *)
LEMMA FkCommit ==
  ASSUME NEW cont, IInv, FkInv(cont), Commit
  PROVE  FkInv(cont)'
<1>0. /\ db' = ses /\ UNCHANGED <<manifest, opt, ses, mem, flaw>>
      /\ pc # "idle" /\ pc' # "idle"
  BY DEF Commit, CommitAt, Goto, file, proc
<1>1. CASE pc \in {"commit_strip", "commit_truncate", "commit_bare", "commit_load",
                   "commit_rebuild"}
  <2>1. manifest.phase \in DISCOVERED .. LOADED
    BY <1>1 DEF IInv, PhaseOfStep
  <2>2. pc' \in {"write_stripped", "commit_bare", "load", "write_loaded", "write_rebuilt"}
    BY <1>1 DEF Commit, CommitAt, Goto
  <2> QED
    BY <1>0, <2>1, <2>2, FkEarly DEF FkInv, Turning
<1>2. CASE pc \in {"commit_keys", "commit_stats", "commit_triggers"}
  <2>1. ses.con = db.con
    BY <1>2 DEF IInv, Working, FkInv
  <2>2. pc' \in {"fkdefine", "write_stats", "verify"}
    BY <1>2 DEF Commit, CommitAt, Goto
  <2>3. pc \in AfterGraph
    BY <1>2
  <2> QED
    BY <1>0, <2>1, <2>2, <2>3, FkKept DEF FkInv, Turning
<1>3. CASE pc = "commit_fk"
  <2>1. pc' = "write_fk" /\ manifest.phase = REBUILT
    BY <1>3 DEF Commit, CommitAt, Goto, IInv, PhaseOfStep
  <2>2. Definable(cont, db)' = Definable(cont, ses)
    BY <1>0 DEF Definable, Candidates, Known, Held
  <2> QED
    BY <1>0, <1>3, <2>1, <2>2 DEF FkInv
<1> QED
  BY <1>1, <1>2, <1>3 DEF Commit, CommitAt

(* The writes of the manifest.                                             *)
LEMMA FkWrite ==
  ASSUME NEW cont, IInv, FkInv(cont), WriteManifest
  PROVE  FkInv(cont)'
<1>0. /\ UNCHANGED <<db, opt, ses, mem, flaw>> /\ pc # "idle" /\ pc' # "idle"
      /\ mem \in Record
  BY DEF WriteManifest, WriteDiscovered, WriteDefined, WriteGraph, WritePlan,
     WriteStripped, WriteLoaded, WriteRebuilt, WriteFkDefined, WriteStats, WriteDone,
     Write, Goto, proc, IInv, TypeOK
<1>1. CASE WriteDiscovered \/ WriteDefined \/ WriteGraph \/ WritePlan
           \/ WriteStripped \/ WriteLoaded
  <2>1. manifest'.phase \in DISCOVERED .. LOADED
    <3>1. CASE WriteDiscovered \/ WriteDefined
      BY <3>1 DEF WriteDiscovered, WriteDefined, Write, NoRecord
    <3>2. CASE WriteGraph \/ WritePlan
      <4>1. Reached(DEFINED) \in Record /\ Reached(DEFINED).phase = DEFINED
        BY <1>0 DEF Reached, Record
      <4> QED
        BY <3>2, <4>1 DEF WriteGraph, WritePlan, Write, Record
    <3>3. CASE WriteStripped \/ WriteLoaded
      BY <1>0, <3>3 DEF WriteStripped, WriteLoaded, Write, Reached, Record
    <3> QED
      BY <1>1, <3>1, <3>2, <3>3
  <2>2. pc' \notin Turning
    BY <1>1 DEF WriteDiscovered, WriteDefined, WriteGraph, WritePlan,
       WriteStripped, WriteLoaded, Write, Goto, Turning
  <2> QED
    BY <1>0, <2>1, <2>2, FkEarly DEF FkInv
<1>2. CASE WriteRebuilt
  <2>1. db.con \cap Fk = {} /\ manifest'.phase = REBUILT /\ pc' = "commit_keys"
    BY <1>0, <1>2 DEF WriteRebuilt, Write, Goto, Reached, Record, IInv, Working, Entering
  <2> QED
    BY <1>0, <2>1 DEF FkInv
<1>3. CASE WriteFkDefined \/ WriteStats \/ WriteDone
  <2>1. pc' \in {"stats", "triggers", "close"} /\ manifest'.withheld = mem.withheld
        /\ manifest'.phase \in FK_DEFINED .. DONE
    BY <1>0, <1>3 DEF WriteFkDefined, WriteStats, WriteDone, Write, Goto, Reached, Record
  <2>2. mem.withheld \cap db.con = {}
    BY <1>3 DEF WriteFkDefined, WriteStats, WriteDone, Write, IInv, PhaseOfStep, FkInv
  <2> QED
    BY <1>0, <2>1, <2>2 DEF FkInv
<1> QED
  BY <1>1, <1>2, <1>3 DEF WriteManifest

(* While --continue-on-error is given in every run, or in none, what is    *)
(* recorded as withheld is not in the catalog, however often the FK phase  *)
(* was killed (import_db.cpp l.1208).  When the policy changes between two *)
(* runs it may be.                                                         *)
THEOREM WithheldExact ==
  ASSUME NEW cont \in BOOLEAN, Policies \subseteq {cont}
  PROVE  Spec => []WithheldIsMissing
<1>1. Init => FkInv(cont)
  BY DEF Init, FkInv, NoManifest, NoRecord
<1>2. IInv /\ FkInv(cont) /\ [Next]_vars => FkInv(cont)'
  <2> SUFFICES ASSUME IInv, FkInv(cont), [Next]_vars PROVE FkInv(cont)'
    OBVIOUS
  <2>1. CASE UNCHANGED vars
    BY <2>1 DEF vars, file, proc, FkInv, Definable, Candidates, Known, Held
  <2>2. CASE Next
    BY <2>2, FkReading, FkWorking, FkDefined, FkLater, FkCommit, FkWrite
       DEF Next, RunStep
  <2> QED
    BY <2>1, <2>2
<1>3. FkInv(cont) => WithheldIsMissing
  BY DEF FkInv, WithheldIsMissing
<1> QED
  BY <1>1, <1>2, <1>3, Inductive, PTL DEF Spec
================================================================================
