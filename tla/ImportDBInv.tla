------------------------------ MODULE ImportDBInv ------------------------------
(***************************************************************************)
(* The inductive invariant of ImportDB.  MarkerNeverAhead relates only the *)
(* two durable stores, so no step preserves it by itself: a step that      *)
(* writes the manifest relies on what the steps before it committed, and   *)
(* those on what they found in the manifest they resumed from.  IInv says  *)
(* what holds at each step of a run, from one predicate, Sound(p, m, d):   *)
(* an import that has reached phase p with the records m can go on in the  *)
(* database d.  Its clauses fix the records by the catalog (a key is       *)
(* pending exactly when the catalog lacks it), so that a re-entered phase  *)
(* has no choice but to reach the record the interrupted one would have    *)
(* written.                                                                *)
(***************************************************************************)
EXTENDS ImportDB

(* The schema is defined classes first, then keys, then FKs, so what a     *)
(* refused commit leaves of its constraints is one of three sets.          *)
Staged(con) == con \in {{}, Key, Con}

(* What holds of it while no part of the schema was lost: the classes are  *)
(* there, and a recorded graph names every key and FK of the dump.         *)
Whole(phase, m, d) ==
  /\ phase >= DEFINED => d.cls = Class
  /\ phase = DEFINED => \/ d.con = Con
                        \/ d.con = {} /\ m.hasGraph
  /\ m.hasGraph => m.graph = Con

(* An import at this phase, with these records, can go on in d.            *)
Sound(phase, m, d) ==
  /\ d.cls = {} => d.con = {} /\ d.trg = {} /\ d.rows = NoRows
  /\ Staged(m.graph)
  /\ phase = DISCOVERED => ~m.hasGraph
  /\ phase <= DEFINED => Staged(d.con) /\ d.rows = NoRows
  /\ phase = DEFINED /\ m.hasGraph => d.con \subseteq m.graph
  /\ phase >= STRIPPED => m.hasGraph /\ m.strip = m.graph
  /\ phase = STRIPPED => d.con = {}
  /\ phase >= LOADED => d.cls = Class /\ d.rows = Batches
  /\ phase = LOADED => d.con \cap Fk = {}
  /\ phase >= REBUILT =>
       LET edges == Edge \cap m.graph
       IN /\ m.pending = (Key \cap m.graph) \ d.con
          /\ m.failedIdx = Index \ d.con
          /\ m.held = Held(edges, m.pending)
          /\ d.con \cap Fk \subseteq edges \ (m.held \cup flaw)
  /\ phase >= FK_DEFINED => (Edge \cap m.graph) \ m.withheld \subseteq d.con
  /\ phase <= FK_DEFINED => d.trg = {}
  /\ phase = DONE => Trigger \ m.trigFail \subseteq d.trg
  /\ ~lost => Whole(phase, m, d)

-----------------------------------------------------------------------------
(* The steps of a run by the phase the manifest records meanwhile.         *)
AtDefined  == {"strip", "commit_strip", "write_stripped"}
AtStripped == {"truncate", "commit_truncate", "commit_bare", "load",
               "commit_load", "write_loaded"}
AtLoaded   == {"rebuild", "commit_rebuild", "write_rebuilt"}
AtRebuilt  == {"commit_keys", "fkdefine", "commit_fk", "write_fk"}
AtFk       == {"stats", "commit_stats", "write_stats"}
AtStats    == {"triggers", "commit_triggers", "verify", "write_done"}

(* The schema is being defined on an empty target.                         *)
Defining == {"preserve", "write_discovered", "define", "define_keys",
             "define_fks", "define_end", "write_defined"}

(* A phase's work is in the transaction, or committed but not recorded.    *)
Committing == {"commit_strip", "commit_rebuild", "commit_fk", "commit_stats",
               "commit_triggers"}
Recording  == {"write_stripped", "write_loaded", "write_rebuilt", "write_fk",
               "write_stats", "verify", "write_done"}

(* The transaction holds nothing that is not committed.                    *)
Settled == Steps \ ({"define_keys", "define_fks", "define_end", "dry_end",
                     "commit_truncate"} \cup Committing)

(* The graph is not recorded yet, or nothing is stripped: after a refused  *)
(* commit the transaction may still hold what is not durable.              *)
Loose == {"write_defined", "graph", "write_graph", "write_plan", "strip"}

(* The loader has not been started.                                        *)
BeforeLoad == {"idle", "decide", "open", "graph", "dry_end", "write_graph",
               "write_plan", "guard", "truncate", "commit_truncate",
               "commit_bare"} \cup Defining \cup AtDefined

AfterGraph == {"write_graph", "write_plan", "guard", "close"} \cup AtDefined
              \cup AtStripped \cup AtLoaded \cup AtRebuilt \cup AtFk
              \cup AtStats

(* The phase the manifest records at each step of a run.                   *)
PhaseOfStep ==
  /\ pc \in Defining => \/ manifest.phase = DISCOVERED
                        \/ lost /\ (opt.dry \/ pc = "preserve")
  /\ pc \in {"write_graph", "write_plan"} \cup AtDefined
       => manifest.phase = DEFINED /\ prior \in {DISCOVERED, DEFINED}
  /\ pc \in AtStripped => manifest.phase = STRIPPED
  /\ pc \in AtLoaded   => manifest.phase = LOADED
  /\ pc \in AtRebuilt  => manifest.phase = REBUILT
  /\ pc \in AtFk       => manifest.phase = FK_DEFINED
  /\ pc \in AtStats    => manifest.phase = STATS_UPDATED
  /\ pc = "close"      => manifest.phase = DONE

(* Reading the manifest, up to the graph.                                  *)
Reading ==
  /\ pc \in {"idle", "decide"} \cup Defining => ~Resuming
  /\ ~Resuming /\ pc \in {"idle", "decide", "open", "graph"} \cup Defining =>
       mem = NoRecord
  /\ Resuming /\ pc \in {"open", "graph"} => mem = manifest
  /\ Resuming /\ pc \in {"open", "graph", "guard"} => prior = manifest.phase
  /\ Resuming => ~opt.dry
  /\ opt.dry => pc \in {"idle", "decide", "open", "define", "define_keys",
                        "define_fks", "define_end", "graph", "dry_end"}
  /\ pc = "guard" => Resuming
  /\ pc = "graph" /\ ~Resuming =>
       /\ ~lost => ses.con = Con
       /\ ~opt.dry => manifest.phase = DEFINED
  /\ mem.exists
  /\ ~manifest.exists => manifest.phase = DISCOVERED /\ ~lost
  /\ pc = "open" /\ lost => keep \/ Resuming \/ opt.dry
  /\ pc \in {"write_discovered", "define", "define_keys", "define_fks",
            "define_end"} => ~lost \/ opt.dry
  /\ pc \in {"define", "define_keys", "define_fks", "define_end"} =>
       manifest.exists \/ opt.dry

(* What the transaction of a defining run holds.                           *)
Definition ==
  /\ pc \in {"preserve", "write_discovered", "define"} => db.cls = {}
  /\ pc \in {"define_keys", "define_fks", "define_end"} =>
       /\ ses.cls = Class
       /\ ses.rows = NoRows
       /\ ses.trg = {}
  /\ pc = "define_keys" => ses.con = {}
  /\ pc = "define_fks" => ses.con = Key
  /\ pc = "define_end" => ses.con = Con
  /\ pc = "write_defined" /\ ~lost => ses.con = Con /\ ses.cls = Class

(* The records and the transaction of a run past the graph.                *)
Working ==
  /\ pc \in Settled /\ ~(pc = "graph" /\ opt.dry) =>
       ses = db \/ (lost /\ ~Resuming /\ pc \in Loose)
  /\ pc \in Loose /\ ~Resuming /\ ~opt.dry =>
       /\ db.con \subseteq ses.con /\ Staged(ses.con)
       /\ ses.rows = NoRows /\ ses.trg = {}
       /\ ses.cls = {} => ses.con = {}
  /\ pc \in AfterGraph => mem.hasGraph
  /\ pc \in {"write_plan", "guard"} \cup AtDefined => manifest.hasGraph
  /\ pc \in AfterGraph => Sound(manifest.phase, mem, db)
  /\ pc \in AfterGraph \ {"write_graph"} => manifest.graph = mem.graph
  /\ pc \in Committing \cup {"commit_truncate"} =>
       Sound(manifest.phase, manifest, ses)
  /\ pc \in Committing \cup Recording =>
       Sound(manifest.phase + 1, mem, ses)
  /\ pc = "commit_load" => db.cls = Class /\ db.rows = Batches
  /\ pc = "commit_truncate" => ses.rows = NoRows
  /\ pc = "commit_bare" => db.rows = NoRows
  /\ pc \in BeforeLoad => fed = NoRows
  /\ pc = "load" => db.rows = fed

(* What the phase about to run finds in the catalog: the guarded phase of  *)
(* a resumed run the snapshot taken for it, any other phase none of its    *)
(* own work.                                                               *)
Entering ==
  /\ pc = "strip" => IF prior = DEFINED THEN present = db.con
                                        ELSE ses.con = mem.graph
  /\ pc = "rebuild" => IF prior = LOADED THEN present = db.con
                                         ELSE db.con = {}
  /\ pc \in {"commit_keys", "fkdefine"} =>
       IF prior = REBUILT THEN present = db.con ELSE db.con \cap Fk = {}
  /\ pc \in {"write_graph", "write_plan"} /\ ~Resuming => ses.con = mem.graph
  /\ pc \in {"commit_rebuild", "write_rebuilt"} => ses.con \cap Fk = {}
  /\ pc \in AtStripped => prior <= STRIPPED
  /\ pc \in AtLoaded => prior <= LOADED

(* How runs end: a finished import stays finished, and only a lost         *)
(* definition or an inherited parent key stops a resume.                   *)
Finished ==
  /\ outcome \in {"imported", "already"} =>
       manifest.phase = DONE /\ ~Unresolved(manifest)
  /\ pc # "idle" => outcome = "none"
  /\ outcome = "mismatch" => lost
  /\ outcome = "stuck" => ~OwnKeys
  /\ manifest.phase = DONE =>
       /\ \/ pc \in {"idle", "decide", "open", "close"}
          \/ lost /\ ~Resuming /\ (opt.dry \/ pc = "preserve")
       /\ pc = "open" => ~Resuming
  /\ pc = "close" => mem.pending = manifest.pending
                     /\ mem.failedIdx = manifest.failedIdx
                     /\ mem.violated = manifest.violated
                     /\ mem.withheld = manifest.withheld
                     /\ mem.statsFail = manifest.statsFail
                     /\ mem.trigFail = manifest.trigFail
  /\ mem.violated \subseteq mem.withheld
  /\ manifest.violated \subseteq manifest.withheld

(* The inductive invariant.                                                *)
IInv ==
  /\ TypeOK
  /\ Sound(manifest.phase, manifest, db)
  /\ PhaseOfStep
  /\ Reading
  /\ Definition
  /\ Working
  /\ Entering
  /\ Finished
=============================================================================
