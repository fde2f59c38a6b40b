--------------------------- MODULE Constraints_proofs ---------------------------
(***************************************************************************)
(* For any classes, inheritance, constraints, statements, flaws and any    *)
(* number of kills: what each phase leaves in the catalog and in its       *)
(* record is determined by the dump, so a phase that is entered again,     *)
(* with or without its earlier commit, arrives where it would have arrived *)
(* at once.  The records, the verdict and the absence of refused           *)
(* statements follow.                                                      *)
(***************************************************************************)
EXTENDS Constraints, FiniteSetTheorems, TLAPS

(* What node_constraints lists, each once: strip drops all of it.          *)
Stripped == {k \in Con : k.cls \in Node}

(* The owner's own entry in the list.                                      *)
Own(k) == <<k, k.cls>>

(* What rebuild adds back, and what it cannot.                             *)
Rebuilt ==
  {k \in Stripped \cap Key : \E s \in dump.keys : k \in s /\ s \cap dump.bad = {}}

Pending == (Stripped \cap Key) \ Rebuilt

(* What define_fks finds rejected, unless it has stopped before.           *)
Rejectable == {f \in Edge \cap dump.fks : f \notin Children(Pending) /\ f \in dump.bad}

StoppedAt(f) == ~dump.cont /\ \E g \in Rejectable : dump.rank[g] < dump.rank[f]

Violated == {f \in Rejectable : ~StoppedAt(f)}

Defined ==
  {f \in Edge \cap dump.fks :
     f \notin Children(Pending) /\ f \notin dump.bad /\ ~StoppedAt(f)}

-----------------------------------------------------------------------------
(* The four parts of a record.                                             *)
KeyPart(r, rebuilt, pending, indexed, failed) ==
  /\ r.rebuilt = rebuilt /\ r.pending = pending /\ r.held = Children(pending)
  /\ r.indexed = indexed /\ r.failedIdx = failed

FkPart(r, defined, violated, withheld) ==
  r.defined = defined /\ r.violated = violated /\ r.withheld = withheld

StatPart(r, analyzed, failed) == r.analyzed = analyzed /\ r.statFail = failed

TriggerPart(r, triggers, failed) == r.triggers = triggers /\ r.trigFail = failed

WithKeys == {"REBUILT", "FK_DEFINED", "STATS_UPDATED", "DONE"}
WithFks == {"FK_DEFINED", "STATS_UPDATED", "DONE"}
WithStats == {"STATS_UPDATED", "DONE"}

(* The record, and the catalog, of the phases up to a mark.                *)
RecordAt(r, mark) ==
  /\ r.stripped = IF mark = "DEFINED" THEN {} ELSE Stripped
  /\ IF mark \in WithKeys THEN KeyPart(r, Rebuilt, Pending, TRUE, Index \cap dump.bad)
                          ELSE KeyPart(r, {}, {}, FALSE, {})
  /\ IF mark \in WithFks THEN FkPart(r, Defined, Violated, Edge \ Defined)
                         ELSE FkPart(r, {}, {}, {})
  /\ IF mark \in WithStats THEN StatPart(r, Node, Node \cap dump.bad)
                           ELSE StatPart(r, {}, {})
  /\ IF mark = "DONE" THEN TriggerPart(r, TRUE, ~dump.trig)
                      ELSE TriggerPart(r, FALSE, FALSE)

Bare == Con \ Stripped

CatalogAt(cat, mark) ==
  /\ cat.con = IF mark = "DEFINED" THEN Con
               ELSE IF mark = "STRIPPED" THEN Bare
               ELSE IF mark = "REBUILT" THEN Bare \cup Rebuilt
               ELSE (Bare \cup Rebuilt) \cup Defined
  /\ cat.idx = IF mark \in WithKeys THEN Index \ dump.bad ELSE {}

-----------------------------------------------------------------------------
DumpOK ==
  /\ dump.keys \subseteq SUBSET Key
  /\ \A s \in dump.keys : \A k, l \in s : k.cls = l.cls
  /\ \A s, t \in dump.keys : s \cap t # {} => s = t
  /\ dump.fks \subseteq Fk
  /\ \A f \in Fk : dump.rank[f] \in Nat
  /\ \A f, g \in Fk : dump.rank[f] = dump.rank[g] => f = g
  /\ dump.cont \in BOOLEAN /\ dump.trig \in BOOLEAN

(* The database may be ahead of the mark by the phase that was committed.  *)
MarkInv ==
  /\ RecordAt(saved, marked)
  /\ \/ CatalogAt(committed, marked)
     \/ marked # "DONE" /\ CatalogAt(committed, MarkAfter[marked])
  /\ guarded /\ pc \notin {"mark", "verify", "done"} => present = committed.con
  /\ ~guarded /\ pc \notin {"mark", "failed"} => CatalogAt(committed, marked)
  /\ marked = "DONE" <=> pc = "done"

(* What the loop has visited, and not the rest, is in the record; what it  *)
(* added is in the catalog besides what was committed.                     *)
ToStrip ==
  {k \in Stripped :
     CASE pc = "drop_fk" -> k.kind = "fk" => Own(k) \in todo
       [] pc = "drop_unique" -> k.kind = "pk" \/ (k.kind = "unique" /\ Own(k) \in todo)
       [] pc = "drop_pk" -> k.kind = "pk" /\ Own(k) \in todo
       [] OTHER -> FALSE}

StripInv ==
  pc \in {"drop_fk", "drop_unique", "drop_pk"} =>
    /\ marked = "DEFINED"
    /\ rec.stripped = Stripped \ ToStrip
    /\ KeyPart(rec, {}, {}, FALSE, {}) /\ FkPart(rec, {}, {}, {})
    /\ StatPart(rec, {}, {}) /\ TriggerPart(rec, FALSE, FALSE)
    /\ catalog.con = committed.con \ rec.stripped
    /\ catalog.idx = {}

Visits(k) == \E s \in dump.keys \ todo : k \in s

KeyInv ==
  pc \in {"add_key", "index", "account_key"} =>
    /\ marked = "STRIPPED"
    /\ pc # "add_key" => todo = {}
    /\ rec.stripped = Stripped
    /\ KeyPart(rec, {k \in Rebuilt : Visits(k)}, {k \in Pending : Visits(k)},
               pc = "account_key", IF pc = "account_key" THEN Index \cap dump.bad ELSE {})
    /\ FkPart(rec, {}, {}, {})
    /\ StatPart(rec, {}, {}) /\ TriggerPart(rec, FALSE, FALSE)
    /\ catalog.con = committed.con \cup rec.rebuilt
    /\ catalog.idx = IF pc = "account_key" THEN Index \ dump.bad ELSE committed.idx

FkInv ==
  pc = "add_fk" =>
    /\ marked = "REBUILT"
    /\ \A f \in dump.fks \ todo, g \in todo : dump.rank[f] < dump.rank[g]
    /\ stop <=> ~dump.cont /\ \E g \in Rejectable : g \notin todo
    /\ rec.stripped = Stripped
    /\ KeyPart(rec, Rebuilt, Pending, TRUE, Index \cap dump.bad)
    /\ FkPart(rec, Defined \ todo, Violated \ todo,
              ((Edge \cap dump.fks) \ Defined) \ todo)
    /\ StatPart(rec, {}, {}) /\ TriggerPart(rec, FALSE, FALSE)
    /\ catalog.con = committed.con \cup rec.defined
    /\ catalog.idx = committed.idx

(* Between the loops: at the ends of a phase.                              *)
EndInv ==
  /\ pc = "stats" => marked = "FK_DEFINED"
  /\ pc = "trigger" => marked = "STATS_UPDATED"
  /\ pc \in {"stats", "trigger", "failed"} => catalog = committed
  /\ pc \in {"stats", "trigger"} => RecordAt(rec, marked)
  /\ pc = "failed" => rec = saved
  /\ pc = "commit" => /\ RecordAt(rec, MarkAfter[marked])
                      /\ CatalogAt(catalog, MarkAfter[marked])
  /\ pc = "mark" => /\ marked # "STATS_UPDATED"
                    /\ RecordAt(rec, MarkAfter[marked])
                    /\ CatalogAt(committed, MarkAfter[marked])
                    /\ catalog = committed
  /\ pc = "verify" => /\ marked = "STATS_UPDATED"
                      /\ RecordAt(rec, "DONE")
                      /\ catalog = committed

VerdictInv ==
  pc = "done" =>
    /\ RecordAt(rec, "DONE")
    /\ catalog = committed
    /\ outcome = IF Restored /\ ~Shortfall THEN "success" ELSE "partial"

PhaseInv == StripInv /\ KeyInv /\ FkInv /\ EndInv /\ VerdictInv

IInv == TypeOK /\ DumpOK /\ MarkInv /\ PhaseInv

-----------------------------------------------------------------------------
LEMMA KindsApart == Key \cap Fk = {}
  BY ConstraintsAssumption

LEMMA MarkAfterIs ==
  /\ MarkAfter["DEFINED"] = "STRIPPED" /\ MarkAfter["STRIPPED"] = "REBUILT"
  /\ MarkAfter["REBUILT"] = "FK_DEFINED" /\ MarkAfter["FK_DEFINED"] = "STATS_UPDATED"
  /\ MarkAfter["STATS_UPDATED"] = "DONE"
  BY DEF MarkAfter

LEMMA EnterIs ==
  /\ Enter("DEFINED") = "drop_fk" /\ Enter("STRIPPED") = "add_key"
  /\ Enter("REBUILT") = "add_fk" /\ Enter("FK_DEFINED") = "stats"
  /\ Enter("STATS_UPDATED") = "trigger"
  BY DEF Enter

(* A name on a class, or on one that inherits it, is one constraint.       *)
LEMMA HasIsIn ==
  ASSUME NEW cons, cons \subseteq Con, NEW k \in Con, NEW c \in Family[k.cls]
  PROVE  Has(cons, c, k.name) <=> k \in cons
<1>1. ASSUME NEW l \in cons, l.name = k.name, c \in Family[l.cls] PROVE l = k
  BY <1>1, ConstraintsAssumption
<1> QED
  BY <1>1 DEF Has

(* Strip passes over exactly the copies: the owner's entry it takes.       *)
LEMMA InheritedIsCopy ==
  ASSUME NEW e \in Listed
  PROVE  Inherited(e) <=> e[2] # e[1].cls
<1> DEFINE k == e[1]
<1>1. k \in Con /\ e[2] \in Node /\ e[2] \in Family[k.cls] /\ k.cls \in Class
  BY ConstraintsAssumption DEF Listed, Con
<1>2. ASSUME e[2] # k.cls PROVE Inherited(e)
  <2>1. k.cls \in Node /\ k.cls \in Family[k.cls]
    BY <1>1, ConstraintsAssumption
  <2>2. Has(Con, k.cls, k.name)
    BY <1>1, <2>1 DEF Has
  <2> QED
    BY <1>1, <1>2, <2>1, <2>2 DEF Inherited
<1>3. ASSUME e[2] = k.cls, Inherited(e) PROVE FALSE
  <2>1. PICK d \in Node \ {e[2]} : e[2] \in Family[d] /\ Has(Con, d, k.name)
    BY <1>3 DEF Inherited
  <2>2. PICK l \in Con : l.name = k.name /\ d \in Family[l.cls]
    BY <2>1 DEF Has
  <2>3. l.cls \in Class /\ d \in Class
    BY <2>2, ConstraintsAssumption DEF Con
  <2>4. e[2] \in Family[l.cls]
    BY <2>1, <2>2, <2>3, ConstraintsAssumption
  <2>5. l = k
    BY <1>1, <2>2, <2>4, ConstraintsAssumption
  <2> QED
    BY <1>1, <1>3, <2>1, <2>2, <2>3, <2>5, ConstraintsAssumption
<1> QED
  BY <1>2, <1>3

LEMMA ListedIsStripped ==
  /\ \A e \in Listed : e[1] \in Stripped /\ e[2] \in Family[e[1].cls]
                       /\ e = <<e[1], e[2]>>
  /\ \A k \in Stripped : Own(k) \in Listed /\ Own(k)[1] = k /\ Own(k)[2] = k.cls
<1>1. ASSUME NEW e \in Listed
      PROVE  e[1] \in Stripped /\ e[2] \in Family[e[1].cls] /\ e = <<e[1], e[2]>>
  <2>1. e[1] \in Con /\ e[2] \in Node /\ e[2] \in Family[e[1].cls] /\ e = <<e[1], e[2]>>
    BY DEF Listed
  <2>2. e[1].cls \in Class
    BY <2>1, ConstraintsAssumption DEF Con
  <2> QED
    BY <2>1, <2>2, ConstraintsAssumption DEF Stripped
<1>2. ASSUME NEW k \in Stripped
      PROVE  Own(k) \in Listed /\ Own(k)[1] = k /\ Own(k)[2] = k.cls
  <2>1. k \in Con /\ k.cls \in Node /\ k.cls \in Family[k.cls]
    BY ConstraintsAssumption DEF Stripped
  <2> QED
    BY <2>1 DEF Own, Listed
<1> QED
  BY <1>1, <1>2

LEMMA SetFacts ==
  /\ Stripped \subseteq Con /\ Edge \subseteq Stripped \cap Fk
  /\ Rebuilt \subseteq Stripped \cap Key /\ Pending \subseteq Stripped \cap Key
  /\ Rebuilt \cap Pending = {} /\ Rebuilt \cup Pending = Stripped \cap Key
  /\ Defined \subseteq Edge \cap dump.fks /\ Violated \subseteq Edge \cap dump.fks
  /\ Violated \cap Defined = {}
  /\ Bare \cap Stripped = {} /\ Bare \subseteq Con
  BY DEF Stripped, Edge, Rebuilt, Pending, Defined, Violated, Rejectable, Bare, Con

(* What is determined by the dump does not change.                         *)
LEMMA Fixed ==
  ASSUME dump' = dump
  PROVE  /\ Rebuilt' = Rebuilt /\ Pending' = Pending /\ Rejectable' = Rejectable
         /\ Violated' = Violated /\ Defined' = Defined
<1>1. Rebuilt' = Rebuilt
  BY DEF Rebuilt
<1>2. Pending' = Pending
  BY <1>1 DEF Pending
<1>3. Rejectable' = Rejectable
  BY <1>2 DEF Rejectable
<1> QED
  BY <1>1, <1>2, <1>3 DEF Violated, Defined, StoppedAt

LEMMA DumpFixed == [Next]_vars => dump' = dump
  BY DEF Next, Strip, Visited, Abort, EndStrip, Loop, AddKey, BuildIndexes, AccountKeys, AddFk, AccountFks,
         Stats, Triggers, Commit, Mark, Finish, Restart, Done, vars

LEMMA DumpHolds == Init => DumpOK
<1> SUFFICES ASSUME Init PROVE DumpOK
  OBVIOUS
<1>1. PICK split \in BOOLEAN, cont \in BOOLEAN, trig \in BOOLEAN, fks \in SUBSET Fk,
           bad \in SUBSET Faulty, rank \in Bijection(Fk, 1 .. Cardinality(Fk)) :
        \E keys \in KeyFile(split) :
          dump = [split |-> split, keys |-> keys, fks |-> fks, rank |-> rank,
                  bad |-> bad, trig |-> trig, cont |-> cont]
  BY DEF Init
<1>2. PICK keys \in KeyFile(split) :
        dump = [split |-> split, keys |-> keys, fks |-> fks, rank |-> rank,
                bad |-> bad, trig |-> trig, cont |-> cont]
  BY <1>1
<1>3. /\ dump.keys = keys /\ dump.fks = fks /\ dump.rank = rank
      /\ dump.cont = cont /\ dump.trig = trig
  BY <1>2
<1>4. /\ keys \subseteq SUBSET Key
      /\ \A s \in keys : \A k, l \in s : k.cls = l.cls
      /\ \A s, t \in keys : s \cap t # {} => s = t
  BY DEF KeyFile
<1>5. rank \in Injection(Fk, 1 .. Cardinality(Fk))
  BY DEF Bijection
<1>6. rank \in [Fk -> 1 .. Cardinality(Fk)] /\ IsInjective(rank)
  BY <1>5 DEF Injection
<1>7. \A f, g \in Fk : rank[f] = rank[g] => f = g
  BY <1>6 DEF IsInjective
<1>8. Cardinality(Fk) \in Nat
  BY ConstraintsAssumption, FS_CardinalityType
<1>9. \A f \in Fk : rank[f] \in Nat
  BY <1>6, <1>8
<1> QED
  BY <1>3, <1>4, <1>7, <1>9 DEF DumpOK

(* A step inside a phase touches neither the mark nor what is committed.   *)
LEMMA MarkKept ==
  ASSUME MarkInv, dump' = dump,
         UNCHANGED <<committed, saved, marked, guarded, present>>,
         pc \notin {"mark", "failed", "verify", "done"}, pc' # "done"
  PROVE  MarkInv'
<1>1. RecordAt(saved, marked)' <=> RecordAt(saved, marked)
  BY Fixed DEF RecordAt, KeyPart, FkPart, StatPart, TriggerPart
<1>2. /\ CatalogAt(committed, marked)' <=> CatalogAt(committed, marked)
      /\ CatalogAt(committed, MarkAfter[marked])' <=> CatalogAt(committed, MarkAfter[marked])
  BY Fixed DEF CatalogAt
<1> QED
  BY <1>1, <1>2 DEF MarkInv

LEMMA AbortStep ==
  ASSUME IInv, Abort, pc \notin {"mark", "failed", "verify", "done"}
  PROVE  TypeOK' /\ MarkInv' /\ PhaseInv'
<1>1. pc' = "failed"
  BY DEF Abort
<1>2. MarkInv'
  BY MarkKept DEF Abort, IInv, durable, guard
<1>3. PhaseInv'
  BY <1>1 DEF PhaseInv, StripInv, KeyInv, FkInv, EndInv, VerdictInv, Abort, durable
<1>4. TypeOK'
  BY <1>1 DEF IInv, TypeOK, Abort, Pc, durable, guard, verdict
<1> QED
  BY <1>2, <1>3, <1>4

LEMMA StripStep ==
  ASSUME IInv, NEW e \in Listed, Strip(e)
  PROVE  TypeOK' /\ MarkInv' /\ PhaseInv'
<1> DEFINE k == e[1]
<1>0. /\ pc \in {"drop_fk", "drop_unique", "drop_pk"}
      /\ StripInv /\ MarkInv /\ TypeOK
  BY DEF Strip, IInv, PhaseInv
<1>1. k \in Stripped /\ e[2] \in Family[k.cls] /\ k \in Con
  BY ListedIsStripped DEF Stripped
<1>2. CASE Abort
  BY <1>0, <1>2, AbortStep
<1>3. CASE ~Abort
  <2>1. Visited(e)
    BY <1>3 DEF Strip
  <2>2. /\ e \in todo /\ todo' = todo \ {e}
        /\ UNCHANGED <<dump, committed, pc, saved, marked, guarded, present, report, outcome, faults>>
    BY <2>1 DEF Visited, durable, guard, verdict
  <2>3. UNCHANGED stop
    BY <1>3 DEF Strip
  <2>4. MarkInv'
    BY <1>0, <2>2, MarkKept
  <2>5. todo \subseteq ListedOf(IF pc = "drop_fk" THEN "fk"
                                ELSE IF pc = "drop_unique" THEN "unique" ELSE "pk")
    BY <1>0 DEF TypeOK, ItemsAt
  <2>6. k.kind = IF pc = "drop_fk" THEN "fk" ELSE IF pc = "drop_unique" THEN "unique" ELSE "pk"
    BY <2>2, <2>5 DEF ListedOf
  <2>7. CASE Inherited(e)
    <3>1. UNCHANGED <<catalog, rec>>
      BY <1>3, <2>7 DEF Strip
    <3>2. \A c \in Stripped : Own(c) # e
      BY <2>7, InheritedIsCopy, ListedIsStripped
    <3>3. ToStrip' = ToStrip
      BY <2>2, <3>2 DEF ToStrip
    <3>4. StripInv'
      BY <1>0, <2>2, <3>1, <3>3 DEF StripInv, KeyPart, FkPart, StatPart, TriggerPart
    <3>5. PhaseInv'
      BY <1>0, <2>2, <3>4 DEF PhaseInv, KeyInv, FkInv, EndInv, VerdictInv
    <3>6. TypeOK'
      BY <1>0, <2>2, <2>3, <2>5, <3>1 DEF TypeOK, ItemsAt
    <3> QED
      BY <2>4, <3>5, <3>6
  <2>8. CASE ~Inherited(e)
    <3>1. e = Own(k)
      BY <2>8, InheritedIsCopy, ListedIsStripped DEF Own
    <3>2. rec' = [rec EXCEPT !.stripped = @ \cup {k}]
      BY <1>3, <2>8 DEF Strip
    <3>3. rec \in RecordType /\ catalog \in CatalogType /\ committed \in CatalogType
      BY <1>0 DEF TypeOK
    <3>4. /\ rec'.stripped = rec.stripped \cup {k}
          /\ KeyPart(rec, {}, {}, FALSE, {})' /\ FkPart(rec, {}, {}, {})'
          /\ StatPart(rec, {}, {})' /\ TriggerPart(rec, FALSE, FALSE)'
          /\ rec' \in RecordType
      BY <1>0, <1>1, <3>2, <3>3 DEF RecordType, StripInv, KeyPart, FkPart, StatPart, TriggerPart
    <3>5. ToStrip' = ToStrip \ {k}
      BY <1>0, <1>1, <2>2, <2>6, <3>1 DEF ToStrip, Own
    <3>6. rec'.stripped = Stripped \ ToStrip'
      BY <1>0, <1>1, <3>4, <3>5 DEF StripInv
    <3>7. catalog'.con = catalog.con \ {k} /\ catalog'.idx = catalog.idx
      <4>1. CASE guarded /\ ~Has(present, e[2], k.name)
        <5>1. present \subseteq Con /\ present = committed.con
          BY <1>0, <4>1 DEF MarkInv, TypeOK
        <5>2. k \notin committed.con
          BY <1>1, <4>1, <5>1, HasIsIn
        <5>3. k \notin catalog.con
          BY <1>0, <5>2 DEF StripInv
        <5>4. UNCHANGED catalog
          BY <1>3, <2>8, <4>1 DEF Strip
        <5> QED
          BY <5>3, <5>4
      <4>2. CASE ~(guarded /\ ~Has(present, e[2], k.name))
        <5>1. catalog' = [catalog EXCEPT !.con = @ \ {k}]
          BY <1>3, <2>8, <4>2 DEF Strip
        <5> QED
          BY <3>3, <5>1 DEF CatalogType
      <4> QED
        BY <4>1, <4>2
    <3>8. catalog' \in CatalogType
      <4>1. catalog' = [catalog EXCEPT !.con = @ \ {k}] \/ catalog' = catalog
        BY <1>3, <2>8 DEF Strip
      <4> QED
        BY <3>3, <4>1 DEF CatalogType
    <3>9. StripInv'
      BY <1>0, <2>2, <3>4, <3>6, <3>7 DEF StripInv
    <3>10. PhaseInv'
      BY <1>0, <2>2, <3>9 DEF PhaseInv, KeyInv, FkInv, EndInv, VerdictInv
    <3>11. TypeOK'
      BY <1>0, <2>2, <2>3, <2>5, <3>4, <3>8 DEF TypeOK, ItemsAt
    <3> QED
      BY <2>4, <3>10, <3>11
  <2> QED
    BY <2>7, <2>8
<1> QED
  BY <1>2, <1>3

LEMMA EndStripStep ==
  ASSUME IInv, EndStrip
  PROVE  TypeOK' /\ MarkInv' /\ PhaseInv'
<1>0. /\ pc \in {"drop_fk", "drop_unique", "drop_pk"} /\ todo = {}
      /\ StripInv /\ MarkInv /\ TypeOK
      /\ UNCHANGED <<dump, catalog, committed, stop, rec, saved, marked, guarded,
                     present, report, outcome, faults>>
  BY DEF EndStrip, Loop, IInv, PhaseInv, store, durable, guard, verdict
<1>1. pc' \in {"drop_unique", "drop_pk", "commit"}
  BY DEF EndStrip, Loop
<1>2. MarkInv'
  BY <1>0, <1>1, MarkKept
<1>3. \A k \in Stripped : k.kind \in {"pk", "unique", "fk"}
  BY ConstraintsAssumption DEF Stripped, Con
<1>4. CASE pc = "drop_fk"
  <2>1. pc' = "drop_unique" /\ todo' = ListedOf("unique")
    BY <1>4 DEF EndStrip, Loop
  <2>2. \A k \in Stripped : k.kind = "unique" => Own(k) \in todo'
    BY <2>1, ListedIsStripped DEF ListedOf
  <2>3. ToStrip' = ToStrip
    BY <1>0, <1>3, <1>4, <2>1, <2>2 DEF ToStrip
  <2>4. StripInv'
    BY <1>0, <2>1, <2>3 DEF StripInv, KeyPart, FkPart, StatPart, TriggerPart
  <2>5. PhaseInv'
    BY <2>1, <2>4 DEF PhaseInv, KeyInv, FkInv, EndInv, VerdictInv
  <2>6. TypeOK'
    BY <1>0, <2>1 DEF TypeOK, ItemsAt, Pc
  <2> QED
    BY <1>2, <2>5, <2>6
<1>5. CASE pc = "drop_unique"
  <2>1. pc' = "drop_pk" /\ todo' = ListedOf("pk")
    BY <1>5 DEF EndStrip, Loop
  <2>2. \A k \in Stripped : k.kind = "pk" => Own(k) \in todo'
    BY <2>1, ListedIsStripped DEF ListedOf
  <2>3. ToStrip' = ToStrip
    BY <1>0, <1>3, <1>5, <2>1, <2>2 DEF ToStrip
  <2>4. StripInv'
    BY <1>0, <2>1, <2>3 DEF StripInv, KeyPart, FkPart, StatPart, TriggerPart
  <2>5. PhaseInv'
    BY <2>1, <2>4 DEF PhaseInv, KeyInv, FkInv, EndInv, VerdictInv
  <2>6. TypeOK'
    BY <1>0, <2>1 DEF TypeOK, ItemsAt, Pc
  <2> QED
    BY <1>2, <2>5, <2>6
<1>6. CASE pc = "drop_pk"
  <2>1. pc' = "commit" /\ todo' = {}
    BY <1>6 DEF EndStrip, Loop
  <2>2. ToStrip = {}
    BY <1>0, <1>6 DEF ToStrip
  <2>3. rec.stripped = Stripped /\ marked = "DEFINED"
    BY <1>0, <2>2 DEF StripInv
  <2>4. committed.con = Con \/ committed.con = Bare
    BY <1>0, <2>3, MarkAfterIs DEF MarkInv, CatalogAt
  <2>5. catalog.con = Bare /\ catalog.idx = {}
    BY <1>0, <2>3, <2>4 DEF StripInv, Bare
  <2>6. CatalogAt(catalog, MarkAfter[marked])'
    BY <1>0, <2>3, <2>5, MarkAfterIs DEF CatalogAt, WithKeys, Bare, Con, Stripped
  <2>7. RecordAt(rec, MarkAfter[marked])'
    BY <1>0, <2>3, MarkAfterIs
    DEF StripInv, RecordAt, KeyPart, FkPart, StatPart, TriggerPart, WithKeys, WithFks, WithStats
  <2>8. PhaseInv'
    BY <2>1, <2>6, <2>7 DEF PhaseInv, StripInv, KeyInv, FkInv, EndInv, VerdictInv
  <2>9. TypeOK'
    BY <1>0, <2>1 DEF TypeOK, ItemsAt, Pc
  <2> QED
    BY <1>2, <2>8, <2>9
<1> QED
  BY <1>0, <1>4, <1>5, <1>6

-----------------------------------------------------------------------------
(* A statement adds all its keys or none: they have one class, and no      *)
(* other statement has any of them.                                        *)
LEMMA StatementFacts ==
  ASSUME DumpOK, NEW s \in dump.keys
  PROVE  /\ s \subseteq Key
         /\ s \cap Stripped # {} => s \subseteq Stripped
         /\ s \cap dump.bad = {} => s \cap Stripped \subseteq Rebuilt
         /\ s \cap dump.bad # {} => s \cap Stripped \subseteq Pending
<1>1. s \subseteq Key
  BY DEF DumpOK
<1>2. s \cap Stripped # {} => s \subseteq Stripped
  BY <1>1 DEF DumpOK, Stripped, Con
<1>3. s \cap dump.bad = {} => s \cap Stripped \subseteq Rebuilt
  BY <1>1 DEF Rebuilt
<1>4. ASSUME s \cap dump.bad # {}, NEW k \in s \cap Stripped PROVE k \in Pending
  <2>1. ASSUME NEW t \in dump.keys, k \in t PROVE t = s
    BY <2>1 DEF DumpOK
  <2>2. k \notin Rebuilt
    BY <1>4, <2>1 DEF Rebuilt
  <2> QED
    BY <1>1, <2>2 DEF Pending
<1> QED
  BY <1>1, <1>2, <1>3, <1>4

LEMMA ChildrenUnion ==
  \A A, B : Children(A \cup B) = Children(A) \cup Children(B)
  BY DEF Children

LEMMA AddKeyStep ==
  ASSUME IInv, NEW s \in todo, AddKey(s)
  PROVE  TypeOK' /\ MarkInv' /\ PhaseInv'
<1> DEFINE keys == Targets(s)
           back == guarded /\ \A k \in keys : Has(present, k.cls, k.name)
           works == s \cap (catalog.con \cup dump.bad) = {}
           done == {k \in Rebuilt : Visits(k)}
           left == {k \in Pending : Visits(k)}
<1>0. /\ pc = "add_key" /\ KeyInv /\ MarkInv /\ TypeOK /\ DumpOK
      /\ todo' = todo \ {s}
      /\ UNCHANGED <<dump, committed, pc, saved, marked, guarded, present, report,
                     outcome, faults, stop>>
  BY DEF AddKey, Visited, IInv, PhaseInv, durable, guard, verdict
<1>1. /\ rec.stripped = Stripped /\ marked = "STRIPPED"
      /\ KeyPart(rec, done, left, FALSE, {})
      /\ FkPart(rec, {}, {}, {}) /\ StatPart(rec, {}, {}) /\ TriggerPart(rec, FALSE, FALSE)
      /\ catalog.con = committed.con \cup rec.rebuilt /\ catalog.idx = committed.idx
  BY <1>0 DEF KeyInv
<1>2. MarkInv'
  BY <1>0, MarkKept
<1>3. s \in dump.keys /\ todo \subseteq dump.keys
  BY <1>0 DEF TypeOK, ItemsAt
<1>4. keys = s \cap Stripped /\ keys \subseteq Key
  BY <1>0, <1>1, <1>3, StatementFacts DEF Targets
<1>5. \A k : Visits(k)' <=> Visits(k) \/ k \in s
  BY <1>0, <1>3 DEF Visits
<1>6. /\ rec \in RecordType /\ catalog \in CatalogType
      /\ s \subseteq Key /\ (keys # {} => s = keys)
  BY <1>0, <1>3, <1>4, StatementFacts DEF TypeOK
<1>7. committed.con = Bare \/ committed.con = Bare \cup Rebuilt
  BY <1>0, <1>1, MarkAfterIs DEF MarkInv, CatalogAt
<1>8. ~guarded => committed.con = Bare
  BY <1>0, <1>1 DEF MarkInv, CatalogAt
<1>9. guarded => present = committed.con /\ present \subseteq Con
  BY <1>0 DEF MarkInv, TypeOK
<1>10. \A k \in keys : guarded => (Has(present, k.cls, k.name) <=> k \in committed.con)
  <2> SUFFICES ASSUME NEW k \in keys, guarded
               PROVE  Has(present, k.cls, k.name) <=> k \in committed.con
    OBVIOUS
  <2>1. k \in Con /\ k.cls \in Family[k.cls]
    BY <1>4, ConstraintsAssumption DEF Con
  <2> QED
    BY <1>9, <2>1, HasIsIn
<1>11. s \cap done = {}
  BY <1>0, <1>3 DEF Visits, DumpOK
<1> DEFINE NewKeys ==
             KeyPart(rec, {k \in Rebuilt : Visits(k)}, {k \in Pending : Visits(k)}, FALSE, {})
<1>12. /\ NewKeys'
       /\ rec'.stripped = rec.stripped
       /\ FkPart(rec, {}, {}, {})' /\ StatPart(rec, {}, {})' /\ TriggerPart(rec, FALSE, FALSE)'
       /\ catalog'.con = committed.con \cup rec'.rebuilt /\ catalog'.idx = committed.idx
       /\ rec' \in RecordType /\ catalog' \in CatalogType
  <2>1. /\ Rebuilt' = Rebuilt /\ Pending' = Pending
    BY <1>0, Fixed
  <2>2. CASE keys = {}
    <3>1. UNCHANGED <<catalog, rec>>
      BY <2>2 DEF AddKey
    <3>2. \A k \in Stripped : k \notin s
      BY <1>4, <2>2
    <3>3. /\ {k \in Rebuilt' : Visits(k)'} = done
          /\ {k \in Pending' : Visits(k)'} = left
      BY <1>5, <2>1, <3>2, SetFacts
    <3> QED
      BY <1>1, <1>6, <3>1, <3>3 DEF KeyPart, FkPart, StatPart, TriggerPart
  <2>3. CASE keys # {} /\ s \cap dump.bad = {}
    <3>1. keys \subseteq Rebuilt
      BY <1>3, <1>4, <1>0, <2>3, StatementFacts
    <3>2. back \/ works
      <4> SUFFICES ASSUME ~works PROVE back
        OBVIOUS
      <4>1. PICK k \in s : k \in catalog.con
        BY <2>3
      <4>2. k \in committed.con /\ k \in Stripped
        BY <1>1, <1>4, <1>6, <1>11, <2>3, <4>1 DEF KeyPart
      <4>3. committed.con = Bare \cup Rebuilt /\ guarded
        BY <1>7, <1>8, <4>2, SetFacts
      <4> QED
        BY <1>10, <3>1, <4>3
    <3>3. rec' = [rec EXCEPT !.rebuilt = @ \cup keys]
      BY <2>3, <3>2 DEF AddKey
    <3>4. catalog' = catalog \/ catalog' = [catalog EXCEPT !.con = @ \cup s]
      BY <2>3 DEF AddKey
    <3>5. catalog'.con = catalog.con \cup keys /\ catalog'.idx = catalog.idx
      <4>1. CASE back
        <5>1. UNCHANGED catalog
          BY <2>3, <4>1 DEF AddKey
        <5>2. keys \subseteq committed.con
          BY <1>10, <4>1
        <5> QED
          BY <1>1, <5>1, <5>2
      <4>2. CASE ~back
        <5>1. catalog' = [catalog EXCEPT !.con = @ \cup s]
          BY <2>3, <3>2, <4>2 DEF AddKey
        <5> QED
          BY <1>6, <2>3, <5>1 DEF CatalogType
      <4> QED
        BY <4>1, <4>2
    <3>6. /\ {k \in Rebuilt' : Visits(k)'} = done \cup keys
          /\ {k \in Pending' : Visits(k)'} = left
      BY <1>5, <1>6, <2>1, <2>3, <3>1, SetFacts
    <3>7. /\ rec'.rebuilt = rec.rebuilt \cup keys /\ rec'.pending = rec.pending
          /\ rec'.held = rec.held /\ rec'.indexed = rec.indexed
          /\ rec'.failedIdx = rec.failedIdx /\ rec'.stripped = rec.stripped
          /\ FkPart(rec, {}, {}, {})' /\ StatPart(rec, {}, {})'
          /\ TriggerPart(rec, FALSE, FALSE)' /\ rec' \in RecordType
      BY <1>1, <1>4, <1>6, <3>3 DEF RecordType, FkPart, StatPart, TriggerPart
    <3>8. NewKeys'
      BY <1>1, <3>6, <3>7 DEF KeyPart
    <3>9. catalog' \in CatalogType
      BY <1>6, <3>4 DEF CatalogType, Con
    <3> QED
      BY <1>1, <3>5, <3>7, <3>8, <3>9
  <2>4. CASE keys # {} /\ s \cap dump.bad # {}
    <3>1. keys \subseteq Pending
      BY <1>3, <1>4, <1>0, <2>4, StatementFacts
    <3>2. ~works
      BY <2>4
    <3>3. ~back
      <4> SUFFICES ASSUME back PROVE FALSE
        OBVIOUS
      <4>1. PICK k \in keys : k \in committed.con
        BY <1>10, <2>4
      <4> QED
        BY <1>4, <1>7, <3>1, <4>1, SetFacts
    <3>4. /\ rec' = [rec EXCEPT !.pending = @ \cup keys, !.held = @ \cup Children(keys)]
          /\ UNCHANGED catalog
      BY <2>4, <3>2, <3>3 DEF AddKey
    <3>5. /\ {k \in Rebuilt' : Visits(k)'} = done
          /\ {k \in Pending' : Visits(k)'} = left \cup keys
      BY <1>5, <1>6, <2>1, <2>4, <3>1, SetFacts
    <3>6. Children(keys) \subseteq Edge
      BY DEF Children
    <3>7. /\ rec'.rebuilt = rec.rebuilt /\ rec'.pending = rec.pending \cup keys
          /\ rec'.held = rec.held \cup Children(keys) /\ rec'.indexed = rec.indexed
          /\ rec'.failedIdx = rec.failedIdx /\ rec'.stripped = rec.stripped
          /\ FkPart(rec, {}, {}, {})' /\ StatPart(rec, {}, {})'
          /\ TriggerPart(rec, FALSE, FALSE)' /\ rec' \in RecordType
      BY <1>1, <1>4, <1>6, <3>4, <3>6 DEF RecordType, FkPart, StatPart, TriggerPart
    <3>8. NewKeys'
      BY <1>1, <3>5, <3>7, ChildrenUnion DEF KeyPart
    <3> QED
      BY <1>1, <1>6, <3>4, <3>7, <3>8
  <2> QED
    BY <2>2, <2>3, <2>4
<1>13. KeyInv'
  BY <1>0, <1>1, <1>12 DEF KeyInv, Stripped, Con
<1>14. PhaseInv'
  BY <1>0, <1>13 DEF PhaseInv, StripInv, FkInv, EndInv, VerdictInv
<1>15. TypeOK'
  BY <1>0, <1>12 DEF TypeOK, ItemsAt
<1> QED
  BY <1>2, <1>14, <1>15

LEMMA EndKeysStep ==
  ASSUME IInv, Loop("add_key", "index", {})
  PROVE  TypeOK' /\ MarkInv' /\ PhaseInv'
<1>0. /\ pc = "add_key" /\ pc' = "index" /\ todo = {} /\ todo' = {}
      /\ KeyInv /\ MarkInv /\ TypeOK
      /\ UNCHANGED <<dump, catalog, committed, stop, rec, saved, marked, guarded,
                     present, report, outcome, faults>>
  BY DEF Loop, IInv, PhaseInv, store, durable, guard, verdict
<1>1. MarkInv'
  BY <1>0, MarkKept
<1>2. /\ {k \in Rebuilt : Visits(k)}' = {k \in Rebuilt : Visits(k)}
      /\ {k \in Pending : Visits(k)}' = {k \in Pending : Visits(k)}
  BY <1>0, Fixed DEF Visits
<1>3. KeyInv'
  BY <1>0, <1>2 DEF KeyInv, KeyPart, FkPart, StatPart, TriggerPart
<1>4. PhaseInv'
  BY <1>0, <1>3 DEF PhaseInv, StripInv, FkInv, EndInv, VerdictInv
<1>5. TypeOK'
  BY <1>0 DEF TypeOK, ItemsAt, Pc
<1> QED
  BY <1>1, <1>4, <1>5

LEMMA BuildIndexesStep ==
  ASSUME IInv, BuildIndexes
  PROVE  TypeOK' /\ MarkInv' /\ PhaseInv'
<1> DEFINE built == Index \ dump.bad
<1>0. /\ pc = "index" /\ pc' = "account_key"
      /\ KeyInv /\ MarkInv /\ TypeOK
      /\ UNCHANGED <<dump, committed, todo, stop, saved, marked, guarded, present,
                     report, outcome, faults>>
      /\ catalog' = [catalog EXCEPT !.idx = @ \cup built]
      /\ rec' = [rec EXCEPT !.indexed = TRUE, !.failedIdx = Index \ built]
  BY DEF BuildIndexes, IInv, PhaseInv, durable, guard, verdict
<1>1. MarkInv'
  BY <1>0, MarkKept
<1>2. /\ {k \in Rebuilt : Visits(k)}' = {k \in Rebuilt : Visits(k)}
      /\ {k \in Pending : Visits(k)}' = {k \in Pending : Visits(k)}
  BY <1>0, Fixed DEF Visits
<1>3. rec \in RecordType /\ catalog \in CatalogType
  BY <1>0 DEF TypeOK
<1>4. committed.idx = {} \/ committed.idx = built
  BY <1>0, MarkAfterIs DEF MarkInv, CatalogAt, KeyInv, WithKeys
<1>5. catalog'.con = catalog.con /\ catalog'.idx = built /\ catalog' \in CatalogType
  BY <1>0, <1>3, <1>4 DEF CatalogType, KeyInv
<1>6. /\ rec'.stripped = rec.stripped /\ rec'.rebuilt = rec.rebuilt
      /\ rec'.pending = rec.pending /\ rec'.held = rec.held
      /\ rec'.indexed = TRUE /\ rec'.failedIdx = Index \cap dump.bad
      /\ FkPart(rec, {}, {}, {})' /\ StatPart(rec, {}, {})'
      /\ TriggerPart(rec, FALSE, FALSE)' /\ rec' \in RecordType
  BY <1>0, <1>3 DEF RecordType, KeyInv, FkPart, StatPart, TriggerPart
<1>7. KeyInv'
  BY <1>0, <1>2, <1>5, <1>6 DEF KeyInv, KeyPart
<1>8. PhaseInv'
  BY <1>0, <1>7 DEF PhaseInv, StripInv, FkInv, EndInv, VerdictInv
<1>9. TypeOK'
  BY <1>0, <1>5, <1>6 DEF TypeOK, ItemsAt, Pc
<1> QED
  BY <1>1, <1>8, <1>9

LEMMA AccountKeysStep ==
  ASSUME IInv, AccountKeys
  PROVE  TypeOK' /\ MarkInv' /\ PhaseInv'
<1> DEFINE lost == (rec.stripped \cap Key) \ (rec.rebuilt \cup rec.pending)
<1>0. /\ pc = "account_key" /\ pc' = "commit" /\ todo = {}
      /\ KeyInv /\ MarkInv /\ TypeOK
      /\ UNCHANGED <<dump, catalog, committed, todo, stop, saved, marked, guarded,
                     present, report, outcome, faults>>
      /\ rec' = [rec EXCEPT !.pending = @ \cup lost, !.held = @ \cup Children(lost)]
  BY DEF AccountKeys, IInv, PhaseInv, KeyInv, store, durable, guard, verdict
<1>1. MarkInv'
  BY <1>0, MarkKept
<1>2. rec \in RecordType
  BY <1>0 DEF TypeOK
<1>3. /\ marked = "STRIPPED" /\ rec.stripped = Stripped
      /\ KeyPart(rec, {k \in Rebuilt : Visits(k)}, {k \in Pending : Visits(k)},
                 TRUE, Index \cap dump.bad)
      /\ FkPart(rec, {}, {}, {}) /\ StatPart(rec, {}, {}) /\ TriggerPart(rec, FALSE, FALSE)
      /\ catalog.con = committed.con \cup rec.rebuilt /\ catalog.idx = Index \ dump.bad
  BY <1>0 DEF KeyInv
<1>4. {k \in Rebuilt : Visits(k)} = Rebuilt
  BY <1>0 DEF Rebuilt, Visits
<1>5. rec.rebuilt = Rebuilt /\ rec.pending \cup lost = Pending
  BY <1>3, <1>4, SetFacts DEF KeyPart
<1>6. rec.held \cup Children(lost) = Children(Pending)
  BY <1>3, <1>5, ChildrenUnion DEF KeyPart
<1>7. Children(lost) \subseteq Edge /\ lost \subseteq Key
  BY DEF Children
<1>8. /\ rec'.stripped = Stripped
      /\ KeyPart(rec', Rebuilt, Pending, TRUE, Index \cap dump.bad)
      /\ FkPart(rec', {}, {}, {}) /\ StatPart(rec', {}, {}) /\ TriggerPart(rec', FALSE, FALSE)
      /\ rec' \in RecordType
  BY <1>0, <1>2, <1>3, <1>5, <1>6, <1>7 DEF RecordType, KeyPart, FkPart, StatPart, TriggerPart
<1>9. RecordAt(rec, MarkAfter[marked])'
  BY <1>0, <1>3, <1>8, MarkAfterIs, Fixed
  DEF RecordAt, KeyPart, FkPart, StatPart, TriggerPart, WithKeys, WithFks, WithStats
<1>10. committed.con = Bare \/ committed.con = Bare \cup Rebuilt
  BY <1>0, <1>3, MarkAfterIs DEF MarkInv, CatalogAt
<1>11. CatalogAt(catalog, MarkAfter[marked])'
  BY <1>0, <1>3, <1>5, <1>10, MarkAfterIs, Fixed DEF CatalogAt, WithKeys
<1>12. PhaseInv'
  BY <1>0, <1>9, <1>11 DEF PhaseInv, StripInv, KeyInv, FkInv, EndInv, VerdictInv
<1>13. TypeOK'
  BY <1>0, <1>8 DEF TypeOK, ItemsAt, Pc
<1> QED
  BY <1>1, <1>12, <1>13

-----------------------------------------------------------------------------
(* The edge that comes next is held back exactly if it would be in a run   *)
(* through all of them: held by a missing key, or behind a rejected one.   *)
LEMMA NextEdge ==
  ASSUME DumpOK, FkInv, TypeOK, pc = "add_fk", NEW f \in todo, First(f)
  PROVE  /\ f \in dump.fks /\ f \in Fk /\ todo \subseteq dump.fks
         /\ HeldBack(f) <=> f \in Children(Pending) \/ StoppedAt(f)
<1>1. todo \subseteq dump.fks /\ dump.fks \subseteq Fk
  BY DEF TypeOK, ItemsAt, DumpOK
<1>2. stop <=> StoppedAt(f)
  <2>1. stop <=> ~dump.cont /\ \E g \in Rejectable : g \notin todo
    BY DEF FkInv
  <2>2. ASSUME NEW g \in Rejectable
        PROVE  g \notin todo <=> dump.rank[g] < dump.rank[f]
    <3>1. g \in dump.fks /\ g \in Fk /\ f \in Fk
      BY <1>1 DEF Rejectable
    <3>2. dump.rank[g] \in Nat /\ dump.rank[f] \in Nat
      BY <3>1 DEF DumpOK
    <3>3. g \notin todo => dump.rank[g] < dump.rank[f]
      BY <3>1 DEF FkInv
    <3>4. g \in todo => dump.rank[f] <= dump.rank[g]
      BY DEF First
    <3> QED
      BY <3>2, <3>3, <3>4
  <2> QED
    BY <2>1, <2>2 DEF StoppedAt
<1> QED
  BY <1>1, <1>2 DEF HeldBack, FkInv, KeyPart

(* Taking the edge away from what is to do keeps the order of the rest.    *)
LEMMA StillOrdered ==
  ASSUME DumpOK, FkInv, TypeOK, pc = "add_fk", NEW f \in todo, First(f),
         todo' = todo \ {f}, dump' = dump
  PROVE  \A g \in dump'.fks \ todo', h \in todo' : dump'.rank[g] < dump'.rank[h]
<1>1. todo \subseteq dump.fks /\ dump.fks \subseteq Fk
  BY DEF TypeOK, ItemsAt, DumpOK
<1>2. ASSUME NEW h \in todo, h # f PROVE dump.rank[f] < dump.rank[h]
  <2>1. dump.rank[f] \in Nat /\ dump.rank[h] \in Nat /\ dump.rank[f] # dump.rank[h]
    BY <1>1, <1>2 DEF DumpOK
  <2> QED
    BY <2>1 DEF First
<1> QED
  BY <1>1, <1>2 DEF FkInv

LEMMA AddFkStep ==
  ASSUME IInv, NEW f \in Fk, AddFk(f)
  PROVE  TypeOK' /\ MarkInv' /\ PhaseInv'
<1>0. /\ pc = "add_fk" /\ f \in todo /\ First(f)
      /\ FkInv /\ MarkInv /\ TypeOK /\ DumpOK
  BY DEF AddFk, IInv, PhaseInv
<1>1. CASE Abort
  BY <1>0, <1>1, AbortStep
<1>2. CASE ~Abort
  <2>1. /\ todo' = todo \ {f}
        /\ UNCHANGED <<dump, committed, pc, saved, marked, guarded, present, report,
                       outcome, faults>>
    BY <1>2 DEF AddFk, Visited, durable, guard, verdict
  <2>2. MarkInv'
    BY <1>0, <2>1, MarkKept
  <2>3. /\ marked = "REBUILT" /\ rec.stripped = Stripped
        /\ stop <=> ~dump.cont /\ \E g \in Rejectable : g \notin todo
        /\ KeyPart(rec, Rebuilt, Pending, TRUE, Index \cap dump.bad)
        /\ FkPart(rec, Defined \ todo, Violated \ todo,
                  ((Edge \cap dump.fks) \ Defined) \ todo)
        /\ StatPart(rec, {}, {}) /\ TriggerPart(rec, FALSE, FALSE)
        /\ catalog.con = committed.con \cup rec.defined /\ catalog.idx = committed.idx
    BY <1>0 DEF FkInv
  <2>4. rec \in RecordType /\ catalog \in CatalogType /\ stop \in BOOLEAN
    BY <1>0 DEF TypeOK
  <2>5. /\ f \in dump.fks /\ todo \subseteq dump.fks
        /\ HeldBack(f) <=> f \in Children(Pending) \/ StoppedAt(f)
    BY <1>0, NextEdge
  <2>6. \A g \in dump'.fks \ todo', h \in todo' : dump'.rank[g] < dump'.rank[h]
    BY <1>0, <2>1, StillOrdered
  <2>7. f \in Defined <=> f \in Edge /\ ~HeldBack(f) /\ f \notin dump.bad
    BY <2>5 DEF Defined
  <2>8. f \in Violated <=> f \in Edge /\ ~HeldBack(f) /\ f \in dump.bad
    BY <2>5 DEF Violated, Rejectable
  <2>9. f \in Rejectable /\ ~f \in Violated => stop /\ ~dump.cont
    <3>1. SUFFICES ASSUME f \in Rejectable, f \notin Violated PROVE stop /\ ~dump.cont
      OBVIOUS
    <3>2. StoppedAt(f) /\ f \notin Children(Pending)
      BY <3>1 DEF Violated, Rejectable
    <3>3. f \notin rec.held
      BY <2>3, <3>2 DEF KeyPart
    <3> QED
      BY <2>5, <3>2, <3>3 DEF HeldBack, StoppedAt
  <2>10. committed.con = Bare \cup Rebuilt \/ committed.con = (Bare \cup Rebuilt) \cup Defined
    BY <1>0, <2>3, MarkAfterIs DEF MarkInv, CatalogAt
  <2>11. f \in Edge => f \notin Bare \cup Rebuilt
    BY SetFacts, KindsApart
  <2> DEFINE Accrued ==
               /\ FkPart(rec, Defined \ todo, Violated \ todo,
                         ((Edge \cap dump.fks) \ Defined) \ todo)
               /\ (stop <=> ~dump.cont /\ \E g \in Rejectable : g \notin todo)
               /\ catalog.con = committed.con \cup rec.defined
  <2> DEFINE Kept ==
               /\ rec'.stripped = rec.stripped
               /\ KeyPart(rec', Rebuilt, Pending, TRUE, Index \cap dump.bad)
               /\ StatPart(rec', {}, {}) /\ TriggerPart(rec', FALSE, FALSE)
               /\ catalog'.idx = catalog.idx
               /\ rec' \in RecordType /\ catalog' \in CatalogType /\ stop' \in BOOLEAN
  <2>12. /\ Rejectable' = Rejectable /\ Violated' = Violated /\ Defined' = Defined
         /\ Rebuilt' = Rebuilt /\ Pending' = Pending
    BY <2>1, Fixed
  <2>13. Accrued' /\ Kept
    <3>1. CASE f \notin Edge
      <4>1. UNCHANGED <<catalog, rec, stop>>
        BY <1>2, <3>1 DEF AddFk
      <4>2. f \notin Defined /\ f \notin Violated /\ f \notin Rejectable
        BY <3>1 DEF Defined, Violated, Rejectable
      <4>3. Accrued'
        BY <2>1, <2>3, <2>12, <3>1, <4>1, <4>2 DEF FkPart
      <4> QED
        BY <2>3, <2>4, <4>1, <4>3 DEF KeyPart, StatPart, TriggerPart
    <3>2. CASE f \in Edge /\ HeldBack(f)
      <4>1. rec' = [rec EXCEPT !.withheld = @ \cup {f}] /\ UNCHANGED <<catalog, stop>>
        BY <1>2, <3>2 DEF AddFk
      <4>2. f \notin Defined /\ f \notin Violated
        BY <2>7, <2>8, <3>2
      <4>3. /\ rec'.defined = rec.defined /\ rec'.violated = rec.violated
            /\ rec'.withheld = rec.withheld \cup {f} /\ Kept
        BY <2>3, <2>4, <3>2, <4>1 DEF RecordType, KeyPart, StatPart, TriggerPart
      <4>4. FkPart(rec, Defined \ todo, Violated \ todo,
                   ((Edge \cap dump.fks) \ Defined) \ todo)'
        BY <2>1, <2>3, <2>5, <2>12, <3>2, <4>2, <4>3 DEF FkPart
      <4>5. (stop <=> ~dump.cont /\ \E g \in Rejectable : g \notin todo)'
        BY <2>1, <2>3, <2>9, <2>12, <4>1, <4>2
      <4> QED
        BY <2>1, <2>3, <4>1, <4>3, <4>4, <4>5
    <3>3. CASE f \in Edge /\ ~HeldBack(f) /\ guarded /\ Has(present, f.cls, f.name)
      <4>1. rec' = [rec EXCEPT !.defined = @ \cup {f}] /\ UNCHANGED <<catalog, stop>>
        BY <1>2, <3>3 DEF AddFk
      <4>2. f \in Con /\ f.cls \in Family[f.cls]
        BY ConstraintsAssumption DEF Con
      <4>3. present = committed.con /\ present \subseteq Con
        BY <1>0, <3>3 DEF MarkInv, TypeOK
      <4>4. f \in committed.con
        BY <3>3, <4>2, <4>3, HasIsIn
      <4>5. f \in Defined
        BY <2>10, <2>11, <3>3, <4>4
      <4>6. f \notin Violated /\ f \notin Rejectable
        BY <4>5 DEF Defined, Violated, Rejectable
      <4>7. /\ rec'.defined = rec.defined \cup {f} /\ rec'.violated = rec.violated
            /\ rec'.withheld = rec.withheld /\ Kept
        BY <2>3, <2>4, <3>3, <4>1 DEF RecordType, KeyPart, StatPart, TriggerPart
      <4>8. FkPart(rec, Defined \ todo, Violated \ todo,
                   ((Edge \cap dump.fks) \ Defined) \ todo)'
        BY <2>1, <2>3, <2>5, <2>12, <3>3, <4>5, <4>6, <4>7 DEF FkPart
      <4>9. (stop <=> ~dump.cont /\ \E g \in Rejectable : g \notin todo)'
        BY <2>1, <2>3, <2>12, <4>1, <4>6
      <4> QED
        BY <2>1, <2>3, <4>1, <4>4, <4>7, <4>8, <4>9
    <3>4. CASE /\ f \in Edge /\ ~HeldBack(f)
               /\ ~(guarded /\ Has(present, f.cls, f.name)) /\ f \in dump.bad
      <4>1. /\ rec' = [rec EXCEPT !.violated = @ \cup {f}, !.withheld = @ \cup {f}]
            /\ stop' = ~dump.cont /\ UNCHANGED catalog
        BY <1>2, <3>4 DEF AddFk
      <4>2. f \notin Defined /\ f \in Violated /\ f \in Rejectable
        BY <2>7, <2>8, <3>4 DEF Violated
      <4>3. /\ rec'.defined = rec.defined /\ rec'.violated = rec.violated \cup {f}
            /\ rec'.withheld = rec.withheld \cup {f} /\ Kept
        <5>1. stop' \in BOOLEAN
          BY <1>0, <4>1 DEF DumpOK
        <5>2. rec' \in RecordType
          BY <2>4, <3>4, <4>1 DEF RecordType
        <5>3. /\ rec'.defined = rec.defined /\ rec'.violated = rec.violated \cup {f}
              /\ rec'.withheld = rec.withheld \cup {f}
              /\ rec'.stripped = rec.stripped
          BY <2>4, <4>1 DEF RecordType
        <5>4. /\ rec'.rebuilt = rec.rebuilt /\ rec'.pending = rec.pending
              /\ rec'.held = rec.held /\ rec'.indexed = rec.indexed
              /\ rec'.failedIdx = rec.failedIdx
          BY <2>4, <4>1 DEF RecordType
        <5>5. /\ rec'.analyzed = rec.analyzed /\ rec'.statFail = rec.statFail
              /\ rec'.triggers = rec.triggers /\ rec'.trigFail = rec.trigFail
          BY <2>4, <4>1 DEF RecordType
        <5> QED
          BY <2>3, <2>4, <4>1, <5>1, <5>2, <5>3, <5>4, <5>5 DEF KeyPart, StatPart, TriggerPart
      <4>4. FkPart(rec, Defined \ todo, Violated \ todo,
                   ((Edge \cap dump.fks) \ Defined) \ todo)'
        BY <2>1, <2>3, <2>5, <2>12, <3>4, <4>2, <4>3 DEF FkPart
      <4>5. (stop <=> ~dump.cont /\ \E g \in Rejectable : g \notin todo)'
        BY <2>1, <2>12, <4>1, <4>2
      <4> QED
        BY <2>1, <2>3, <4>1, <4>3, <4>4, <4>5
    <3>5. CASE /\ f \in Edge /\ ~HeldBack(f)
               /\ ~(guarded /\ Has(present, f.cls, f.name)) /\ f \notin dump.bad
      <4>1. /\ catalog' = [catalog EXCEPT !.con = @ \cup {f}]
            /\ rec' = [rec EXCEPT !.defined = @ \cup {f}]
            /\ UNCHANGED stop
        BY <1>2, <3>5 DEF AddFk
      <4>2. f \in Defined /\ f \notin Violated /\ f \notin Rejectable
        BY <2>7, <2>8, <3>5 DEF Rejectable
      <4>3. /\ rec'.defined = rec.defined \cup {f} /\ rec'.violated = rec.violated
            /\ rec'.withheld = rec.withheld
            /\ catalog'.con = catalog.con \cup {f} /\ Kept
        BY <2>3, <2>4, <3>5, <4>1 DEF RecordType, CatalogType, Con, KeyPart, StatPart, TriggerPart
      <4>4. FkPart(rec, Defined \ todo, Violated \ todo,
                   ((Edge \cap dump.fks) \ Defined) \ todo)'
        BY <2>1, <2>3, <2>5, <2>12, <3>5, <4>2, <4>3 DEF FkPart
      <4>5. (stop <=> ~dump.cont /\ \E g \in Rejectable : g \notin todo)'
        BY <2>1, <2>3, <2>12, <4>1, <4>2
      <4> QED
        BY <2>1, <2>3, <4>3, <4>4, <4>5
    <3> QED
      BY <3>1, <3>2, <3>3, <3>4, <3>5
  <2>14. FkInv'
    <3>1. KeyPart(rec, Rebuilt, Pending, TRUE, Index \cap dump.bad)'
      BY <2>1, <2>12, <2>13 DEF KeyPart
    <3>2. StatPart(rec, {}, {})' /\ TriggerPart(rec, FALSE, FALSE)'
      BY <2>13 DEF StatPart, TriggerPart
    <3> QED
      BY <1>0, <2>1, <2>3, <2>6, <2>13, <3>1, <3>2 DEF FkInv, Stripped, Con
  <2>15. PhaseInv'
    BY <1>0, <2>1, <2>14 DEF PhaseInv, StripInv, KeyInv, EndInv, VerdictInv
  <2>16. TypeOK'
    BY <1>0, <2>1, <2>13 DEF TypeOK, ItemsAt
  <2> QED
    BY <2>2, <2>15, <2>16
<1> QED
  BY <1>1, <1>2

LEMMA AccountFksStep ==
  ASSUME IInv, AccountFks
  PROVE  TypeOK' /\ MarkInv' /\ PhaseInv'
<1> DEFINE lost == Edge \ (rec.defined \cup rec.withheld)
<1>0. /\ pc = "add_fk" /\ pc' = "commit" /\ todo = {}
      /\ FkInv /\ MarkInv /\ TypeOK
      /\ UNCHANGED <<dump, catalog, committed, todo, stop, saved, marked, guarded,
                     present, report, outcome, faults>>
      /\ rec' = [rec EXCEPT !.withheld = @ \cup lost]
  BY DEF AccountFks, IInv, PhaseInv, store, durable, guard, verdict
<1>1. MarkInv'
  BY <1>0, MarkKept
<1>2. rec \in RecordType
  BY <1>0 DEF TypeOK
<1>3. /\ marked = "REBUILT" /\ rec.stripped = Stripped
      /\ KeyPart(rec, Rebuilt, Pending, TRUE, Index \cap dump.bad)
      /\ FkPart(rec, Defined, Violated, (Edge \cap dump.fks) \ Defined)
      /\ StatPart(rec, {}, {}) /\ TriggerPart(rec, FALSE, FALSE)
      /\ catalog.con = committed.con \cup rec.defined /\ catalog.idx = committed.idx
  BY <1>0 DEF FkInv, FkPart
<1>4. rec.withheld \cup lost = Edge \ Defined
  BY <1>3 DEF FkPart
<1>5. /\ rec'.stripped = Stripped
      /\ KeyPart(rec', Rebuilt, Pending, TRUE, Index \cap dump.bad)
      /\ FkPart(rec', Defined, Violated, Edge \ Defined)
      /\ StatPart(rec', {}, {}) /\ TriggerPart(rec', FALSE, FALSE)
      /\ rec' \in RecordType
  BY <1>0, <1>2, <1>3, <1>4 DEF RecordType, KeyPart, FkPart, StatPart, TriggerPart
<1>6. RecordAt(rec, MarkAfter[marked])'
  BY <1>0, <1>3, <1>5, MarkAfterIs, Fixed
  DEF RecordAt, KeyPart, FkPart, StatPart, TriggerPart, WithKeys, WithFks, WithStats
<1>7. committed.con = Bare \cup Rebuilt \/ committed.con = (Bare \cup Rebuilt) \cup Defined
  BY <1>0, <1>3, MarkAfterIs DEF MarkInv, CatalogAt
<1>8. committed.idx = Index \ dump.bad
  BY <1>0, <1>3, MarkAfterIs DEF MarkInv, CatalogAt, WithKeys
<1>9. CatalogAt(catalog, MarkAfter[marked])'
  BY <1>0, <1>3, <1>7, <1>8, MarkAfterIs, Fixed DEF CatalogAt, WithKeys, FkPart
<1>10. PhaseInv'
  BY <1>0, <1>6, <1>9 DEF PhaseInv, StripInv, KeyInv, FkInv, EndInv, VerdictInv
<1>11. TypeOK'
  BY <1>0, <1>5 DEF TypeOK, ItemsAt, Pc
<1> QED
  BY <1>1, <1>10, <1>11

(* The catalog is the same from FK_DEFINED on.                             *)
LEMMA LateCatalog ==
  ASSUME NEW cat, NEW m \in WithFks, NEW n \in WithFks
  PROVE  CatalogAt(cat, m) <=> CatalogAt(cat, n)
  BY DEF CatalogAt, WithFks, WithKeys

LEMMA StatsStep ==
  ASSUME IInv, Stats
  PROVE  TypeOK' /\ MarkInv' /\ PhaseInv'
<1>0. /\ pc = "stats" /\ pc' = "commit" /\ marked = "FK_DEFINED" /\ catalog = committed
      /\ RecordAt(rec, marked) /\ MarkInv /\ TypeOK
      /\ UNCHANGED <<dump, catalog, committed, todo, stop, saved, marked, guarded,
                     present, report, outcome, faults>>
      /\ rec' = [rec EXCEPT !.analyzed = Node, !.statFail = Node \cap dump.bad]
  BY DEF Stats, IInv, PhaseInv, EndInv, store, durable, guard, verdict
<1>1. MarkInv'
  BY <1>0, MarkKept
<1>2. rec \in RecordType
  BY <1>0 DEF TypeOK
<1>3. /\ rec'.stripped = rec.stripped /\ rec'.rebuilt = rec.rebuilt
      /\ rec'.pending = rec.pending /\ rec'.held = rec.held
      /\ rec'.indexed = rec.indexed /\ rec'.failedIdx = rec.failedIdx
  BY <1>0, <1>2 DEF RecordType
<1>4. /\ rec'.defined = rec.defined /\ rec'.violated = rec.violated
      /\ rec'.withheld = rec.withheld
      /\ rec'.triggers = rec.triggers /\ rec'.trigFail = rec.trigFail
  BY <1>0, <1>2 DEF RecordType
<1>5. /\ rec'.analyzed = Node /\ rec'.statFail = Node \cap dump.bad
      /\ rec' \in RecordType
  BY <1>0, <1>2 DEF RecordType
<1>6. RecordAt(rec, MarkAfter[marked])'
  BY <1>0, <1>3, <1>4, <1>5, MarkAfterIs, Fixed
  DEF RecordAt, KeyPart, FkPart, StatPart, TriggerPart, WithKeys, WithFks, WithStats
<1>7. CatalogAt(catalog, "STATS_UPDATED")
  BY <1>0, LateCatalog, MarkAfterIs DEF MarkInv, WithFks
<1>8. CatalogAt(catalog, MarkAfter[marked])'
  BY <1>0, <1>7, MarkAfterIs, Fixed DEF CatalogAt
<1>9. PhaseInv'
  BY <1>0, <1>6, <1>8 DEF PhaseInv, StripInv, KeyInv, FkInv, EndInv, VerdictInv
<1>10. TypeOK'
  BY <1>0, <1>5 DEF TypeOK, ItemsAt, Pc
<1> QED
  BY <1>1, <1>9, <1>10

LEMMA TriggersStep ==
  ASSUME IInv, Triggers
  PROVE  TypeOK' /\ MarkInv' /\ PhaseInv'
<1>0. /\ pc = "trigger" /\ pc' = "commit" /\ marked = "STATS_UPDATED" /\ catalog = committed
      /\ RecordAt(rec, marked) /\ MarkInv /\ TypeOK /\ DumpOK
      /\ UNCHANGED <<dump, catalog, committed, todo, stop, saved, marked, guarded,
                     present, report, outcome, faults>>
      /\ rec' = [rec EXCEPT !.triggers = TRUE, !.trigFail = ~dump.trig]
  BY DEF Triggers, IInv, PhaseInv, EndInv, store, durable, guard, verdict
<1>1. MarkInv'
  BY <1>0, MarkKept
<1>2. rec \in RecordType /\ (~dump.trig) \in BOOLEAN
  BY <1>0 DEF TypeOK
<1>3. /\ rec'.stripped = rec.stripped /\ rec'.rebuilt = rec.rebuilt
      /\ rec'.pending = rec.pending /\ rec'.held = rec.held
      /\ rec'.indexed = rec.indexed /\ rec'.failedIdx = rec.failedIdx
  BY <1>0, <1>2 DEF RecordType
<1>4. /\ rec'.defined = rec.defined /\ rec'.violated = rec.violated
      /\ rec'.withheld = rec.withheld
      /\ rec'.analyzed = rec.analyzed /\ rec'.statFail = rec.statFail
  BY <1>0, <1>2 DEF RecordType
<1>5. /\ rec'.triggers = TRUE /\ rec'.trigFail = ~dump.trig
      /\ rec' \in RecordType
  BY <1>0, <1>2 DEF RecordType
<1>6. RecordAt(rec, MarkAfter[marked])'
  BY <1>0, <1>3, <1>4, <1>5, MarkAfterIs, Fixed
  DEF RecordAt, KeyPart, FkPart, StatPart, TriggerPart, WithKeys, WithFks, WithStats
<1>7. CatalogAt(catalog, "DONE")
  BY <1>0, LateCatalog, MarkAfterIs DEF MarkInv, WithFks
<1>8. CatalogAt(catalog, MarkAfter[marked])'
  BY <1>0, <1>7, MarkAfterIs, Fixed DEF CatalogAt
<1>9. PhaseInv'
  BY <1>0, <1>6, <1>8 DEF PhaseInv, StripInv, KeyInv, FkInv, EndInv, VerdictInv
<1>10. TypeOK'
  BY <1>0, <1>5 DEF TypeOK, ItemsAt, Pc
<1> QED
  BY <1>1, <1>9, <1>10

-----------------------------------------------------------------------------
(* A record, or a catalog, that is as it should be stays so.               *)
LEMMA RecordStays ==
  ASSUME dump' = dump, NEW r, NEW m
  PROVE  RecordAt(r, m) =>
           /\ saved' = r /\ marked' = m => RecordAt(saved, marked)'
           /\ rec' = r => /\ marked' = m => RecordAt(rec, marked)'
                          /\ m = "DONE" => RecordAt(rec, "DONE")'
                          /\ MarkAfter[marked'] = m => RecordAt(rec, MarkAfter[marked])'
  BY Fixed DEF RecordAt, KeyPart, FkPart, StatPart, TriggerPart

LEMMA CatalogStays ==
  ASSUME dump' = dump, NEW cat, NEW m
  PROVE  CatalogAt(cat, m) /\ committed' = cat =>
           /\ marked' = m => CatalogAt(committed, marked)'
           /\ MarkAfter[marked'] = m => CatalogAt(committed, MarkAfter[marked])'
  BY Fixed DEF CatalogAt

LEMMA CommitStep ==
  ASSUME IInv, Commit
  PROVE  TypeOK' /\ MarkInv' /\ PhaseInv'
<1>0. /\ pc = "commit" /\ MarkInv /\ TypeOK
      /\ pc' = IF marked = "STATS_UPDATED" THEN "verify" ELSE "mark"
      /\ committed' = catalog
      /\ RecordAt(rec, MarkAfter[marked]) /\ CatalogAt(catalog, MarkAfter[marked])
      /\ UNCHANGED <<dump, catalog, todo, stop, rec, saved, marked, guarded, present,
                     report, outcome, faults>>
  BY DEF Commit, IInv, PhaseInv, EndInv, durable, guard, verdict
<1>1. marked # "DONE" /\ RecordAt(saved, marked)
  BY <1>0 DEF MarkInv
<1>2. RecordAt(saved, marked)'
  BY <1>0, <1>1, RecordStays
<1>3. CatalogAt(committed, MarkAfter[marked])'
  BY <1>0, CatalogStays
<1>4. RecordAt(rec, MarkAfter[marked])'
  BY <1>0, RecordStays
<1>5. CASE marked = "STATS_UPDATED"
  <2>1. CatalogAt(catalog, marked)
    BY <1>0, <1>5, LateCatalog, MarkAfterIs DEF WithFks
  <2>2. CatalogAt(committed, marked)'
    BY <1>0, <2>1, CatalogStays
  <2>3. RecordAt(rec, "DONE")'
    BY <1>0, <1>5, RecordStays, MarkAfterIs
  <2>4. MarkInv'
    BY <1>0, <1>1, <1>2, <1>5, <2>2 DEF MarkInv
  <2>5. PhaseInv'
    BY <1>0, <1>5, <2>3 DEF PhaseInv, StripInv, KeyInv, FkInv, EndInv, VerdictInv
  <2>6. TypeOK'
    BY <1>0, <1>5 DEF TypeOK, ItemsAt, Pc
  <2> QED
    BY <2>4, <2>5, <2>6
<1>6. CASE marked # "STATS_UPDATED"
  <2>1. MarkInv'
    BY <1>0, <1>1, <1>2, <1>3, <1>6 DEF MarkInv
  <2>2. PhaseInv'
    BY <1>0, <1>3, <1>4, <1>6 DEF PhaseInv, StripInv, KeyInv, FkInv, EndInv, VerdictInv
  <2>3. TypeOK'
    BY <1>0, <1>6 DEF TypeOK, ItemsAt, Pc
  <2> QED
    BY <2>1, <2>2, <2>3
<1> QED
  BY <1>5, <1>6

(* A phase is entered, in this run or by the next one, with the record of  *)
(* the phases before it and the catalog as it is committed.                *)
LEMMA EnterStep ==
  ASSUME IInv, dump' = dump, marked' # "DONE", marked' \in WithKeys \cup {"DEFINED", "STRIPPED"},
         pc' = Enter(marked'), todo' = Work(marked'), stop' = FALSE,
         rec' = saved', catalog' = committed', MarkInv'
  PROVE  PhaseInv' /\ pc' \in Pc /\ (todo \subseteq ItemsAt(pc))'
<1>1. RecordAt(saved, marked)'
  BY DEF MarkInv
<1>2. \/ CatalogAt(committed, marked)'
      \/ CatalogAt(committed, MarkAfter[marked])'
  BY DEF MarkInv
<1>3. CASE marked' = "DEFINED"
  <2>1. pc' = "drop_fk" /\ todo' = ListedOf("fk")
    BY <1>3, EnterIs DEF Work
  <2>2. \A k \in Stripped : k.kind = "fk" => Own(k) \in todo'
    BY <2>1, ListedIsStripped DEF ListedOf
  <2>3. ToStrip' = Stripped
    BY <2>1, <2>2 DEF ToStrip, Stripped, Con
  <2>4. /\ rec'.stripped = {} /\ KeyPart(rec, {}, {}, FALSE, {})' /\ FkPart(rec, {}, {}, {})'
        /\ StatPart(rec, {}, {})' /\ TriggerPart(rec, FALSE, FALSE)'
    BY <1>1, <1>3 DEF RecordAt, WithKeys, WithFks, WithStats, KeyPart, FkPart, StatPart, TriggerPart
  <2>5. catalog'.idx = {}
    BY <1>2, <1>3, MarkAfterIs DEF CatalogAt, WithKeys
  <2>6. StripInv'
    BY <1>3, <2>1, <2>3, <2>4, <2>5 DEF StripInv, Stripped, Con
  <2> QED
    BY <2>1, <2>6 DEF PhaseInv, KeyInv, FkInv, EndInv, VerdictInv, Pc, ItemsAt
<1>4. CASE marked' = "STRIPPED"
  <2>1. pc' = "add_key" /\ todo' = dump.keys
    BY <1>4, EnterIs DEF Work
  <2>2. \A k : ~Visits(k)'
    BY <2>1 DEF Visits
  <2>3. /\ rec'.stripped = Stripped /\ KeyPart(rec, {}, {}, FALSE, {})' /\ FkPart(rec, {}, {}, {})'
        /\ StatPart(rec, {}, {})' /\ TriggerPart(rec, FALSE, FALSE)'
    BY <1>1, <1>4
    DEF RecordAt, WithKeys, WithFks, WithStats, KeyPart, FkPart, StatPart, TriggerPart, Stripped, Con
  <2>4. KeyPart(rec, {k \in Rebuilt : Visits(k)}, {k \in Pending : Visits(k)}, FALSE, {})'
    BY <2>2, <2>3 DEF KeyPart
  <2>5. rec'.rebuilt = {}
    BY <2>3 DEF KeyPart
  <2>6. KeyInv'
    BY <1>4, <2>1, <2>3, <2>4, <2>5 DEF KeyInv, Stripped, Con
  <2> QED
    BY <2>1, <2>6 DEF PhaseInv, StripInv, FkInv, EndInv, VerdictInv, Pc, ItemsAt
<1>5. CASE marked' = "REBUILT"
  <2>1. pc' = "add_fk" /\ todo' = dump.fks
    BY <1>5, EnterIs DEF Work
  <2>2. /\ rec'.stripped = Stripped /\ KeyPart(rec, Rebuilt, Pending, TRUE, Index \cap dump.bad)'
        /\ FkPart(rec, {}, {}, {})' /\ StatPart(rec, {}, {})' /\ TriggerPart(rec, FALSE, FALSE)'
    BY <1>1, <1>5
    DEF RecordAt, WithKeys, WithFks, WithStats, KeyPart, FkPart, StatPart, TriggerPart, Stripped, Con
  <2>3. /\ Defined' \subseteq dump.fks /\ Violated' \subseteq dump.fks
        /\ Rejectable' \subseteq dump.fks
    BY Fixed, SetFacts DEF Rejectable
  <2>4. FkPart(rec, Defined \ todo, Violated \ todo, ((Edge \cap dump.fks) \ Defined) \ todo)'
    BY <2>1, <2>2, <2>3 DEF FkPart
  <2>5. rec'.defined = {}
    BY <2>2 DEF FkPart
  <2>6. FkInv'
    BY <1>5, <2>1, <2>2, <2>3, <2>4, <2>5 DEF FkInv, Stripped, Con
  <2> QED
    BY <2>1, <2>6 DEF PhaseInv, StripInv, KeyInv, EndInv, VerdictInv, Pc, ItemsAt
<1>6. CASE marked' = "FK_DEFINED"
  <2>1. pc' = "stats" /\ todo' = {}
    BY <1>6, EnterIs DEF Work
  <2> QED
    BY <1>1, <1>6, <2>1
    DEF PhaseInv, StripInv, KeyInv, FkInv, EndInv, VerdictInv, Pc, ItemsAt, RecordAt, KeyPart,
        FkPart, StatPart, TriggerPart
<1>7. CASE marked' = "STATS_UPDATED"
  <2>1. pc' = "trigger" /\ todo' = {}
    BY <1>7, EnterIs DEF Work
  <2> QED
    BY <1>1, <1>7, <2>1
    DEF PhaseInv, StripInv, KeyInv, FkInv, EndInv, VerdictInv, Pc, ItemsAt, RecordAt, KeyPart,
        FkPart, StatPart, TriggerPart
<1> QED
  BY <1>3, <1>4, <1>5, <1>6, <1>7 DEF WithKeys

LEMMA MarkStep ==
  ASSUME IInv, Mark
  PROVE  TypeOK' /\ MarkInv' /\ PhaseInv'
<1>0. /\ pc = "mark" /\ marked # "STATS_UPDATED" /\ MarkInv /\ TypeOK
      /\ marked' = MarkAfter[marked] /\ saved' = rec
      /\ pc' = Enter(marked') /\ todo' = Work(marked')
      /\ guarded' = FALSE /\ present' = {} /\ stop' = FALSE
      /\ RecordAt(rec, MarkAfter[marked]) /\ CatalogAt(committed, MarkAfter[marked])
      /\ catalog = committed
      /\ UNCHANGED <<dump, catalog, committed, rec, report, outcome, faults>>
  BY DEF Mark, IInv, PhaseInv, EndInv, store, verdict
<1>1. marked' \in {"STRIPPED", "REBUILT", "FK_DEFINED", "STATS_UPDATED"}
  BY <1>0, MarkAfterIs DEF MarkInv, TypeOK
<1>2. RecordAt(saved, marked)' /\ CatalogAt(committed, marked)'
  BY <1>0, RecordStays, CatalogStays
<1>3. pc' # "done"
  BY <1>0, <1>1, EnterIs
<1>4. MarkInv'
  BY <1>0, <1>1, <1>2, <1>3 DEF MarkInv
<1>5. PhaseInv' /\ pc' \in Pc /\ (todo \subseteq ItemsAt(pc))'
  BY <1>0, <1>1, <1>4, EnterStep DEF WithKeys
<1>6. TypeOK'
  BY <1>0, <1>1, <1>5 DEF TypeOK
<1> QED
  BY <1>4, <1>5, <1>6

LEMMA RestartStep ==
  ASSUME IInv, Restart
  PROVE  TypeOK' /\ MarkInv' /\ PhaseInv'
<1>0. /\ pc # "done" /\ MarkInv /\ TypeOK
      /\ faults < MaxFaults /\ faults' = faults + 1
      /\ catalog' = committed /\ rec' = saved
      /\ pc' = Enter(marked) /\ todo' = Work(marked) /\ stop' = FALSE
      /\ guarded' = TRUE /\ present' = committed.con
      /\ UNCHANGED <<dump, committed, saved, marked, report, outcome>>
  BY DEF Restart, IInv, durable, verdict
<1>1. marked \in {"DEFINED", "STRIPPED", "REBUILT", "FK_DEFINED", "STATS_UPDATED"}
  BY <1>0 DEF MarkInv, TypeOK
<1>2. /\ RecordAt(saved, marked)'
      /\ CatalogAt(committed, marked)' \/ CatalogAt(committed, MarkAfter[marked])'
  BY <1>0, RecordStays, CatalogStays DEF MarkInv
<1>3. pc' # "done"
  BY <1>0, <1>1, EnterIs
<1>4. MarkInv'
  BY <1>0, <1>1, <1>2, <1>3 DEF MarkInv
<1>5. Work(marked)' = Work(marked)
  BY <1>0 DEF Work
<1>6. PhaseInv' /\ pc' \in Pc /\ (todo \subseteq ItemsAt(pc))'
  BY <1>0, <1>1, <1>4, EnterStep DEF WithKeys
<1>7. faults' \in 0 .. MaxFaults
  BY <1>0, ConstraintsAssumption DEF TypeOK
<1>8. TypeOK'
  BY <1>0, <1>6, <1>7 DEF TypeOK, CatalogType
<1> QED
  BY <1>4, <1>6, <1>8

LEMMA FinishStep ==
  ASSUME IInv, Finish
  PROVE  TypeOK' /\ MarkInv' /\ PhaseInv'
<1>0. /\ pc = "verify" /\ pc' = "done" /\ marked = "STATS_UPDATED" /\ marked' = "DONE"
      /\ MarkInv /\ TypeOK /\ RecordAt(rec, "DONE") /\ catalog = committed
      /\ saved' = rec
      /\ outcome' = IF Restored /\ ~Shortfall THEN "success" ELSE "partial"
      /\ report' \in {"COMPLETE", "PARTIAL"}
      /\ UNCHANGED <<dump, catalog, committed, todo, stop, rec, guarded, present, faults>>
  BY DEF Finish, IInv, PhaseInv, EndInv, store, guard
<1>1. RecordAt(saved, marked)' /\ RecordAt(rec, "DONE")'
  BY <1>0, RecordStays
<1>2. CatalogAt(committed, "DONE")
  BY <1>0, LateCatalog, MarkAfterIs DEF MarkInv, WithFks
<1>3. CatalogAt(committed, marked)'
  BY <1>0, <1>2, CatalogStays
<1>4. MarkInv'
  BY <1>0, <1>1, <1>3 DEF MarkInv
<1>5. Restored' = Restored /\ Shortfall' = Shortfall
  BY <1>0 DEF Restored, Shortfall
<1>6. PhaseInv'
  BY <1>0, <1>1, <1>5 DEF PhaseInv, StripInv, KeyInv, FkInv, EndInv, VerdictInv
<1>7. TypeOK'
  BY <1>0 DEF TypeOK, ItemsAt, Pc
<1> QED
  BY <1>4, <1>6, <1>7

LEMMA StutterStep ==
  ASSUME IInv, UNCHANGED vars
  PROVE  TypeOK' /\ MarkInv' /\ PhaseInv'
<1>0. UNCHANGED <<dump, catalog, committed, pc, todo, stop, rec, saved, marked, guarded,
                  present, report, outcome, faults>>
  BY DEF vars, store, durable, guard, verdict
<1>1. TypeOK'
  BY <1>0 DEF IInv, TypeOK, ItemsAt
<1>2. RecordAt(saved, marked)' <=> RecordAt(saved, marked)
  BY <1>0, Fixed DEF RecordAt, KeyPart, FkPart, StatPart, TriggerPart
<1>3. /\ CatalogAt(committed, marked)' <=> CatalogAt(committed, marked)
      /\ CatalogAt(committed, MarkAfter[marked])' <=> CatalogAt(committed, MarkAfter[marked])
      /\ CatalogAt(catalog, MarkAfter[marked])' <=> CatalogAt(catalog, MarkAfter[marked])
  BY <1>0, Fixed DEF CatalogAt
<1>4. MarkInv'
  BY <1>0, <1>2, <1>3 DEF IInv, MarkInv
<1>5. StripInv'
  <2>1. ToStrip' = ToStrip
    BY <1>0 DEF ToStrip
  <2> QED
    BY <1>0, <2>1 DEF IInv, PhaseInv, StripInv, KeyPart, FkPart, StatPart, TriggerPart
<1>6. KeyInv'
  <2>1. /\ {k \in Rebuilt : Visits(k)}' = {k \in Rebuilt : Visits(k)}
        /\ {k \in Pending : Visits(k)}' = {k \in Pending : Visits(k)}
    BY <1>0, Fixed DEF Visits
  <2> QED
    BY <1>0, <2>1 DEF IInv, PhaseInv, KeyInv, KeyPart, FkPart, StatPart, TriggerPart
<1>7. FkInv'
  BY <1>0, Fixed DEF IInv, PhaseInv, FkInv, KeyPart, FkPart, StatPart, TriggerPart
<1>8. /\ RecordAt(rec, marked)' <=> RecordAt(rec, marked)
      /\ RecordAt(rec, MarkAfter[marked])' <=> RecordAt(rec, MarkAfter[marked])
      /\ RecordAt(rec, "DONE")' <=> RecordAt(rec, "DONE")
  BY <1>0, Fixed DEF RecordAt, KeyPart, FkPart, StatPart, TriggerPart
<1>9. EndInv'
  BY <1>0, <1>3, <1>8 DEF IInv, PhaseInv, EndInv
<1>10. VerdictInv'
  <2>1. Restored' = Restored /\ Shortfall' = Shortfall
    BY <1>0 DEF Restored, Shortfall
  <2> QED
    BY <1>0, <1>8, <2>1 DEF IInv, PhaseInv, VerdictInv
<1> QED
  BY <1>1, <1>4, <1>5, <1>6, <1>7, <1>9, <1>10 DEF PhaseInv

LEMMA InitHolds == Init => IInv
<1> SUFFICES ASSUME Init PROVE IInv
  OBVIOUS
<1>0. /\ catalog = Full /\ committed = Full /\ pc = "drop_fk" /\ todo = ListedOf("fk")
      /\ stop = FALSE /\ rec = NoRecord /\ saved = NoRecord /\ marked = "DEFINED"
      /\ guarded = FALSE /\ present = {} /\ report = "none" /\ outcome = "none" /\ faults = 0
  BY DEF Init
<1>1. DumpOK
  BY DumpHolds
<1>2. NoRecord \in RecordType /\ Full \in CatalogType
  BY DEF NoRecord, RecordType, Full, CatalogType
<1>3. TypeOK
  <2>1. MaxFaults \in Nat /\ 0 \in 0 .. MaxFaults
    BY ConstraintsAssumption
  <2>2. todo \subseteq ItemsAt(pc) /\ pc \in Pc
    BY <1>0 DEF ItemsAt, Pc
  <2> QED
    BY <1>0, <1>2, <2>1, <2>2 DEF TypeOK
<1>4. Children({}) = {}
  BY DEF Children
<1>5. /\ NoRecord.stripped = {} /\ KeyPart(NoRecord, {}, {}, FALSE, {})
      /\ FkPart(NoRecord, {}, {}, {}) /\ StatPart(NoRecord, {}, {})
      /\ TriggerPart(NoRecord, FALSE, FALSE)
  BY <1>4 DEF NoRecord, KeyPart, FkPart, StatPart, TriggerPart
<1>6. RecordAt(saved, marked) /\ CatalogAt(committed, marked)
  BY <1>0, <1>5 DEF RecordAt, CatalogAt, Full, WithKeys, WithFks, WithStats
<1>7. MarkInv
  BY <1>0, <1>6 DEF MarkInv
<1>8. \A k \in Stripped : k.kind = "fk" => Own(k) \in todo
  BY <1>0, ListedIsStripped DEF ListedOf
<1>9. ToStrip = Stripped
  BY <1>0, <1>8 DEF ToStrip
<1>10. PhaseInv
  BY <1>0, <1>5, <1>9 DEF PhaseInv, StripInv, KeyInv, FkInv, EndInv, VerdictInv, Full
<1> QED
  BY <1>1, <1>3, <1>7, <1>10 DEF IInv

(* IInv is inductive: wherever the runs are killed, the record and the     *)
(* catalog of each phase are the ones the dump determines.                 *)
THEOREM Inductive == Spec => []IInv
<1>1. Init => IInv
  BY InitHolds
<1>2. IInv /\ [Next]_vars => IInv'
  <2> SUFFICES ASSUME IInv, [Next]_vars PROVE IInv'
    OBVIOUS
  <2>1. DumpOK'
    BY DumpFixed DEF IInv, DumpOK
  <2>2. TypeOK' /\ MarkInv' /\ PhaseInv'
    BY StripStep, EndStripStep, AddKeyStep, EndKeysStep, BuildIndexesStep, AccountKeysStep,
       AddFkStep, AccountFksStep, StatsStep, TriggersStep, CommitStep, MarkStep, FinishStep,
       RestartStep, StutterStep DEF Next, Done
  <2> QED
    BY <2>1, <2>2 DEF IInv
<1> QED
  BY <1>1, <1>2, PTL DEF Spec

(* Type correctness.                                                       *)
THEOREM TypeCorrect == Spec => []TypeOK
<1>1. IInv => TypeOK
  BY DEF IInv
<1> QED
  BY <1>1, Inductive, PTL

-----------------------------------------------------------------------------
(* A loop that is entered again adds to the catalog only what is missing.  *)
LEMMA CommittedIs ==
  ASSUME IInv
  PROVE  /\ marked = "DEFINED" => committed.con \in {Con, Bare}
         /\ marked = "STRIPPED" => committed.con \in {Bare, Bare \cup Rebuilt}
         /\ marked = "REBUILT" =>
              /\ committed.con \in {Bare \cup Rebuilt, (Bare \cup Rebuilt) \cup Defined}
              /\ committed.idx = Index \ dump.bad
         /\ marked \in WithFks =>
              /\ committed.con = (Bare \cup Rebuilt) \cup Defined
              /\ committed.idx = Index \ dump.bad
<1>1. \/ CatalogAt(committed, marked)
      \/ marked # "DONE" /\ CatalogAt(committed, MarkAfter[marked])
  BY DEF IInv, MarkInv
<1> QED
  BY <1>1, MarkAfterIs DEF CatalogAt, WithKeys, WithFks

(* What a record claims once its phase has ended.                          *)
LEMMA RecordSound ==
  ASSUME NEW r, NEW cat, NEW m \in {"DEFINED", "STRIPPED"} \cup WithKeys,
         RecordAt(r, m),
         m = "DEFINED" \/ cat.con \in {Bare, Bare \cup Rebuilt, (Bare \cup Rebuilt) \cup Defined},
         m \in WithKeys => Rebuilt \subseteq cat.con /\ cat.idx = Index \ dump.bad,
         m \in WithFks => cat.con = (Bare \cup Rebuilt) \cup Defined
  PROVE  /\ r.rebuilt \cup r.defined \subseteq cat.con
         /\ (r.pending \cup r.withheld) \cap cat.con = {}
         /\ r.failedIdx \cap cat.idx = {}
<1>1. /\ Bare \cap Stripped = {} /\ Rebuilt \cap Pending = {}
      /\ Pending \subseteq Stripped \cap Key /\ Rebuilt \subseteq Stripped \cap Key
      /\ Edge \subseteq Stripped \cap Fk /\ Defined \subseteq Edge /\ Key \cap Fk = {}
  BY SetFacts, KindsApart
<1>2. CASE m = "DEFINED" \/ m = "STRIPPED"
  BY <1>2 DEF RecordAt, KeyPart, FkPart, WithKeys, WithFks
<1>3. CASE m = "REBUILT"
  BY <1>1, <1>3 DEF RecordAt, KeyPart, FkPart, WithKeys, WithFks
<1>4. CASE m \in WithFks
  BY <1>1, <1>4 DEF RecordAt, KeyPart, FkPart, WithKeys, WithFks
<1> QED
  BY <1>2, <1>3, <1>4 DEF WithKeys, WithFks

LEMMA RecordsMatch == IInv => RecordsMatchCatalog
<1> SUFFICES ASSUME IInv PROVE RecordsMatchCatalog
  OBVIOUS
<1>0. /\ Bare \cap Stripped = {} /\ Rebuilt \cap Pending = {}
      /\ Pending \subseteq Stripped \cap Key /\ Rebuilt \subseteq Stripped \cap Key
      /\ Edge \subseteq Stripped \cap Fk /\ Defined \subseteq Edge /\ Key \cap Fk = {}
  BY SetFacts, KindsApart
<1>1. pc \in Pc /\ marked \in {"DEFINED", "STRIPPED"} \cup WithKeys
  BY DEF IInv, TypeOK, WithKeys
<1>2. CASE pc \in {"drop_fk", "drop_unique", "drop_pk"}
  BY <1>2 DEF IInv, PhaseInv, StripInv, KeyPart, FkPart, RecordsMatchCatalog
<1>3. CASE pc \in {"add_key", "index", "account_key"}
  <2>1. committed.con \in {Bare, Bare \cup Rebuilt}
    BY <1>3, CommittedIs DEF IInv, PhaseInv, KeyInv
  <2>2. /\ catalog.con = committed.con \cup rec.rebuilt /\ rec.rebuilt \subseteq Rebuilt
        /\ rec.pending \subseteq Pending /\ rec.defined = {} /\ rec.withheld = {}
    BY <1>3 DEF IInv, PhaseInv, KeyInv, KeyPart, FkPart
  <2>3. rec.failedIdx \cap catalog.idx = {}
    BY <1>3 DEF IInv, PhaseInv, KeyInv, KeyPart
  <2> QED
    BY <1>0, <2>1, <2>2, <2>3 DEF RecordsMatchCatalog
<1>4. CASE pc = "add_fk"
  <2>1. /\ committed.con \in {Bare \cup Rebuilt, (Bare \cup Rebuilt) \cup Defined}
        /\ committed.idx = Index \ dump.bad
    BY <1>4, CommittedIs DEF IInv, PhaseInv, FkInv
  <2>2. /\ catalog.con = committed.con \cup rec.defined /\ catalog.idx = committed.idx
        /\ rec.rebuilt = Rebuilt /\ rec.pending = Pending
        /\ rec.failedIdx = Index \cap dump.bad
        /\ rec.defined = Defined \ todo
        /\ rec.withheld = ((Edge \cap dump.fks) \ Defined) \ todo
    BY <1>4 DEF IInv, PhaseInv, FkInv, KeyPart, FkPart
  <2> QED
    BY <1>0, <2>1, <2>2 DEF RecordsMatchCatalog
<1>5. CASE pc \in {"stats", "trigger"}
  <2>1. marked \in WithFks /\ RecordAt(rec, marked) /\ catalog = committed
    BY <1>5 DEF IInv, PhaseInv, EndInv, WithFks
  <2> QED
    BY <1>1, <2>1, CommittedIs, RecordSound DEF RecordsMatchCatalog, WithKeys, WithFks
<1>6. CASE pc = "failed"
  <2>1. catalog = committed /\ rec = saved /\ RecordAt(rec, marked)
    BY <1>6 DEF IInv, PhaseInv, EndInv, MarkInv
  <2> QED
    BY <1>1, <2>1, CommittedIs, RecordSound DEF RecordsMatchCatalog, WithKeys, WithFks
<1>7. CASE pc \in {"commit", "mark"}
  <2> DEFINE m == MarkAfter[marked]
  <2>1. marked # "DONE"
    BY <1>7 DEF IInv, MarkInv
  <2>2. m \in {"STRIPPED"} \cup WithKeys
    BY <1>1, <2>1, MarkAfterIs DEF WithKeys
  <2>3. RecordAt(rec, m) /\ CatalogAt(catalog, m)
    BY <1>7 DEF IInv, PhaseInv, EndInv
  <2> QED
    BY <2>2, <2>3, RecordSound DEF CatalogAt, RecordsMatchCatalog, WithKeys, WithFks
<1>8. CASE pc \in {"verify", "done"}
  <2>1. marked \in WithFks /\ RecordAt(rec, "DONE") /\ catalog = committed
    BY <1>8 DEF IInv, MarkInv, PhaseInv, EndInv, VerdictInv, WithFks
  <2> QED
    BY <2>1, CommittedIs, RecordSound DEF RecordsMatchCatalog, WithKeys, WithFks
<1> QED
  BY <1>1, <1>2, <1>3, <1>4, <1>5, <1>6, <1>7, <1>8 DEF Pc

(* For any dump and any number of kills, under options that do not change, *)
(* the summaries say neither that a constraint is back that is not, nor    *)
(* that one is missing that is there.                                      *)
THEOREM RecordsTrue == Spec => []RecordsMatchCatalog
<1> QED
  BY RecordsMatch, Inductive, PTL

LEMMA StrippedIsListed == {e[1] : e \in Listed} = Stripped
  BY ListedIsStripped

LEMMA AllRecorded == IInv => AllAccounted
<1> SUFFICES ASSUME IInv PROVE AllAccounted
  OBVIOUS
<1>1. RecordAt(saved, marked)
  BY DEF IInv, MarkInv
<1>2. marked \in WithKeys => saved.rebuilt = Rebuilt /\ saved.pending = Pending
  BY <1>1 DEF RecordAt, KeyPart
<1>3. marked \in WithFks => saved.defined = Defined /\ saved.withheld = Edge \ Defined
  BY <1>1 DEF RecordAt, FkPart
<1> QED
  BY <1>2, <1>3, SetFacts, StrippedIsListed DEF AllAccounted, WithKeys, WithFks

(* No constraint that strip dropped, and no edge, is without a record,     *)
(* whether or not a statement of the dump names it.                        *)
THEOREM NothingForgotten == Spec => []AllAccounted
<1> QED
  BY AllRecorded, Inductive, PTL

LEMMA VerdictRight == IInv => HonestVerdict
<1> SUFFICES ASSUME IInv, pc = "done"
             PROVE  outcome = "success" <=>
                      /\ \A e \in Listed : Has(committed.con, e[2], e[1].name)
                      /\ Index \subseteq committed.idx
                      /\ Node \cap dump.bad = {} /\ dump.trig
  BY DEF HonestVerdict
<1>1. /\ RecordAt(rec, "DONE") /\ catalog = committed /\ marked = "DONE"
      /\ outcome = "success" <=> Restored /\ ~Shortfall
  BY DEF IInv, MarkInv, PhaseInv, VerdictInv
<1>2. /\ rec.pending = Pending /\ rec.failedIdx = Index \cap dump.bad
      /\ rec.violated = Violated /\ rec.withheld = Edge \ Defined
      /\ rec.statFail = Node \cap dump.bad /\ rec.trigFail = ~dump.trig
  BY <1>1 DEF RecordAt, KeyPart, FkPart, StatPart, TriggerPart, WithKeys, WithFks, WithStats
<1>3. committed.con = (Bare \cup Rebuilt) \cup Defined /\ committed.idx = Index \ dump.bad
  BY <1>1, CommittedIs DEF WithFks
<1>4. dump.trig \in BOOLEAN
  BY DEF IInv, DumpOK
<1>5. committed.con \subseteq Con
  BY DEF IInv, TypeOK, CatalogType
<1>6. \A e \in Listed : Has(committed.con, e[2], e[1].name) <=> e[1] \in committed.con
  <2> SUFFICES ASSUME NEW e \in Listed
               PROVE  Has(committed.con, e[2], e[1].name) <=> e[1] \in committed.con
    OBVIOUS
  <2>1. e[1] \in Con /\ e[2] \in Family[e[1].cls]
    BY ListedIsStripped DEF Stripped
  <2> QED
    BY <1>5, <2>1, HasIsIn
<1>7. (\A e \in Listed : Has(committed.con, e[2], e[1].name)) <=> Stripped \subseteq committed.con
  BY <1>6, StrippedIsListed
<1>8. Violated \subseteq Edge \ Defined
  BY SetFacts
<1>9. ASSUME Restored, ~Shortfall
      PROVE  \A e \in Listed : Has(committed.con, e[2], e[1].name)
  <2>1. rec.pending \cup rec.withheld = {}
    BY <1>9 DEF Shortfall
  <2> QED
    BY <1>1, <1>9, <2>1 DEF Restored
<1>10. ASSUME Stripped \subseteq committed.con
       PROVE  Pending = {} /\ Edge \ Defined = {} /\ Violated = {}
  BY <1>3, <1>8, <1>10, SetFacts, KindsApart
<1>11. Index \subseteq committed.idx <=> Index \cap dump.bad = {}
  BY <1>3
<1>12. ASSUME \A e \in Listed : Has(committed.con, e[2], e[1].name) PROVE Restored
  BY <1>1, <1>12 DEF Restored
<1>13. ~Shortfall <=> /\ Pending = {} /\ Index \cap dump.bad = {} /\ Violated = {}
                      /\ Edge \ Defined = {} /\ Node \cap dump.bad = {} /\ dump.trig
  BY <1>2, <1>4 DEF Shortfall
<1>14. ASSUME Restored, ~Shortfall
       PROVE  /\ \A e \in Listed : Has(committed.con, e[2], e[1].name)
              /\ Index \subseteq committed.idx
              /\ Node \cap dump.bad = {} /\ dump.trig
  BY <1>9, <1>11, <1>13, <1>14
<1>15. ASSUME /\ \A e \in Listed : Has(committed.con, e[2], e[1].name)
              /\ Index \subseteq committed.idx
              /\ Node \cap dump.bad = {} /\ dump.trig
       PROVE  Restored /\ ~Shortfall
  BY <1>7, <1>10, <1>11, <1>12, <1>13, <1>15
<1> QED
  BY <1>1, <1>14, <1>15

(* The exit code is right about every dump: 0 exactly when every           *)
(* constraint, index, statistic and trigger is there.                      *)
THEOREM VerdictHonest == Spec => []HonestVerdict
<1> QED
  BY VerdictRight, Inductive, PTL

-----------------------------------------------------------------------------
(* What no statement of a run can be refused for: no class that is skipped *)
(* refers to one that is not, and each class that is referred to has its   *)
(* own primary key.  Without either the property is false.                 *)
Acceptable ==
  /\ \A f \in Fk : f.cls \in Node
  /\ \A f \in Edge : \E k \in Key : k.kind = "pk" /\ k.cls = f.parent

(* Strip drops what the engine lets it drop.                               *)
LEMMA StripAccepted ==
  ASSUME Acceptable, IInv, pc # "failed", NEW e \in Listed, Strip(e)
  PROVE  pc' # "failed"
<1> DEFINE k == e[1]
<1>0. /\ pc \in {"drop_fk", "drop_unique", "drop_pk"} /\ StripInv /\ MarkInv /\ TypeOK
  BY DEF Strip, IInv, PhaseInv
<1>1. SUFFICES ASSUME ~Inherited(e), guarded => Has(present, e[2], k.name),
                      ~Droppable(e), e \in todo
               PROVE  FALSE
  BY <1>0 DEF Strip, Visited
<1>2. e = Own(k) /\ e[2] = k.cls /\ k \in Stripped /\ e[2] \in Family[k.cls] /\ k \in Con
  BY <1>1, InheritedIsCopy, ListedIsStripped DEF Own, Stripped
<1>3. k.kind = IF pc = "drop_fk" THEN "fk" ELSE IF pc = "drop_unique" THEN "unique" ELSE "pk"
  BY <1>0, <1>1 DEF TypeOK, ItemsAt, ListedOf
<1>4. k \in ToStrip
  BY <1>0, <1>1, <1>2, <1>3 DEF ToStrip
<1>5. k \notin rec.stripped
  BY <1>0, <1>4 DEF StripInv
<1>6. k \in committed.con
  <2>1. CASE guarded
    <3>1. present \subseteq Con /\ present = committed.con
      BY <1>0, <2>1 DEF MarkInv, TypeOK
    <3> QED
      BY <1>1, <1>2, <2>1, <3>1, HasIsIn
  <2>2. CASE ~guarded
    BY <1>0, <1>2, <2>2 DEF MarkInv, StripInv, CatalogAt
  <2> QED
    BY <2>1, <2>2
<1>7. k \in catalog.con
  BY <1>0, <1>5, <1>6 DEF StripInv
<1>8. ASSUME k.kind = "pk" PROVE catalog.con \cap Fk = {}
  <2>1. pc = "drop_pk"
    BY <1>0, <1>3, <1>8
  <2>2. \A f \in Fk : f \in Stripped /\ f.kind = "fk"
    BY ConstraintsAssumption DEF Acceptable, Stripped, Con
  <2>3. \A f \in Fk : f \notin ToStrip
    BY <2>1, <2>2 DEF ToStrip
  <2> QED
    BY <1>0, <2>2, <2>3 DEF StripInv
<1> QED
  BY <1>1, <1>2, <1>7, <1>8 DEF Droppable

(* And define_fks adds no edge that is there or without its parent's key.  *)
LEMMA AddFkAccepted ==
  ASSUME Acceptable, IInv, pc # "failed", NEW f \in Fk, AddFk(f)
  PROVE  pc' # "failed"
<1>0. /\ pc = "add_fk" /\ f \in todo /\ First(f) /\ FkInv /\ MarkInv /\ TypeOK /\ DumpOK
  BY DEF AddFk, IInv, PhaseInv
<1>1. SUFFICES ASSUME f \in Edge, ~HeldBack(f), guarded => ~Has(present, f.cls, f.name),
                      f \in catalog.con \/ ~ParentKeyThere(f)
               PROVE  FALSE
  BY <1>0 DEF AddFk, Visited
<1>2. f \notin Children(Pending)
  BY <1>0, <1>1, NextEdge
<1>3. PICK k \in Key : k.kind = "pk" /\ k.cls = f.parent
  BY <1>1 DEF Acceptable
<1>4. k \in Stripped /\ k \notin Pending
  BY <1>1, <1>2, <1>3 DEF Edge, Stripped, Con, Children
<1>5. k \in Rebuilt
  BY <1>3, <1>4 DEF Pending
<1>6. committed.con \in {Bare \cup Rebuilt, (Bare \cup Rebuilt) \cup Defined}
  BY <1>0, CommittedIs DEF FkInv
<1>7. k \in catalog.con
  BY <1>0, <1>5, <1>6 DEF FkInv
<1>8. f.parent \in Family[k.cls]
  BY <1>3, ConstraintsAssumption
<1>9. ParentKeyThere(f)
  BY <1>3, <1>7, <1>8 DEF ParentKeyThere
<1>10. f \notin Bare \cup Rebuilt
  BY <1>1, SetFacts, KindsApart
<1>11. f \notin committed.con
  <2>1. CASE guarded
    <3>1. present = committed.con /\ present \subseteq Con
      BY <1>0, <2>1 DEF MarkInv, TypeOK
    <3>2. f \in Con /\ f.cls \in Family[f.cls]
      BY ConstraintsAssumption DEF Con
    <3> QED
      BY <1>1, <2>1, <3>1, <3>2, HasIsIn
  <2>2. CASE ~guarded
    BY <1>0, <1>10, <2>2 DEF MarkInv, FkInv, CatalogAt
  <2> QED
    BY <2>1, <2>2
<1>12. f \notin catalog.con
  BY <1>0, <1>11 DEF FkInv, FkPart
<1> QED
  BY <1>1, <1>9, <1>12

(* The engine refuses no statement, in no run and after no kill, when no   *)
(* skipped class refers to one that is kept and each class referred to has *)
(* a primary key of its own.                                               *)
THEOREM NothingRefused ==
  ASSUME Acceptable
  PROVE  Spec => []NoRefusal
<1>1. Init => NoRefusal
  BY DEF Init, NoRefusal
<1>2. IInv /\ NoRefusal /\ [Next]_vars => NoRefusal'
  <2> SUFFICES ASSUME IInv, pc # "failed", [Next]_vars PROVE pc' # "failed"
    BY DEF NoRefusal
  <2>1. CASE \/ \E e \in Listed : Strip(e)
             \/ \E f \in Fk : AddFk(f)
    BY <2>1, StripAccepted, AddFkAccepted
  <2>2. CASE Restart
    <3>1. marked \in {"DEFINED", "STRIPPED", "REBUILT", "FK_DEFINED", "STATS_UPDATED"}
      BY <2>2 DEF IInv, TypeOK, MarkInv, Restart
    <3> QED
      BY <2>2, <3>1, EnterIs DEF Restart
  <2>3. CASE Mark
    <3>1. marked' \in {"STRIPPED", "REBUILT", "FK_DEFINED", "STATS_UPDATED"}
      BY <2>3, MarkAfterIs DEF IInv, TypeOK, MarkInv, PhaseInv, EndInv, Mark
    <3> QED
      BY <2>3, <3>1, EnterIs DEF Mark
  <2>4. CASE \/ EndStrip \/ (\E s \in todo : AddKey(s)) \/ Loop("add_key", "index", {})
             \/ BuildIndexes \/ AccountKeys
    BY <2>4 DEF EndStrip, Loop, AddKey, Visited, BuildIndexes, AccountKeys
  <2>5. CASE AccountFks \/ Stats \/ Triggers \/ Commit \/ Finish \/ Done \/ UNCHANGED vars
    BY <2>5 DEF AccountFks, Stats, Triggers, Commit, Finish, Done, vars
  <2> QED
    BY <2>1, <2>2, <2>3, <2>4, <2>5 DEF Next
<1> QED
  BY <1>1, <1>2, Inductive, PTL DEF Spec

-----------------------------------------------------------------------------
(* The statements follow the printed schedule.                             *)
PkTask(n) == [kind |-> "REBUILD_PK", item |-> n]
UniqueTask(e) ==
  [kind |-> "REBUILD_UNIQUE", item |-> [cls |-> e[2], name |-> e[1].name]]
IndexTask == [kind |-> "BUILD_INDEX", item |-> NoKey]
FkTask(f) ==
  [kind |-> "FK_DEFINE",
   item |-> [child |-> f.cls, parent |-> f.parent, name |-> f.name]]
StatTask(c) == [kind |-> "STATS", item |-> c]
TriggerTask == [kind |-> "DEFINE_TRIGGERS", item |-> NoKey]

(* The tasks of the schedule of this graph.                                *)
LEMMA TaskIs ==
  ASSUME NEW t \in Plan!TaskSet
  PROVE  \/ \E e \in ListedOf("pk") : t = PkTask(e[2])
         \/ \E e \in ListedOf("unique") : t = UniqueTask(e)
         \/ t = IndexTask
         \/ \E f \in Edge : t = FkTask(f)
         \/ \E c \in Node : t = StatTask(c)
         \/ t = TriggerTask
<1>1. PICK s \in Plan!Loop :
        \E x \in Plan!Visits[s] : t = [kind |-> Plan!KindOf[s], item |-> x]
  BY DEF Plan!TaskSet
<1>2. PICK x \in Plan!Visits[s] : t = [kind |-> Plan!KindOf[s], item |-> x]
  BY <1>1
<1>3. CASE s = "pk"
  <2>1. x \in Node /\ NameOf(x) # NoKey
    BY <1>2, <1>3 DEF Plan!Visits
  <2>2. \E e \in ListedOf("pk") : e[2] = x
    BY <2>1 DEF NameOf
  <2>3. t = PkTask(x)
    BY <1>2, <1>3 DEF Plan!KindOf, PkTask
  <2> QED
    BY <2>2, <2>3
<1>4. CASE s = "unique"
  <2>1. PICK e \in ListedOf("unique") : x = [cls |-> e[2], name |-> e[1].name]
    BY <1>2, <1>4 DEF Plan!Visits
  <2> QED
    BY <1>2, <1>4, <2>1 DEF Plan!KindOf, UniqueTask
<1>5. CASE s = "index"
  <2>1. x = NoKey
    BY <1>2, <1>5 DEF Plan!Visits
  <2> QED
    BY <1>2, <1>5, <2>1 DEF Plan!KindOf, IndexTask
<1>6. CASE s = "fk"
  <2>1. PICK f \in Edge : x = [child |-> f.cls, parent |-> f.parent, name |-> f.name]
    BY <1>2, <1>6 DEF Plan!Visits
  <2> QED
    BY <1>2, <1>6, <2>1 DEF Plan!KindOf, FkTask
<1>7. CASE s = "stats"
  <2>1. x \in Node
    BY <1>2, <1>7 DEF Plan!Visits
  <2> QED
    BY <1>2, <1>7, <2>1 DEF Plan!KindOf, StatTask
<1>8. CASE s = "trigger"
  <2>1. x = NoKey
    BY <1>2, <1>8 DEF Plan!Visits
  <2> QED
    BY <1>2, <1>8, <2>1 DEF Plan!KindOf, TriggerTask
<1> QED
  BY <1>3, <1>4, <1>5, <1>6, <1>7, <1>8 DEF Plan!Loop

(* What a record settles.                                                  *)
LEMMA SettledIs ==
  ASSUME NEW t
  PROVE  t \in Settled <=>
           \/ \E e \in ListedOf("pk") : e[1] \in Accounted /\ t = PkTask(e[2])
           \/ \E e \in ListedOf("unique") : e[1] \in Accounted /\ t = UniqueTask(e)
           \/ rec.indexed /\ t = IndexTask
           \/ \E f \in rec.defined \cup rec.withheld : t = FkTask(f)
           \/ \E c \in rec.analyzed : t = StatTask(c)
           \/ rec.triggers /\ t = TriggerTask
<1>1. t \in {[kind |-> "REBUILD_PK", item |-> e[2]] :
               e \in {x \in ListedOf("pk") : x[1] \in Accounted}}
        <=> \E e \in ListedOf("pk") : e[1] \in Accounted /\ t = PkTask(e[2])
  BY DEF PkTask
<1>2. t \in {[kind |-> "REBUILD_UNIQUE", item |-> [cls |-> e[2], name |-> e[1].name]] :
               e \in {x \in ListedOf("unique") : x[1] \in Accounted}}
        <=> \E e \in ListedOf("unique") : e[1] \in Accounted /\ t = UniqueTask(e)
  BY DEF UniqueTask
<1>3. t \in {[kind |-> "BUILD_INDEX", item |-> n] : n \in {x \in {NoKey} : rec.indexed}}
        <=> rec.indexed /\ t = IndexTask
  BY DEF IndexTask
<1>4. t \in {[kind |-> "FK_DEFINE",
              item |-> [child |-> f.cls, parent |-> f.parent, name |-> f.name]] :
               f \in rec.defined \cup rec.withheld}
        <=> \E f \in rec.defined \cup rec.withheld : t = FkTask(f)
  BY DEF FkTask
<1>5. t \in {[kind |-> "STATS", item |-> c] : c \in rec.analyzed}
        <=> \E c \in rec.analyzed : t = StatTask(c)
  BY DEF StatTask
<1>6. t \in {[kind |-> "DEFINE_TRIGGERS", item |-> n] : n \in {x \in {NoKey} : rec.triggers}}
        <=> rec.triggers /\ t = TriggerTask
  BY DEF TriggerTask
<1> QED
  BY <1>1, <1>2, <1>3, <1>4, <1>5, <1>6 DEF Settled

(* The next record, likewise.                                              *)
LEMMA NextSettledIs ==
  ASSUME NEW t, t \in Settled'
  PROVE  \/ \E e \in ListedOf("pk") : t = PkTask(e[2])
         \/ \E e \in ListedOf("unique") : t = UniqueTask(e)
         \/ t = IndexTask
         \/ \E f \in rec'.defined \cup rec'.withheld : t = FkTask(f)
         \/ \E c \in rec'.analyzed : t = StatTask(c)
         \/ rec'.triggers /\ t = TriggerTask
  BY DEF Settled, PkTask, UniqueTask, IndexTask, FkTask, StatTask, TriggerTask

(* Once the keys are accounted for, every key task is settled.             *)
LEMMA KeyTasksSettled ==
  ASSUME Accounted = Stripped \cap Key, NEW t \in Plan!TaskSet,
         t.kind \in {"REBUILD_PK", "REBUILD_UNIQUE"}
  PROVE  t \in Settled
<1>1. ASSUME NEW e \in Listed, e[1].kind # "fk" PROVE e[1] \in Accounted
  BY <1>1, ListedIsStripped, ConstraintsAssumption DEF Stripped, Con
<1>2. \A e \in ListedOf("pk") \cup ListedOf("unique") : e[1] \in Accounted
  BY <1>1 DEF ListedOf
<1>3. \/ \E e \in ListedOf("pk") : t = PkTask(e[2])
      \/ \E e \in ListedOf("unique") : t = UniqueTask(e)
  BY TaskIs DEF IndexTask, FkTask, StatTask, TriggerTask
<1> QED
  BY <1>2, <1>3, SettledIs

(* A resumed run has settled nothing that the interrupted one had not.     *)
LEMMA SavedBehind ==
  ASSUME IInv
  PROVE  /\ saved.defined \cup saved.withheld \subseteq rec.defined \cup rec.withheld
         /\ saved.analyzed \subseteq rec.analyzed
         /\ saved.triggers => rec.triggers
<1>1. RecordAt(saved, marked) /\ pc \in Pc
  BY DEF IInv, MarkInv, TypeOK
<1>2. CASE marked \notin WithFks
  BY <1>1, <1>2 DEF RecordAt, FkPart, StatPart, TriggerPart, WithFks, WithStats
<1>3. CASE marked \in WithFks
  <2>1. pc \in {"stats", "trigger", "commit", "mark", "verify", "done", "failed"}
    BY <1>1, <1>3 DEF IInv, PhaseInv, StripInv, KeyInv, FkInv, Pc, WithFks
  <2>2. CASE pc = "failed"
    BY <2>2 DEF IInv, PhaseInv, EndInv
  <2>3. CASE pc \in {"stats", "trigger"}
    <3>1. RecordAt(rec, marked)
      BY <2>3 DEF IInv, PhaseInv, EndInv
    <3> QED
      BY <1>1, <3>1 DEF RecordAt, FkPart, StatPart, TriggerPart
  <2>4. CASE pc \in {"commit", "mark"}
    <3>1. RecordAt(rec, MarkAfter[marked]) /\ marked # "DONE"
      BY <2>4 DEF IInv, PhaseInv, EndInv, MarkInv
    <3>2. \/ marked = "FK_DEFINED" /\ MarkAfter[marked] = "STATS_UPDATED"
          \/ marked = "STATS_UPDATED" /\ MarkAfter[marked] = "DONE"
      BY <1>3, <3>1, MarkAfterIs DEF WithFks
    <3> QED
      BY <1>1, <3>1, <3>2
         DEF RecordAt, FkPart, StatPart, TriggerPart, WithFks, WithStats
  <2>5. CASE pc \in {"verify", "done"}
    <3>1. RecordAt(rec, "DONE") /\ marked \in {"STATS_UPDATED", "DONE"}
      BY <2>5 DEF IInv, PhaseInv, EndInv, VerdictInv, MarkInv
    <3> QED
      BY <1>1, <3>1 DEF RecordAt, FkPart, StatPart, TriggerPart, WithFks, WithStats
  <2> QED
    BY <2>1, <2>2, <2>3, <2>4, <2>5
<1> QED
  BY <1>2, <1>3

(* Where each of the late parts of a record is written.                    *)
LEMMA WrittenAt ==
  ASSUME IInv, [Next]_vars
  PROVE  /\ pc # "add_fk" =>
              rec'.defined \cup rec'.withheld \subseteq rec.defined \cup rec.withheld
         /\ pc # "stats" => rec'.analyzed \subseteq rec.analyzed
         /\ pc # "trigger" /\ rec'.triggers => rec.triggers
<1>1. rec \in RecordType
  BY DEF IInv, TypeOK
<1>2. CASE rec' = rec
  BY <1>2
<1>3. CASE rec' = saved
  BY <1>3, SavedBehind
<1>4. ASSUME NEW e \in Listed, Strip(e) PROVE rec' = saved \/ UNCHANGED
                <<rec.defined, rec.withheld, rec.analyzed, rec.triggers>>
  BY <1>1, <1>4 DEF Strip, Abort, RecordType
<1>5. ASSUME NEW s \in todo, AddKey(s)
      PROVE  UNCHANGED <<rec.defined, rec.withheld, rec.analyzed, rec.triggers>>
  <2>1. \/ rec' = rec
        \/ \E x : rec' = [rec EXCEPT !.rebuilt = x]
        \/ \E x, y : rec' = [rec EXCEPT !.pending = x, !.held = y]
    BY <1>5 DEF AddKey
  <2> QED
    BY <1>1, <2>1 DEF RecordType
<1>6. CASE BuildIndexes \/ AccountKeys
  BY <1>1, <1>6 DEF BuildIndexes, AccountKeys, RecordType
<1>7. ASSUME NEW f \in Fk, AddFk(f)
      PROVE  /\ pc = "add_fk"
             /\ rec' = saved \/ UNCHANGED <<rec.analyzed, rec.triggers>>
  <2>1. \/ rec' = rec \/ rec' = saved
        \/ \E x : rec' = [rec EXCEPT !.withheld = x]
        \/ \E x : rec' = [rec EXCEPT !.defined = x]
        \/ \E x, y : rec' = [rec EXCEPT !.violated = x, !.withheld = y]
    BY <1>7 DEF AddFk, Abort
  <2>2. pc = "add_fk"
    BY <1>7 DEF AddFk
  <2> QED
    BY <1>1, <2>1, <2>2 DEF RecordType
<1>8. CASE AccountFks
  BY <1>1, <1>8 DEF AccountFks, RecordType
<1>9. CASE Stats
  BY <1>1, <1>9 DEF Stats, RecordType
<1>10. CASE Triggers
  BY <1>1, <1>10 DEF Triggers, RecordType
<1>11. CASE \/ EndStrip \/ Loop("add_key", "index", {}) \/ Commit \/ Mark \/ Finish
            \/ Done \/ UNCHANGED vars
  <2>1. rec' = rec
    BY <1>11 DEF EndStrip, Loop, Commit, Mark, Finish, Done, vars
  <2> QED
    BY <1>2, <2>1
<1>12. CASE Restart
  BY <1>3, <1>12 DEF Restart
<1> QED
  BY <1>3, <1>4, <1>5, <1>6, <1>7, <1>8, <1>9, <1>10, <1>11, <1>12, SavedBehind DEF Next

(* What is settled when the foreign keys, the statistics and the trigger   *)
(* file are reached.                                                       *)
LEMMA SettledBefore ==
  ASSUME IInv, pc \in {"add_fk", "stats", "trigger"}
  PROVE  /\ Accounted = Stripped \cap Key
         /\ rec.indexed
         /\ pc = "trigger" => /\ rec.defined \cup rec.withheld = Edge
                              /\ rec.analyzed = Node
<1>1. KeyPart(rec, Rebuilt, Pending, TRUE, Index \cap dump.bad)
  <2>1. CASE pc = "add_fk"
    BY <2>1 DEF IInv, PhaseInv, FkInv
  <2>2. CASE pc \in {"stats", "trigger"}
    BY <2>2 DEF IInv, PhaseInv, EndInv, RecordAt, WithKeys
  <2> QED
    BY <2>1, <2>2
<1>2. CASE pc = "trigger"
  <2>1. RecordAt(rec, "STATS_UPDATED")
    BY <1>2 DEF IInv, PhaseInv, EndInv
  <2>2. /\ rec.defined = Defined /\ rec.withheld = Edge \ Defined
        /\ rec.analyzed = Node
    BY <2>1 DEF RecordAt, FkPart, StatPart, WithFks, WithStats
  <2> QED
    BY <1>1, <2>2, SetFacts DEF KeyPart, Accounted
<1>3. CASE pc # "trigger"
  BY <1>1, <1>3, SetFacts DEF KeyPart, Accounted
<1> QED
  BY <1>2, <1>3

(* For any dump and any number of kills, no task of the schedule that is   *)
(* printed is settled before all the tasks it waits for (FollowsPlan:      *)
(* build_schedule against what rebuild, define_fks, update_stats and       *)
(* define_triggers do).                                                    *)
THEOREM PlanFollowed == Spec => FollowsPlan
<1>1. ASSUME IInv, [Next]_vars, NEW t \in Settled' \ Settled, t \in Plan!TaskSet
      PROVE  Plan!WaitsFor[t] \subseteq Settled
  <2> DEFINE KeyTasks(n) == Plan!KeyTasksOf(n)
  <2>1. \A n : KeyTasks(n) \subseteq
                 {u \in Plan!TaskSet : u.kind \in {"REBUILD_PK", "REBUILD_UNIQUE"}}
    BY DEF Plan!KeyTasksOf
  <2>2. CASE t.kind \in {"REBUILD_PK", "REBUILD_UNIQUE", "BUILD_INDEX"}
    <3>1. Plan!WaitsFor[t] = {}
      BY <1>1, <2>2 DEF Plan!WaitsFor
    <3> QED
      BY <3>1
  <2>3. CASE t.kind = "FK_DEFINE"
    <3>1. \E f \in rec'.defined \cup rec'.withheld : t = FkTask(f)
      BY <1>1, <2>3, NextSettledIs
         DEF PkTask, UniqueTask, IndexTask, StatTask, TriggerTask
    <3>2. pc = "add_fk"
      BY <1>1, <3>1, WrittenAt, SettledIs
    <3>3. Plan!WaitsFor[t] = KeyTasks(t.item.parent)
      BY <1>1, <2>3 DEF Plan!WaitsFor
    <3> QED
      BY <1>1, <2>1, <3>2, <3>3, SettledBefore, KeyTasksSettled
  <2>4. CASE t.kind = "STATS"
    <3>1. \E c \in rec'.analyzed : t = StatTask(c)
      BY <1>1, <2>4, NextSettledIs
         DEF PkTask, UniqueTask, IndexTask, FkTask, TriggerTask
    <3>2. pc = "stats"
      BY <1>1, <3>1, WrittenAt, SettledIs
    <3>3. Plan!WaitsFor[t] =
            KeyTasks(t.item) \cup {u \in Plan!TaskSet : u.kind = "BUILD_INDEX"}
      BY <1>1, <2>4 DEF Plan!WaitsFor
    <3>4. ASSUME NEW u \in Plan!TaskSet, u.kind = "BUILD_INDEX" PROVE u \in Settled
      <4>1. u = IndexTask
        BY <3>4, TaskIs DEF PkTask, UniqueTask, FkTask, StatTask, TriggerTask
      <4> QED
        BY <1>1, <3>2, <4>1, SettledBefore, SettledIs
    <3> QED
      BY <1>1, <2>1, <3>2, <3>3, <3>4, SettledBefore, KeyTasksSettled
  <2>5. CASE t.kind = "DEFINE_TRIGGERS"
    <3>1. rec'.triggers /\ t = TriggerTask
      BY <1>1, <2>5, NextSettledIs DEF PkTask, UniqueTask, IndexTask, FkTask, StatTask
    <3>2. pc = "trigger"
      BY <1>1, <3>1, WrittenAt, SettledIs
    <3>3. Plan!WaitsFor[t] = Plan!TaskSet \ {t}
      BY <1>1, <2>5 DEF Plan!WaitsFor
    <3>4. ASSUME NEW u \in Plan!TaskSet, u # t PROVE u \in Settled
      <4>1. CASE u.kind \in {"REBUILD_PK", "REBUILD_UNIQUE"}
        BY <1>1, <3>2, <4>1, SettledBefore, KeyTasksSettled
      <4>2. CASE u.kind \notin {"REBUILD_PK", "REBUILD_UNIQUE"}
        <5>1. \/ u = IndexTask
              \/ \E f \in Edge : u = FkTask(f)
              \/ \E c \in Node : u = StatTask(c)
          BY <3>1, <3>4, <4>2, TaskIs DEF PkTask, UniqueTask
        <5> QED
          BY <1>1, <3>2, <5>1, SettledBefore, SettledIs
      <4> QED
        BY <4>1, <4>2
    <3> QED
      BY <3>3, <3>4
  <2>6. t.kind \in {"REBUILD_PK", "REBUILD_UNIQUE", "BUILD_INDEX", "FK_DEFINE",
                    "STATS", "DEFINE_TRIGGERS"}
    BY <1>1, TaskIs
       DEF PkTask, UniqueTask, IndexTask, FkTask, StatTask, TriggerTask
  <2> QED
    BY <2>2, <2>3, <2>4, <2>5, <2>6
<1>2. IInv /\ [Next]_vars =>
        [\A t \in Settled' \ Settled :
           t \in Plan!TaskSet => Plan!WaitsFor[t] \subseteq Settled]_vars
  BY <1>1
<1> QED
  BY <1>2, Inductive, PTL DEF Spec, FollowsPlan
================================================================================
