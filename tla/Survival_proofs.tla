---------------------------- MODULE Survival_proofs ----------------------------
(***************************************************************************)
(* Proofs about what is left of a summary that is written to the manifest  *)
(* and read from it any number of times (ManifestText).                    *)
(*                                                                         *)
(* For each section a set Raw of what a phase may hand over, the set Taken *)
(* of what the reader may make, and the outcomes of reading: which values  *)
(* come back as they were, which lists stay empty or not.  What was read   *)
(* once is in Taken and is read again as it is, but for a statement that   *)
(* was lost.  From that follows the invariant of the runs, Lasting.  The   *)
(* graph, whose levels stand in [plan], has one of its own at the end:     *)
(* GraphKeptAlways.                                                        *)
(***************************************************************************)
EXTENDS Reading_proofs

-----------------------------------------------------------------------------
(* [triggers], [strip] and [load].                                         *)

(* Where a section is read from the line after its header.                 *)
Then(s, m, v) == At(Header(s), Put(m, s, v))

(* A value that is one word.                                               *)
Figure == {<<w>> : w \in Free(Plainly, " ")}

LEMMA FigureIs ==
  ASSUME NEW t \in Figure
  PROVE  t \in Cell /\ t \in Row /\ t \in Prose /\ Trim(t) = t /\ t \in Seq(Free(Plainly, " "))
<1>1. PICK w \in Free(Plainly, " ") : t = <<w>>
  BY DEF Figure
<1>2. w \in Plainly /\ w \notin Blank
  <2>1. w \in Plainly /\ w # " "
    BY <1>1, FreeType
  <2>2. w \in Free(Token, "\n") /\ w # "\t"
    BY <2>1, FreeType DEF Plainly
  <2>3. w # "\n"
    BY <2>2, FreeType
  <2> QED
    BY <2>1, <2>2, <2>3 DEF Blank
<1>3. PICK u \in Seq(Free(Plainly, " ")) : u = <<w>> /\ Len(u) = 1 /\ u[1] = w /\ u # <<>>
  BY One
<1>4. u \in Seq(Plainly)
  BY FreeType
<1>5. u \in Cell
  BY <1>2, <1>3, <1>4 DEF Cell, Inked, Tight
<1> QED
  BY <1>1, <1>3, <1>5, CellIs

(* [triggers]                                                              *)
CleanTriggers ==
  [file : (Ink \ {NoneMarker}) \cup {<<>>}, defined : Figure, failed : Figure]

LEMMA NoneIs == NoneMarker \in Cell /\ NoneMarker \in Ink
<1>1. "(none)" \in Plainly /\ "(none)" \notin Blank
  <2>1. "(none)" \in Mark
    BY DEF Mark
  <2>2. "(none)" \in Token /\ "(none)" # "\n" /\ "(none)" # "\t" /\ "(none)" \notin Blank
    BY <2>1 DEF Token, Blank
  <2> QED
    BY <2>2, FreeType DEF Plainly
<1>2. PICK t \in Seq(Plainly) : t = <<"(none)">> /\ Len(t) = 1 /\ t[1] = "(none)" /\ t # <<>>
  BY <1>1, One
<1>3. t \in Cell
  BY <1>1, <1>2 DEF Cell, Inked, Tight
<1> QED
  BY <1>2, <1>3, CellIs DEF NoneMarker

LEMMA TriggersRead ==
  ASSUME NEW m, IsSum(m), m.triggers = Nothing.triggers, NEW v \in CleanTriggers
  PROVE  ReadLines(At(Header("triggers"), m), Printed(TriggersLines(v))) = Then("triggers", m, v)
<1>0. /\ v.file \in (Ink \ {NoneMarker}) \cup {<<>>} /\ v.defined \in Figure /\ v.failed \in Figure
      /\ "triggers" \in Field9
  BY DEF CleanTriggers, Field9
<1>1. /\ v.defined \in Row /\ v.failed \in Row /\ Trim(v.defined) = v.defined /\ Trim(v.failed) = v.failed
  BY <1>0, FigureIs
<1>2. OrNone(v.file) \in Ink
  BY <1>0, NoneIs DEF OrNone
<1>3. "trigger_file" \in Keys /\ "defined" \in Keys /\ "failed" \in Keys
  BY DEF Keys, Key
<1>4. PICK x \in Row : x = OrNone(v.file) /\ Trim(x) = x
  BY <1>2, InkIs
<1>5. PICK a \in Entry : a = Line("trigger_file", x)
  BY <1>3, EntryIs
<1>6. PICK b \in Entry : b = Line("defined", v.defined)
  BY <1>1, <1>3, EntryIs
<1>7. PICK c \in Entry : c = Line("failed", v.failed)
  BY <1>1, <1>3, EntryIs
<1>8. PICK o \in Seq(Entry) : o = <<a>>
  BY One
<1>9. PICK p \in Seq(Entry) : p = Add(o, b)
  BY AddType
<1>10. PICK q \in Seq(Entry) : q = Add(p, c) /\ q = <<a, b, c>>
  <2>1. p = <<a, b>>
    BY <1>8, <1>9, PairIs
  <2>2. <<a, b, c>> \in Seq(Entry) /\ <<a, b, c>> = Add(<<a, b>>, c)
    BY TripleSeq
  <2> QED
    BY <2>1, <2>2
<1>11. TriggersLines(v) = q
  BY <1>4, <1>5, <1>6, <1>7, <1>10 DEF TriggersLines
<1>12. PICK n : n = Put(m, "triggers", [file |-> v.file, defined |-> <<>>, failed |-> <<>>])
  OBVIOUS
<1>13. PICK k : k = Put(m, "triggers", [file |-> v.file, defined |-> v.defined, failed |-> <<>>])
  OBVIOUS
<1>14. PICK z : z = Put(m, "triggers", [file |-> v.file, defined |-> v.defined, failed |-> v.failed])
  OBVIOUS
<1>15. /\ IsSum(n) /\ IsSum(k) /\ IsSum(z)
       /\ n.triggers = [file |-> v.file, defined |-> <<>>, failed |-> <<>>]
       /\ k.triggers = [file |-> v.file, defined |-> v.defined, failed |-> <<>>]
       /\ \A w : Put(n, "triggers", w) = Put(m, "triggers", w)
       /\ \A w : Put(k, "triggers", w) = Put(m, "triggers", w)
  BY <1>0, <1>12, <1>13, <1>14, PutIs
<1>16. m.triggers = [file |-> <<>>, defined |-> <<>>, failed |-> <<>>] /\ Put(m, "triggers", m.triggers) = m
  BY <1>0, PutIs DEF Nothing
<1>17. ReadTriggers(m, "trigger_file", x) = n
  <2>1. CASE v.file = <<>>
    <3>1. x = NoneMarker
      BY <1>4, <2>1 DEF OrNone
    <3>2. ReadTriggers(m, "trigger_file", x) = m
      BY <3>1 DEF ReadTriggers
    <3> QED
      BY <1>12, <1>16, <2>1, <3>2
  <2>2. CASE v.file # <<>>
    <3>1. x = v.file /\ x # NoneMarker
      BY <1>0, <1>4, <2>2 DEF OrNone
    <3>2. ReadTriggers(m, "trigger_file", x) = [m EXCEPT !.triggers.file = x]
      BY <3>1 DEF ReadTriggers
    <3>3. PICK t : t = m.triggers
      OBVIOUS
    <3>4. [m EXCEPT !.triggers.file = x] = Put(m, "triggers", [t EXCEPT !.file = x])
      BY <3>3 DEF Put
    <3>5. [t EXCEPT !.file = x] = [file |-> v.file, defined |-> <<>>, failed |-> <<>>]
      BY <1>16, <3>1, <3>3
    <3> QED
      BY <1>12, <3>2, <3>4, <3>5
  <2> QED
    BY <2>1, <2>2
<1>18. ReadTriggers(n, "defined", v.defined) = k
  <2>1. ReadTriggers(n, "defined", v.defined) = [n EXCEPT !.triggers.defined = v.defined]
    BY DEF ReadTriggers
  <2>2. PICK t : t = n.triggers
    OBVIOUS
  <2>3. [n EXCEPT !.triggers.defined = v.defined] = Put(n, "triggers", [t EXCEPT !.defined = v.defined])
    BY <2>2 DEF Put
  <2>4. [t EXCEPT !.defined = v.defined] = [file |-> v.file, defined |-> v.defined, failed |-> <<>>]
    BY <1>15, <2>2
  <2> QED
    BY <1>13, <1>15, <2>1, <2>3, <2>4
<1>19. ReadTriggers(k, "failed", v.failed) = z
  <2>1. ReadTriggers(k, "failed", v.failed) = [k EXCEPT !.triggers.failed = v.failed]
    BY DEF ReadTriggers
  <2>2. PICK t : t = k.triggers
    OBVIOUS
  <2>3. [k EXCEPT !.triggers.failed = v.failed] = Put(k, "triggers", [t EXCEPT !.failed = v.failed])
    BY <2>2 DEF Put
  <2>4. [t EXCEPT !.failed = v.failed] = [file |-> v.file, defined |-> v.defined, failed |-> v.failed]
    BY <1>15, <2>2
  <2> QED
    BY <1>14, <1>15, <2>1, <2>3, <2>4
<1>20. PICK h : h = Header("triggers")
  OBVIOUS
<1>21. ReadLines(At(h, m), Split(a, "\n")) = At(h, n)
  BY <1>3, <1>4, <1>5, <1>15, <1>17, <1>20, Dispatch, RowRead
<1>22. ReadLines(At(h, n), Split(b, "\n")) = At(h, k)
  BY <1>1, <1>3, <1>6, <1>15, <1>18, <1>20, Dispatch, RowRead
<1>23. ReadLines(At(h, k), Split(c, "\n")) = At(h, z)
  BY <1>1, <1>3, <1>7, <1>15, <1>19, <1>20, Dispatch, RowRead
<1>24. ReadLines(At(h, m), Printed(q)) = At(h, z)
  <2>1. PICK s0, s1, s2 : s0 = At(h, m) /\ s1 = At(h, n) /\ s2 = At(h, k)
    OBVIOUS
  <2>2. ReadLines(s0, Printed(o)) = s1
    BY <1>8, <1>21, <2>1, ChainRead
  <2>3. ReadLines(s0, Printed(p)) = s2
    BY <1>9, <1>22, <2>1, <2>2, ChainRead
  <2>4. ReadLines(s0, Printed(Add(p, c))) = ReadLines(s2, Split(c, "\n"))
    BY <2>3, ChainRead
  <2> QED
    BY <1>10, <1>23, <2>1, <2>4
<1>25. v = [file |-> v.file, defined |-> v.defined, failed |-> v.failed]
  BY DEF CleanTriggers
<1> QED
  BY <1>11, <1>14, <1>20, <1>24, <1>25 DEF Then

LEMMA PutPut ==
  ASSUME NEW v, NEW s, NEW a, NEW b
  PROVE  Put(Put(v, s, a), s, b) = Put(v, s, b)
BY DEF Put

(* What an entry adds is in the summary, unless a line in brackets came    *)
(* before it in the section; one that follows it ends the section.         *)
LEMMA NearEntry ==
  ASSUME NEW m, IsSum(m), NEW s \in Field9, NEW u, NEW w, NEW key \in Keys, NEW val \in Prose,
         ReadEntry(Put(m, s, u), Header(s), key, Trim(First(val))) = Put(m, s, w),
         Line(key, val) \in Entry
  PROVE  /\ ReadLines(Then(s, m, u), Split(Line(key, val), "\n")) \in Near(s, Put(m, s, w))
         /\ Harmless(val) => ReadLines(Then(s, m, u), Split(Line(key, val), "\n")) = Then(s, m, w)
         /\ \A st \in Near(s, Put(m, s, u)) :
              ReadLines(st, Split(Line(key, val), "\n")) \in Near(s, Put(m, s, u)) \cup Near(s, Put(m, s, w))
<1>1. PICK a, b : a = Put(m, s, u) /\ b = Put(m, s, w) /\ IsSum(a) /\ IsSum(b)
  BY PutIs
<1>2. /\ ReadLines(At(Header(s), a), Split(Line(key, val), "\n")) \in Near(s, b)
      /\ Harmless(val) => ReadLines(At(Header(s), a), Split(Line(key, val), "\n")) = At(Header(s), b)
  BY <1>1, EntryRead
<1>3. PICK lines \in Seq(Plain) : lines = Split(Line(key, val), "\n")
  BY EntryLines
<1>4. ASSUME NEW st \in Near(s, a) PROVE ReadLines(st, lines) \in Near(s, a) \cup Near(s, b)
  <2>1. CASE st = At(Header(s), a)
    BY <1>2, <1>3, <2>1
  <2>2. ASSUME NEW h \in Astray, st = At(h, a) PROVE ReadLines(st, lines) \in Near(s, a)
    <3>1. PICK g \in Astray : ReadLines(At(h, a), lines) = At(g, a)
      BY <1>1, AstrayLines
    <3> QED
      BY <2>2, <3>1, NearIs
  <2> QED
    BY <2>1, <2>2, NearIs
<1> QED
  BY <1>1, <1>2, <1>3, <1>4 DEF Then

(* Records of a constraint.                                                *)
KindCell == {<<"fk">>, <<"unique">>, <<"pk">>}

CleanConstraint == [kind : KindCell, cls : Cell, name : Cell]

LEMMA KindsCells == KindCell \subseteq Cell
<1>1. ASSUME NEW w \in {"fk", "unique", "pk"} PROVE <<w>> \in Cell
  <2>1. w \in Mark /\ w # "\n" /\ w # "\t" /\ w \notin Blank
    BY DEF Mark, Blank
  <2>2. w \in Token
    BY <2>1 DEF Token
  <2>3. w \in Plainly
    BY <2>1, <2>2, FreeType DEF Plainly
  <2>4. PICK t \in Seq(Plainly) : t = <<w>> /\ Len(t) = 1 /\ t[1] = w /\ t # <<>>
    BY <2>3, One
  <2>5. t \in Cell
    BY <2>1, <2>4 DEF Cell, Inked, Tight
  <2> QED
    BY <2>4, <2>5
<1> QED
  BY <1>1 DEF KindCell

LEMMA ConstraintFields ==
  ASSUME NEW c \in CleanConstraint
  PROVE  /\ Fields(<<c.kind, c.cls, c.name>>) \in Row
         /\ IsConstraint(SplitRecord(Trim(Fields(<<c.kind, c.cls, c.name>>))))
         /\ Constraint(SplitRecord(Trim(Fields(<<c.kind, c.cls, c.name>>)))) = c
         /\ c \in LooseConstraint
<1>1. c.kind \in Cell /\ c.cls \in Cell /\ c.name \in Cell /\ c.kind \in KindCell
  BY KindsCells DEF CleanConstraint
<1>2. PICK p \in Seq(Cell) : p = <<c.kind, c.cls>> /\ p # <<>>
  <2>1. <<c.kind, c.cls>> \in Seq(Cell) /\ <<c.kind, c.cls>> = Add(<<c.kind>>, c.cls)
    BY <1>1, PairIs
  <2>2. PICK o \in Seq(Cell) : o = <<c.kind>>
    BY <1>1, One
  <2>3. Add(o, c.cls) # <<>>
    BY <1>1, AddType
  <2> QED
    BY <2>1, <2>2, <2>3
<1>3. PICK q \in Seq(Cell) : q = <<c.kind, c.cls, c.name>> /\ q = Add(p, c.name)
  BY <1>1, <1>2, TripleSeq
<1>4. c.name \in Spoken /\ c.name \in Row /\ First(c.name) = c.name
  BY <1>1, InkSpoken, CellIs
<1>5. Fields(q) \in Row
  BY <1>2, <1>3, <1>4, RecordSplit
<1>6. First(Fields(q)) = Fields(q)
  BY <1>5, RowProse, FirstIs
<1>7. SplitRecord(Trim(First(Fields(Add(p, c.name))))) = Cat(p, Said(c.name))
  BY <1>2, <1>4, RecordSplit
<1>8. Said(c.name) = <<c.name>>
  BY <1>1, SaidIs
<1>9. Cat(p, <<c.name>>) = q
  BY <1>1, <1>3, AddIs
<1>10. SplitRecord(Trim(Fields(q))) = q
  BY <1>3, <1>6, <1>7, <1>8, <1>9
<1>11. Len(q) = 3 /\ q[1] = c.kind /\ q[2] = c.cls /\ q[3] = c.name
  BY <1>3
<1>12. PICK f : f = SplitRecord(Trim(Fields(q))) /\ Len(f) = 3 /\ f[1] = c.kind /\ f[2] = c.cls /\ f[3] = c.name
  BY <1>10, <1>11
<1>13. IsConstraint(f)
  BY <1>1, <1>12 DEF IsConstraint, KindCell
<1>14. Constraint(f) = c
  BY <1>12 DEF Constraint, CleanConstraint
<1>15. c \in LooseConstraint
  BY <1>1, CellIs DEF CleanConstraint, LooseConstraint
<1> QED
  BY <1>3, <1>5, <1>12, <1>13, <1>14, <1>15

LEMMA CleanLoose == CleanConstraint \in SUBSET LooseConstraint
BY ConstraintFields

(* [strip]                                                                 *)
LEMMA DropRead ==
  ASSUME NEW m, IsSum(m), NEW q \in Seq(CleanConstraint), NEW c \in CleanConstraint
  PROVE  ReadLines(Then("strip", m, q), Split(DropLine(c), "\n")) = Then("strip", m, Add(q, c))
<1>1. PICK x \in Row : x = Fields(<<c.kind, c.cls, c.name>>)
  BY ConstraintFields
<1>2. PICK n : n = Put(m, "strip", q) /\ IsSum(n) /\ n.strip = q /\ \A w : Put(n, "strip", w) = Put(m, "strip", w)
  BY PutIs DEF Field9
<1>3. PICK z : z = Put(m, "strip", Add(q, c)) /\ IsSum(z)
  BY PutIs DEF Field9
<1>4. ReadStrip(n, "drop", Trim(x)) = [n EXCEPT !.strip = Append(@, c)]
  BY <1>1, ConstraintFields DEF ReadStrip
<1>5. [n EXCEPT !.strip = Append(@, c)] = z
  BY <1>2, <1>3 DEF Put, Add
<1>6. "drop" \in Keys
  BY DEF Keys, Key
<1>7. DropLine(c) = Line("drop", x)
  BY <1>1 DEF DropLine, ConstraintLine
<1>8. ReadEntry(n, Header("strip"), "drop", Trim(x)) = z
  BY <1>4, <1>5, Dispatch, SMTT(20), ZenonT(30)
<1>9. ReadLines(At(Header("strip"), n), Split(Line("drop", x), "\n")) = At(Header("strip"), z)
  BY <1>3, <1>6, <1>8, RowRead
<1> QED
  BY <1>2, <1>3, <1>7, <1>9 DEF Then

LEMMA StripRead ==
  ASSUME NEW m, IsSum(m), m.strip = <<>>, NEW v \in Seq(CleanConstraint)
  PROVE  ReadLines(At(Header("strip"), m), Printed(StripLines(v))) = Then("strip", m, v)
<1>0. PICK G : G = [q \in Seq(CleanConstraint) |-> {Then("strip", m, q)}]
  OBVIOUS
<1>1. \A q \in Seq(CleanConstraint) : G[q] = {Then("strip", m, q)}
  BY <1>0
<1>2. ASSUME NEW q \in Seq(CleanConstraint), NEW c \in CleanConstraint, NEW st \in G[q]
      PROVE  ReadLines(st, Split(DropF[c], "\n")) \in G[Add(q, c)]
  <2>1. Add(q, c) \in Seq(CleanConstraint)
    BY AddType
  <2>2. c \in LooseConstraint
    BY CleanLoose
  <2>3. DropF[c] = DropLine(c)
    BY <2>2 DEF DropF
  <2> QED
    BY <1>1, <2>1, <2>3, DropRead
<1>3. PICK S, R, F : S = LooseConstraint /\ R = CleanConstraint /\ F = DropF
  OBVIOUS
<1>4. R \in SUBSET S /\ F \in [S -> Entry]
  BY <1>3, LineTypes, CleanLoose
<1>5. Itemwise(R, F, G)
  BY <1>2, <1>3 DEF Itemwise
<1>6. TakesItems(R, F, G)
  BY <1>4, <1>5, TakeItems
<1>7. StripLines(v) = Image(v, DropF)
  <2>1. v \in Seq(LooseConstraint)
    BY CleanLoose, SeqMonotonic
  <2> QED
    BY <2>1, LinesAre DEF StripLines
<1>8. At(Header("strip"), m) \in G[<<>>]
  <2>1. Put(m, "strip", m.strip) = m
    BY PutIs DEF Field9
  <2>2. <<>> \in Seq(CleanConstraint)
    BY EmptySeq
  <2> QED
    BY <1>1, <2>1, <2>2 DEF Then
<1>9. PICK z : z = At(Header("strip"), m)
  OBVIOUS
<1>10. ReadLines(z, Printed(Image(v, F))) \in G[v]
  BY <1>3, <1>6, <1>8, <1>9 DEF TakesItems
<1> QED
  BY <1>1, <1>3, <1>7, <1>9, <1>10

LEMMA CatSep ==
  ASSUME NEW A, NEW s \in Seq(A), NEW x \in A, NEW t \in Seq(A)
  PROVE  Cat(s, Cat(<<x>>, t)) = Cat(Add(s, x), t)
<1>1. PICK o \in Seq(A) : o = <<x>>
  BY One
<1>2. Cat(Cat(s, o), t) = Cat(s, Cat(o, t))
  BY CatCat
<1>3. Add(s, x) = Cat(s, o)
  BY <1>1, AddIs
<1> QED
  BY <1>1, <1>2, <1>3

LEMMA AddLast ==
  ASSUME NEW A, NEW s \in Seq(A), NEW x \in A
  PROVE  /\ Add(s, x) \in Seq(A) /\ Add(s, x) # <<>> /\ Len(s) \in Nat
         /\ Len(Add(s, x)) = Len(s) + 1 /\ Add(s, x)[Len(s) + 1] = x
         /\ Add(s, x)[Len(Add(s, x))] = x
BY DEF Add

LEMMA AddKeeps ==
  ASSUME NEW A, NEW s \in Seq(A), NEW x \in A, NEW i \in 1 .. Len(s)
  PROVE  Add(s, x)[i] = s[i]
BY DEF Add

LEMMA LastPut ==
  ASSUME NEW A, NEW q \in Seq(A), NEW y \in A, NEW w \in A, NEW s, s = Add(q, y)
  PROVE  [s EXCEPT ![Len(s)] = w] = Add(q, w)
<1>1. s \in Seq(A) /\ Len(q) \in Nat /\ Len(s) = Len(q) + 1
  BY AddLast
<1>2. PICK z : z = Add(q, w)
  OBVIOUS
<1>3. z \in Seq(A) /\ Len(z) = Len(q) + 1 /\ z[Len(q) + 1] = w
  <2>1. Add(q, w) \in Seq(A) /\ Len(Add(q, w)) = Len(q) + 1 /\ Add(q, w)[Len(q) + 1] = w
    BY AddLast
  <2> QED
    BY <1>2, <2>1
<1>4. PICK r : r = [s EXCEPT ![Len(s)] = w]
  OBVIOUS
<1>5. r \in Seq(A) /\ Len(r) = Len(q) + 1
  BY <1>1, <1>4
<1>6. \A i \in 1 .. Len(q) + 1 : r[i] = IF i = Len(q) + 1 THEN w ELSE s[i]
  BY <1>1, <1>4
<1>7. ASSUME NEW i \in 1 .. Len(q) + 1 PROVE r[i] = z[i]
  <2>1. CASE i = Len(q) + 1
    BY <1>3, <1>6, <2>1
  <2>2. CASE i # Len(q) + 1
    <3>1. i \in 1 .. Len(q)
      BY <1>1, <2>2
    <3>2. s[i] = q[i] /\ z[i] = q[i]
      BY <1>2, <3>1, AddKeeps
    <3> QED
      BY <1>6, <2>2, <3>2
  <2> QED
    BY <2>1, <2>2
<1>8. r = z
  BY <1>3, <1>5, <1>7, SeqEqual
<1> QED
  BY <1>2, <1>4, <1>8

(* The last part of a text that does not end with the separator.           *)
LEMMA LastPart ==
  ASSUME NEW A, NEW sep, NEW t \in Seq(A), t # <<>>, t[Len(t)] # sep
  PROVE  \E p \in Seq(Seq(A)), w \in Seq(Free(A, sep)) :
           w # <<>> /\ Split(t, sep) = Add(p, w)
<1>1. PICK u \in Seq(A), x \in A : t = Add(u, x)
  BY SeqLast
<1>2. x # sep /\ x \in Free(A, sep)
  <2>1. Add(u, x)[Len(Add(u, x))] = x
    BY AddLast
  <2>2. x # sep
    BY <1>1, <2>1
  <2> QED
    BY <2>2, FreeType
<1>3. PICK F, B : F = Free(A, sep) /\ B = Seq(F)
  OBVIOUS
<1>4. PICK done \in Seq(B) : done = Split(u, sep) /\ done # <<>>
  BY <1>3, SplitType
<1>5. PICK q \in Seq(B), y \in B : done = Add(q, y)
  BY <1>4, SeqLast
<1>6. done[Len(done)] = y
  <2>1. Add(q, y)[Len(Add(q, y))] = y
    BY AddLast
  <2> QED
    BY <1>5, <2>1
<1>7. PICK w \in Seq(F) : w = Add(y, x) /\ w # <<>>
  BY <1>2, <1>3, AddType
<1>8. w \in B
  BY <1>3, <1>7
<1>9. [done EXCEPT ![Len(done)] = w] = Add(q, w)
  BY <1>5, <1>8, LastPut
<1>10. Append(done[Len(done)], x) = w
  BY <1>6, <1>7 DEF Add
<1>11. SplitStep(done, x, sep) = Add(q, w)
  BY <1>2, <1>9, <1>10 DEF SplitStep
<1>12. Split(t, sep) = Add(q, w)
  BY <1>1, <1>4, <1>11, SplitAdd
<1>13. q \in Seq(Seq(A))
  BY <1>3, FreeType
<1> QED
  BY <1>3, <1>7, <1>12, <1>13

(* [load]: of a file's name the last word is left.                         *)
Wordy == {t \in Seq(Free(Plainly, " ")) : t # <<>>}

CleanFile == [file : Cell, rows : Figure, failed : Figure]

WordFile == [file : Wordy, rows : Figure, failed : Figure]

CleanLoad == [rows : Figure, failed : Figure, files : Seq(CleanFile)]

WordLoad == [rows : Figure, failed : Figure, files : Seq(WordFile)]

LEMMA WordyCell == Wordy \subseteq Cell
<1>1. ASSUME NEW t \in Wordy PROVE t \in Cell
  <2>0. PICK A : A = Free(Plainly, " ")
    OBVIOUS
  <2>1. t \in Seq(A) /\ t # <<>>
    BY <2>0 DEF Wordy
  <2>2. t \in Seq(Plainly)
    BY <2>0, <2>1, FreeType
  <2>3. t[1] \in A /\ t[Len(t)] \in A
    <3>1. 1 \in 1 .. Len(t) /\ Len(t) \in 1 .. Len(t)
      BY <2>1
    <3> QED
      BY <2>1, <3>1, ElementOfSeq
  <2>4. \A x \in A : x \notin Blank
    <3>1. ASSUME NEW x \in A PROVE x # " " /\ x # "\t" /\ x # "\n"
      <4>1. x \in Plainly /\ x # " "
        BY <2>0, FreeType, SMTT(20), ZenonT(30)
      <4>2. x \in Free(Token, "\n") /\ x # "\t"
        BY <4>1, FreeType DEF Plainly
      <4>3. x # "\n"
        BY <4>2, FreeType
      <4> QED
        BY <4>1, <4>2, <4>3
    <3> QED
      BY <3>1 DEF Blank
  <2> QED
    BY <2>1, <2>2, <2>3, <2>4 DEF Cell, Inked, Tight
<1> QED
  BY <1>1

LEMMA WordLoads == WordFile \subseteq CleanFile /\ WordLoad \subseteq CleanLoad
<1>1. WordFile \subseteq CleanFile
  BY WordyCell DEF WordFile, CleanFile
<1>2. Seq(WordFile) \subseteq Seq(CleanFile)
  BY <1>1, SeqMonotonic
<1>3. WordLoad \subseteq CleanLoad
  BY <1>2 DEF WordLoad, CleanLoad
<1> QED
  BY <1>1, <1>3

FileText(f) == Join(<<f.file, f.rows, f.failed>>, <<" ">>)

LEMMA FileSplit ==
  ASSUME NEW f \in CleanFile
  PROVE  \E p \in Seq(Seq(Plainly)), w \in Wordy, x \in Row :
           /\ x = FileText(f) /\ Trim(x) = x
           /\ Split(x, " ") = Add(Add(Add(p, w), f.rows), f.failed)
           /\ f.file \in Wordy => w = f.file
<1>a. PICK fi \in Cell, ro \in Figure, fa \in Figure : fi = f.file /\ ro = f.rows /\ fa = f.failed
  BY DEF CleanFile
<1>b. PICK v : v = <<fi, ro, fa>>
  OBVIOUS
<1>0. PICK A, B : A = Plainly /\ B = Seq(A)
  OBVIOUS
<1>2. /\ fi \in Seq(A) /\ fi # <<>> /\ Tight(fi)
      /\ ro \in Seq(A) /\ ro \in Seq(Free(A, " "))
      /\ fa \in Seq(A) /\ fa \in Seq(Free(A, " ")) /\ Tight(fa) /\ fa # <<>>
  BY <1>0, FigureIs, CellIs
<1>3. " " \in A /\ " " \in Blank
  <2>1. " " \in Token
    BY MarkToken DEF Mark
  <2> QED
    BY <1>0, <2>1, FreeType DEF Plainly, Blank
<1>4. PICK a \in Seq(A) : a = Add(fi, " ")
  BY <1>2, <1>3, AddType
<1>5. PICK b \in Seq(A) : b = Cat(a, ro)
  BY <1>2, CatType
<1>6. PICK c \in Seq(A) : c = Add(b, " ")
  BY <1>3, AddType
<1>7. PICK x \in Seq(A) : x = Cat(c, fa)
  BY <1>2, CatType
<1>8. Join(v, <<" ">>) = x
  <2>0. PICK sep \in Seq(A) : sep = <<" ">>
    BY <1>3, One
  <2>00. fi \in B /\ ro \in B /\ fa \in B
    BY <1>0, <1>2
  <2>1. PICK o \in Seq(B) : o = <<fi>> /\ o # <<>>
    BY <2>00, One
  <2>2. Join(o, sep) = fi
    BY <1>2, <2>1, JoinOne
  <2>3. PICK p \in Seq(B) : p = <<fi, ro>>
    BY <2>00, PairIs
  <2>4. p = Add(o, ro) /\ p # <<>>
    BY <2>00, <2>1, <2>3, PairIs
  <2>5. v \in Seq(B) /\ v = Add(p, fa)
    BY <1>b, <2>00, <2>3, TripleSeq
  <2>6. Join(p, sep) = Cat(fi, Cat(sep, ro))
    <3>1. o \in Seq(Seq(A))
      BY <1>0, <2>1
    <3>2. Join(Add(o, ro), sep) = IF o = <<>> THEN ro ELSE Cat(Join(o, sep), Cat(sep, ro))
      BY <1>2, <3>1, JoinAdd
    <3> QED
      BY <2>1, <2>2, <2>4, <3>2
  <2>7. Cat(fi, Cat(sep, ro)) = b
    <3>0. PICK k \in A : k = " "
      BY <1>3
    <3>10. fi \in Seq(A) /\ ro \in Seq(A)
      BY <1>2
    <3>1. Cat(fi, Cat(<<k>>, ro)) = Cat(Add(fi, k), ro)
      BY <3>10, CatSep
    <3> QED
      BY <1>4, <1>5, <2>0, <3>0, <3>1
  <2>8. Join(v, sep) = Cat(b, Cat(sep, fa))
    <3>1. p \in Seq(Seq(A))
      BY <1>0, <2>3
    <3>2. Join(Add(p, fa), sep) = IF p = <<>> THEN fa ELSE Cat(Join(p, sep), Cat(sep, fa))
      BY <1>2, <3>1, JoinAdd
    <3> QED
      BY <2>4, <2>5, <2>6, <2>7, <3>2
  <2>9. Cat(b, Cat(sep, fa)) = x
    <3>0. PICK k \in A : k = " "
      BY <1>3
    <3>10. fa \in Seq(A)
      BY <1>2
    <3>1. Cat(b, Cat(<<k>>, fa)) = Cat(Add(b, k), fa)
      BY <3>10, CatSep
    <3> QED
      BY <1>6, <1>7, <2>0, <3>0, <3>1
  <2> QED
    BY <2>0, <2>8, <2>9
<1>9. x \in Row /\ Trim(x) = x
  <2>1. a # <<>> /\ a[1] = fi[1]
    BY <1>2, <1>3, <1>4, AddEnds
  <2>2. b # <<>> /\ b[1] = fi[1]
    BY <1>2, <1>5, <2>1, CatEnds
  <2>3. c # <<>> /\ c[1] = fi[1]
    BY <1>3, <1>6, <2>2, AddEnds
  <2>4. fi[1] \notin Blank /\ fa[Len(fa)] \notin Blank
    BY <1>2 DEF Tight
  <2>5. Inked(x)
    BY <1>2, <1>7, <2>3, <2>4, CatInked
  <2> QED
    BY <1>0, <2>5, PlainlyIs, TrimTight DEF Inked
<1>10. PICK p \in Seq(B), w \in Seq(Free(A, " ")) : w # <<>> /\ Split(fi, " ") = Add(p, w)
  <2>1. fi[Len(fi)] # " "
    BY <1>2, <1>3 DEF Tight
  <2> QED
    BY <1>0, <1>2, <2>1, LastPart
<1>11. w \in Wordy /\ w \in B
  BY <1>0, <1>10, FreeType DEF Wordy
<1>12. Split(ro, " ") = <<ro>> /\ Split(fa, " ") = <<fa>>
  BY <1>2, SplitFree
<1>13. PICK s \in Seq(B) : s = Add(p, w)
  BY <1>11, AddType
<1>14. ro \in B /\ fa \in B
  BY <1>0, <1>2
<1>15. PICK r \in Seq(B) : r = Add(s, ro)
  BY <1>14, AddType
<1>16. Split(b, " ") = r
  <2>1. Split(b, " ") = Cat(Split(fi, " "), Split(ro, " "))
    BY <1>2, <1>3, <1>4, <1>5, SplitAt
  <2>2. Cat(s, <<ro>>) = r
    BY <1>14, <1>15, AddIs
  <2> QED
    BY <1>10, <1>12, <1>13, <2>1, <2>2
<1>17. Split(x, " ") = Add(r, fa)
  <2>1. Split(x, " ") = Cat(Split(b, " "), Split(fa, " "))
    BY <1>2, <1>3, <1>6, <1>7, SplitAt
  <2>2. Cat(r, <<fa>>) = Add(r, fa)
    BY <1>14, AddIs
  <2> QED
    BY <1>12, <1>16, <2>1, <2>2
<1>18. ASSUME fi \in Wordy PROVE w = fi
  <2>1. Split(fi, " ") = <<fi>>
    BY <1>0, <1>18, SplitFree DEF Wordy
  <2>2. s = <<fi>>
    BY <1>10, <1>13, <2>1
  <2>3. Len(s) = 1 /\ s[1] = fi
    BY <2>2
  <2>40. Len(Add(p, w)) = Len(p) + 1 /\ Add(p, w)[Len(p) + 1] = w /\ Len(p) \in Nat
    BY <1>11, AddLast, SMTT(20), ZenonT(30)
  <2>4. Len(s) = Len(p) + 1 /\ s[Len(p) + 1] = w /\ Len(p) \in Nat
    BY <1>13, <2>40
  <2>5. Len(p) + 1 = 1
    BY <2>3, <2>4
  <2> QED
    BY <2>3, <2>4, <2>5
<1>19. FileText(f) = x
  BY <1>a, <1>b, <1>8 DEF FileText
<1> QED
  BY <1>0, <1>a, <1>9, <1>11, <1>13, <1>15, <1>17, <1>18, <1>19

(* What may become of a list of which the items in R come back as they     *)
(* were.                                                                   *)
Kin(R, q) == {p \in Seq(R) : q \in Seq(R) => p = q}

LEMMA AddIn ==
  ASSUME NEW S, NEW R, NEW q \in Seq(S), NEW x \in S, Add(q, x) \in Seq(R)
  PROVE  q \in Seq(R) /\ x \in R
<1>1. /\ Len(Add(q, x)) = Len(q) + 1 /\ Add(q, x)[Len(q) + 1] = x /\ Len(q) \in Nat
      /\ \A i \in 1 .. Len(q) : Add(q, x)[i] = q[i]
  BY DEF Add
<1>2. \A i \in 1 .. Len(q) + 1 : Add(q, x)[i] \in R
  BY <1>1
<1>3. x \in R
  BY <1>1, <1>2
<1>4. \A i \in 1 .. Len(q) : q[i] \in R
  BY <1>1, <1>2
<1>5. q \in Seq(R)
  BY <1>4
<1> QED
  BY <1>3, <1>5

LEMMA KinNone ==
  ASSUME NEW R
  PROVE  <<>> \in Kin(R, <<>>)
BY EmptySeq DEF Kin

LEMMA KinAdd ==
  ASSUME NEW S, NEW R, NEW q \in Seq(S), NEW x \in S, NEW p \in Kin(R, q), NEW r \in R, x \in R => r = x
  PROVE  Add(p, r) \in Kin(R, Add(q, x))
<1>1. p \in Seq(R) /\ (q \in Seq(R) => p = q)
  BY DEF Kin
<1>2. Add(p, r) \in Seq(R)
  BY <1>1, AddType
<1>3. ASSUME Add(q, x) \in Seq(R) PROVE Add(p, r) = Add(q, x)
  <2>1. q \in Seq(R) /\ x \in R
    BY <1>3, AddIn
  <2> QED
    BY <1>1, <2>1
<1> QED
  BY <1>2, <1>3 DEF Kin

LEMMA FileRead ==
  ASSUME NEW m, IsSum(m), NEW u, NEW fs, fs = u.files, NEW f \in CleanFile
  PROVE  \E r \in WordFile :
           /\ ReadLines(Then("load", m, u), Split(FileLine(f), "\n"))
                = Then("load", m, Put(u, "files", Add(fs, r)))
           /\ f \in WordFile => r = f
<1>0. PICK fi, ro, fa : fi = f.file /\ ro = f.rows /\ fa = f.failed /\ fi \in Cell /\ ro \in Figure /\ fa \in Figure
  BY DEF CleanFile
<1>1. PICK p \in Seq(Seq(Plainly)), w \in Wordy, x \in Row :
           /\ x = FileText(f) /\ Trim(x) = x
           /\ Split(x, " ") = Add(Add(Add(p, w), f.rows), f.failed)
           /\ f.file \in Wordy => w = f.file
  BY FileSplit
<1>2. /\ x = FileText(f) /\ Trim(x) = x
      /\ Split(x, " ") = Add(Add(Add(p, w), ro), fa)
      /\ fi \in Wordy => w = fi
  BY <1>0, <1>1
<1>3. PICK r : r = [file |-> w, rows |-> ro, failed |-> fa]
  OBVIOUS
<1>4. r \in WordFile
  BY <1>0, <1>3 DEF WordFile
<1>5. f \in WordFile => r = f
  BY <1>0, <1>2, <1>3 DEF WordFile
<1>6. PICK n : n = Put(m, "load", u) /\ IsSum(n) /\ n.load = u /\ \A y : Put(n, "load", y) = Put(m, "load", y)
  BY PutIs DEF Field9
<1>7. PICK z : z = Put(m, "load", Put(u, "files", Add(fs, r))) /\ IsSum(z)
  BY PutIs DEF Field9
<1>8. PICK s : s = Split(x, " ")
  OBVIOUS
<1>9. Len(s) \in Nat /\ Len(s) >= 3 /\ s[Len(s)] = fa /\ s[Len(s) - 1] = ro /\ s[Len(s) - 2] = w
  <2>1. PICK B : B = Seq(Plainly)
    OBVIOUS
  <2>2. w \in B /\ ro \in B /\ fa \in B
    BY <1>0, <2>1, WordyCell, FigureIs, CellIs
  <2>3. p \in Seq(B)
    BY <2>1
  <2>4. PICK a \in Seq(B) : a = Add(p, w)
    BY <2>2, <2>3, AddType
  <2>5. PICK b \in Seq(B) : b = Add(a, ro)
    BY <2>2, AddType
  <2>6. s = Add(b, fa)
    BY <1>2, <1>8, <2>4, <2>5
  <2> QED
    BY <2>2, <2>3, <2>4, <2>5, <2>6 DEF Add
<1>10. ReadLoad(n, "file", x) = z
  <2>1. ReadLoad(n, "file", x) = [n EXCEPT !.load.files = Append(@, r)]
    BY <1>2, <1>3, <1>8, <1>9 DEF ReadLoad
  <2>2. [n EXCEPT !.load.files = Append(@, r)] = Put(n, "load", [u EXCEPT !.files = Append(@, r)])
    BY <1>6 DEF Put
  <2>3. [u EXCEPT !.files = Append(@, r)] = Put(u, "files", Add(fs, r))
    BY DEF Put, Add
  <2> QED
    BY <1>6, <1>7, <2>1, <2>2, <2>3
<1>11. "file" \in Keys
  BY DEF Keys, Key
<1>12. FileLine(f) = Line("file", x)
  BY <1>2 DEF FileLine, FileText
<1>13. ReadEntry(n, Header("load"), "file", Trim(x)) = z
  BY <1>2, <1>10, Dispatch, SMTT(20), ZenonT(30)
<1>14. ReadLines(At(Header("load"), n), Split(Line("file", x), "\n")) = At(Header("load"), z)
  BY <1>7, <1>11, <1>13, RowRead
<1> QED
  BY <1>4, <1>5, <1>6, <1>7, <1>12, <1>14 DEF Then

(* What may become of a summary of the load.                               *)
LoadOut(v) ==
  {w \in WordLoad : w.rows = v.rows /\ w.failed = v.failed /\ w.files \in Kin(WordFile, v.files)}

LEMMA LoadRead ==
  ASSUME NEW m, IsSum(m), m.load = Nothing.load, NEW v \in CleanLoad
  PROVE  \E w \in LoadOut(v) :
           ReadLines(At(Header("load"), m), Printed(LoadLines(v))) = Then("load", m, w)
<1>0. PICK ro \in Figure, fa \in Figure, fs \in Seq(CleanFile) : ro = v.rows /\ fa = v.failed /\ fs = v.files
  BY DEF CleanLoad
<1>1. /\ ro \in Row /\ fa \in Row /\ Trim(ro) = ro /\ Trim(fa) = fa
      /\ "load" \in Field9 /\ "total_rows" \in Keys /\ "total_failed" \in Keys
  BY FigureIs DEF Field9, Keys, Key
<1>2. PICK a \in Entry, b \in Entry : a = Line("total_rows", ro) /\ b = Line("total_failed", fa)
  BY <1>1, EntryIs
<1>3. PICK o \in Seq(Entry) : o = <<a>>
  BY One
<1>4. PICK p \in Seq(Entry) : p = Add(o, b)
  BY AddType
<1>5. PICK S, R, F : S = [file : Row, rows : Row, failed : Row] /\ R = CleanFile /\ F = FileF
  OBVIOUS
<1>6. R \in SUBSET S /\ F \in [S -> Entry]
  <2>1. CleanFile \subseteq [file : Row, rows : Row, failed : Row]
    BY CellIs, FigureIs DEF CleanFile
  <2> QED
    BY <1>5, <2>1, LineTypes
<1>7. PICK q \in Seq(Entry) : q = Image(fs, F)
  <2>1. fs \in Seq(S)
    BY <1>5, <1>6, SeqMonotonic
  <2> QED
    BY <1>6, <2>1, ImageIs
<1>8. LoadLines(v) = Cat(p, q)
  <2>1. fs \in Seq(S)
    BY <1>5, <1>6, SeqMonotonic
  <2>2. LinesOf(fs, FileLine) = q
    BY <1>5, <1>7, <2>1, LinesAre
  <2>3. p = <<a, b>>
    BY <1>3, <1>4, PairIs
  <2> QED
    BY <1>0, <1>2, <2>2, <2>3 DEF LoadLines, Cat
<1>9. PICK l0, l1, l2 :
        /\ l0 = [rows |-> <<>>, failed |-> <<>>, files |-> <<>>]
        /\ l1 = [rows |-> ro, failed |-> <<>>, files |-> <<>>]
        /\ l2 = [rows |-> ro, failed |-> fa, files |-> <<>>]
  OBVIOUS
<1>10. PICK n1, n2 : n1 = Put(m, "load", l1) /\ n2 = Put(m, "load", l2)
  OBVIOUS
<1>11. /\ IsSum(n1) /\ IsSum(n2) /\ n1.load = l1 /\ m.load = l0
       /\ \A y : Put(n1, "load", y) = Put(m, "load", y)
  BY <1>1, <1>9, <1>10, PutIs DEF Nothing
<1>12. ReadLoad(m, "total_rows", ro) = n1
  <2>1. ReadLoad(m, "total_rows", ro) = [m EXCEPT !.load.rows = ro]
    BY DEF ReadLoad
  <2>2. [m EXCEPT !.load.rows = ro] = Put(m, "load", [l0 EXCEPT !.rows = ro])
    BY <1>11 DEF Put
  <2>3. [l0 EXCEPT !.rows = ro] = l1
    BY <1>9
  <2> QED
    BY <1>10, <2>1, <2>2, <2>3
<1>13. ReadLoad(n1, "total_failed", fa) = n2
  <2>1. ReadLoad(n1, "total_failed", fa) = [n1 EXCEPT !.load.failed = fa]
    BY DEF ReadLoad
  <2>2. [n1 EXCEPT !.load.failed = fa] = Put(n1, "load", [l1 EXCEPT !.failed = fa])
    BY <1>11 DEF Put
  <2>3. [l1 EXCEPT !.failed = fa] = l2
    BY <1>9
  <2> QED
    BY <1>10, <1>11, <2>1, <2>2, <2>3
<1>14. PICK h : h = Header("load")
  OBVIOUS
<1>15. ReadLines(At(h, m), Split(a, "\n")) = At(h, n1)
  BY <1>1, <1>2, <1>11, <1>12, <1>14, Dispatch, RowRead
<1>16. ReadLines(At(h, n1), Split(b, "\n")) = At(h, n2)
  BY <1>1, <1>2, <1>11, <1>13, <1>14, Dispatch, RowRead
<1>17. PICK s0, s1, s2 : s0 = At(h, m) /\ s1 = At(h, n1) /\ s2 = At(h, n2)
  OBVIOUS
<1>18. ReadLines(s0, Printed(o)) = s1
  BY <1>3, <1>15, <1>17, ChainRead
<1>19. ReadLines(s0, Printed(p)) = s2
  BY <1>4, <1>16, <1>17, <1>18, ChainRead
<1>20. PICK G : G = [x \in Seq(R) |-> {Then("load", m, Put(l2, "files", y)) : y \in Kin(WordFile, x)}]
  OBVIOUS
<1>21. \A x \in Seq(R) : G[x] = {Then("load", m, Put(l2, "files", y)) : y \in Kin(WordFile, x)}
  BY <1>20
<1>22. ASSUME NEW x \in Seq(R), NEW f \in R, NEW st \in G[x]
       PROVE  ReadLines(st, Split(F[f], "\n")) \in G[Add(x, f)]
  <2>1. PICK y \in Kin(WordFile, x) : st = Then("load", m, Put(l2, "files", y))
    BY <1>21
  <2>2. F[f] = FileLine(f)
    BY <1>5, <1>6 DEF FileF
  <2>3. PICK u : u = Put(l2, "files", y)
    OBVIOUS
  <2>4. u.files = y /\ \A z : Put(u, "files", z) = Put(l2, "files", z)
    BY <1>9, <2>3, PutPut DEF Put
  <2>5. PICK r \in WordFile :
           /\ ReadLines(Then("load", m, u), Split(FileLine(f), "\n"))
                = Then("load", m, Put(u, "files", Add(y, r)))
           /\ f \in WordFile => r = f
    BY <1>5, <2>4, FileRead
  <2>6. Add(y, r) \in Kin(WordFile, Add(x, f))
    BY <2>5, KinAdd
  <2>7. Add(x, f) \in Seq(R)
    BY AddType
  <2> QED
    BY <1>21, <2>1, <2>2, <2>3, <2>4, <2>5, <2>6, <2>7
<1>23. TakesItems(R, F, G)
  <2>1. Itemwise(R, F, G)
    BY <1>22 DEF Itemwise
  <2> QED
    BY <1>6, <2>1, TakeItems
<1>24. s2 \in G[<<>>]
  <2>1. <<>> \in Seq(R)
    BY EmptySeq
  <2>2. Put(l2, "files", <<>>) = l2
    BY <1>9 DEF Put
  <2>3. Then("load", m, Put(l2, "files", <<>>)) = s2
    BY <1>10, <1>14, <1>17, <2>2 DEF Then
  <2> QED
    BY <1>21, <2>1, <2>3, KinNone
<1>25. ReadLines(s2, Printed(q)) \in G[fs]
  BY <1>5, <1>7, <1>23, <1>24 DEF TakesItems
<1>26. PICK y \in Kin(WordFile, fs) : ReadLines(s2, Printed(q)) = Then("load", m, Put(l2, "files", y))
  BY <1>5, <1>21, <1>25
<1>27. PICK w : w = Put(l2, "files", y)
  OBVIOUS
<1>28. w = [rows |-> ro, failed |-> fa, files |-> y]
  BY <1>9, <1>27 DEF Put
<1>29. w \in LoadOut(v)
  BY <1>0, <1>28 DEF LoadOut, WordLoad, Kin
<1>30. ReadLines(s0, Printed(Cat(p, q))) = ReadLines(s2, Printed(q))
  BY <1>19, ChainRead
<1> QED
  BY <1>8, <1>14, <1>17, <1>26, <1>27, <1>29, <1>30

-----------------------------------------------------------------------------
(* References to edges.                                                    *)

Snug(A) == {t \in Seq(A) : Tight(t)}

(* What the parser makes of the two sides of a separator.                  *)
LEMMA LeftSnug ==
  ASSUME NEW A, NEW sep, NEW t \in Seq(A)
  PROVE  Left(t, sep) \in Snug(Free(A, sep)) /\ Right(t, sep) \in Snug(A)
<1>1. CASE t \in Seq(Free(A, sep))
  <2>1. Left(t, sep) = Trim(t) /\ Right(t, sep) = <<>>
    BY <1>1, LeftFree
  <2>2. PICK F : F = Free(A, sep)
    OBVIOUS
  <2>3. Trim(t) \in Seq(F) /\ Tight(Trim(t))
    BY <1>1, <2>2, TrimType
  <2>4. <<>> \in Seq(A) /\ Tight(<<>>)
    BY EmptySeq DEF Tight
  <2> QED
    BY <2>1, <2>2, <2>3, <2>4 DEF Snug
<1>2. CASE sep \in A /\ \E a \in Seq(Free(A, sep)), b \in Seq(A) : t = Cat(Add(a, sep), b)
  <2>1. PICK a \in Seq(Free(A, sep)), b \in Seq(A) : t = Cat(Add(a, sep), b)
    BY <1>2
  <2>2. Left(t, sep) = Trim(a) /\ Right(t, sep) = Trim(b)
    BY <1>2, <2>1, LeftFirst
  <2>3. PICK F : F = Free(A, sep)
    OBVIOUS
  <2>4. Trim(a) \in Seq(F) /\ Tight(Trim(a))
    BY <2>1, <2>3, TrimType
  <2>5. Trim(b) \in Seq(A) /\ Tight(Trim(b))
    BY <2>1, TrimType
  <2> QED
    BY <2>2, <2>3, <2>4, <2>5 DEF Snug
<1> QED
  BY <1>1, <1>2, FirstSep

(* The separators of a reference, under names of their own.                *)
Arrow == " -> "
Opening == " ("
Closing == ")"
Punctual(A) == {Arrow, Opening, Closing} \subseteq A

LEMMA RefCalled ==
  ASSUME NEW e, NEW t
  PROVE  /\ EdgeRef(e) = e.child \o <<Arrow>> \o e.parent \o <<Opening>> \o e.name \o <<Closing>>
         /\ Where(t, Arrow) = 0 => ParseEdgeRef(t) = [child |-> <<>>, parent |-> <<>>, name |-> <<>>]
         /\ Where(t, Arrow) # 0 =>
              ParseEdgeRef(t) = [child |-> Left(t, Arrow), parent |-> Left(Right(t, Arrow), Opening),
                                 name |-> Left(Right(Right(t, Arrow), Opening), Closing)]
         /\ Arrow \notin Blank /\ Opening \notin Blank /\ Closing \notin Blank
<1>1. EdgeRef(e) = e.child \o <<Arrow>> \o e.parent \o <<Opening>> \o e.name \o <<Closing>>
  BY Zenon DEF EdgeRef, Arrow, Opening, Closing
<1>2. ASSUME Where(t, Arrow) = 0
      PROVE ParseEdgeRef(t) = [child |-> <<>>, parent |-> <<>>, name |-> <<>>]
  BY <1>2, Zenon DEF ParseEdgeRef, Arrow
<1>3. ASSUME Where(t, Arrow) # 0
      PROVE ParseEdgeRef(t) = [child |-> Left(t, Arrow), parent |-> Left(Right(t, Arrow), Opening),
                               name |-> Left(Right(Right(t, Arrow), Opening), Closing)]
  BY <1>3, Zenon DEF ParseEdgeRef, Arrow, Opening, Closing
<1>4. Arrow \notin Blank /\ Opening \notin Blank /\ Closing \notin Blank
  BY Zenon DEF Blank, Arrow, Opening, Closing
<1> QED
  BY <1>1, <1>2, <1>3, <1>4

(* References as the parser makes them of text of A.                       *)
Refs(A) ==
  [child : Snug(Free(A, Arrow)), parent : Snug(Free(A, Opening)), name : Snug(Free(A, Closing))]

LEMMA SnugIs ==
  ASSUME NEW A, NEW t \in Snug(A)
  PROVE  t \in Seq(A) /\ Tight(t) /\ Trim(t) = t
<1>1. t \in Seq(A) /\ Tight(t)
  BY DEF Snug
<1> QED
  BY <1>1, TrimTight

LEMMA SnugFree ==
  ASSUME NEW A, NEW c
  PROVE  Snug(Free(A, c)) \subseteq Snug(A) /\ <<>> \in Snug(A)
<1>1. Seq(Free(A, c)) \subseteq Seq(A)
  BY FreeType
<1>2. <<>> \in Seq(A) /\ Tight(<<>>)
  BY EmptySeq DEF Tight
<1> QED
  BY <1>1, <1>2 DEF Snug

LEMMA ParsedRef ==
  ASSUME NEW A, NEW t \in Seq(A)
  PROVE  ParseEdgeRef(t) \in Refs(A)
<1>1. PICK rest \in Seq(A) : rest = Right(t, Arrow)
  BY LeftSnug, SnugIs
<1>2. PICK more \in Seq(A) : more = Right(rest, Opening)
  BY LeftSnug, SnugIs
<1>3. Left(t, Arrow) \in Snug(Free(A, Arrow))
  BY LeftSnug
<1>4. Left(rest, Opening) \in Snug(Free(A, Opening))
  BY LeftSnug
<1>5. Left(more, Closing) \in Snug(Free(A, Closing))
  BY LeftSnug
<1>6. PICK P, Q, R : P = Snug(Free(A, Arrow)) /\ Q = Snug(Free(A, Opening)) /\ R = Snug(Free(A, Closing))
  OBVIOUS
<1>60. \A c : <<>> \in Snug(Free(A, c))
  BY SnugFree
<1>61. <<>> \in P /\ <<>> \in Q /\ <<>> \in R
  BY <1>6, <1>60
<1>62. \A c \in P : \A p \in Q : \A n \in R : [child |-> c, parent |-> p, name |-> n] \in Refs(A)
  BY <1>6 DEF Refs
<1>7. CASE Where(t, Arrow) = 0
  <2>1. ParseEdgeRef(t) = [child |-> <<>>, parent |-> <<>>, name |-> <<>>]
    BY <1>7, RefCalled
  <2> QED
    BY <1>61, <1>62, <2>1
<1>8. CASE Where(t, Arrow) # 0
  <2>1. ParseEdgeRef(t) = [child |-> Left(t, Arrow), parent |-> Left(rest, Opening), name |-> Left(more, Closing)]
    BY <1>1, <1>2, <1>8, RefCalled
  <2> QED
    BY <1>3, <1>4, <1>5, <1>6, <1>62, <2>1
<1> QED
  BY <1>7, <1>8

(* The text of a reference.                                                *)
RefRest(p, n) == Cat(Add(p, Opening), Add(n, Closing))

LEMMA RefIs ==
  ASSUME NEW A, Punctual(A),
         NEW e, e.child \in Seq(A), e.parent \in Seq(A), e.name \in Seq(A)
  PROVE  /\ RefRest(e.parent, e.name) \in Seq(A)
         /\ EdgeRef(e) = Cat(Add(e.child, Arrow), RefRest(e.parent, e.name))
         /\ EdgeRef(e) \in Seq(A)
<1>0. Arrow \in A /\ Opening \in A /\ Closing \in A
  BY DEF Punctual
<1>1. PICK c \in Seq(A), p \in Seq(A), n \in Seq(A) : c = e.child /\ p = e.parent /\ n = e.name
  OBVIOUS
<1>2. PICK x \in Seq(A) : x = Add(c, Arrow)
  BY <1>0, AddType
<1>3. PICK y \in Seq(A) : y = Add(p, Opening)
  BY <1>0, AddType
<1>4. PICK z \in Seq(A) : z = Add(n, Closing)
  BY <1>0, AddType
<1>5. PICK r \in Seq(A) : r = Cat(y, z)
  BY CatType
<1>6. PICK t \in Seq(A) : t = Cat(x, r)
  BY CatType
<1>7. PICK i \in Seq(A), j \in Seq(A), k \in Seq(A) : i = <<Arrow>> /\ j = <<Opening>> /\ k = <<Closing>>
  BY <1>0, One
<1>8. EdgeRef(e) = Cat(Cat(Cat(Cat(Cat(c, i), p), j), n), k)
  BY <1>1, <1>7, RefCalled DEF Cat
<1>9. x = Cat(c, i)
  BY <1>0, <1>2, <1>7, AddIs
<1>10. y = Cat(p, j)
  BY <1>0, <1>3, <1>7, AddIs
<1>11. z = Cat(n, k)
  BY <1>0, <1>4, <1>7, AddIs
<1>12. PICK u \in Seq(A) : u = Cat(x, p)
  BY CatType
<1>130. Cat(Cat(x, p), j) = Cat(x, Cat(p, j))
  BY CatCat
<1>13. Cat(u, j) = Cat(x, y)
  BY <1>10, <1>12, <1>130
<1>14. PICK v \in Seq(A) : v = Cat(x, y)
  BY CatType
<1>150. Cat(Cat(v, n), k) = Cat(v, Cat(n, k))
  BY CatCat
<1>15. Cat(Cat(v, n), k) = Cat(v, z)
  BY <1>11, <1>150
<1>160. Cat(Cat(x, y), z) = Cat(x, Cat(y, z))
  BY CatCat
<1>16. Cat(v, z) = t
  BY <1>5, <1>6, <1>14, <1>160
<1>17. EdgeRef(e) = t
  BY <1>8, <1>9, <1>12, <1>13, <1>14, <1>15, <1>16
<1> QED
  BY <1>1, <1>2, <1>3, <1>4, <1>5, <1>6, <1>17 DEF RefRest

LEMMA RefEnds ==
  ASSUME NEW A, Punctual(A),
         NEW c \in Snug(A), NEW p \in Snug(A), NEW n \in Snug(A)
  PROVE  /\ Inked(RefRest(p, n)) /\ Inked(Cat(Add(c, Arrow), RefRest(p, n)))
         /\ Inked(Add(n, Closing))
<1>00. Arrow \in A /\ Opening \in A /\ Closing \in A
  BY DEF Punctual
<1>0. c \in Seq(A) /\ p \in Seq(A) /\ n \in Seq(A) /\ Tight(c) /\ Tight(p) /\ Tight(n)
  BY SnugIs
<1>1. Arrow \notin Blank /\ Opening \notin Blank /\ Closing \notin Blank
  BY RefCalled
<1>2. \A s \in Seq(A) : \A x \in A :
         x \notin Blank /\ Tight(s) => /\ Add(s, x) \in Seq(A) /\ Add(s, x) # <<>>
                                       /\ Add(s, x)[1] \notin Blank
                                       /\ Add(s, x)[Len(Add(s, x))] \notin Blank
  <2> SUFFICES ASSUME NEW s \in Seq(A), NEW x \in A, x \notin Blank, Tight(s)
               PROVE  /\ Add(s, x) \in Seq(A) /\ Add(s, x) # <<>>
                      /\ Add(s, x)[1] \notin Blank
                      /\ Add(s, x)[Len(Add(s, x))] \notin Blank
    OBVIOUS
  <2>1. Add(s, x)[1] \notin Blank
    <3>1. CASE s = <<>>
      BY <3>1, One
    <3>2. CASE s # <<>>
      <4>1. 1 \in 1 .. Len(s)
        BY <3>2
      <4>2. Add(s, x)[1] = s[1]
        BY <4>1, AddKeeps
      <4> QED
        BY <3>2, <4>2 DEF Tight
    <3> QED
      BY <3>1, <3>2
  <2>2. /\ Add(s, x) \in Seq(A) /\ Add(s, x) # <<>> /\ Add(s, x)[Len(Add(s, x))] = x
    BY AddLast
  <2> QED
    BY <2>1, <2>2 DEF Tight
<1>3. PICK x \in Seq(A) : x = Add(c, Arrow) /\ x # <<>> /\ x[1] \notin Blank
  BY <1>00, <1>0, <1>1, <1>2
<1>4. PICK y \in Seq(A) : y = Add(p, Opening) /\ y # <<>> /\ y[1] \notin Blank
  BY <1>00, <1>0, <1>1, <1>2
<1>5. PICK z \in Seq(A) : z = Add(n, Closing) /\ z # <<>> /\ z[1] \notin Blank /\ z[Len(z)] \notin Blank
  BY <1>00, <1>0, <1>1, <1>2
<1>6. PICK r \in Seq(A) : r = Cat(y, z)
  BY CatType
<1>7. Inked(r)
  BY <1>4, <1>5, <1>6, CatInked
<1>8. r # <<>> /\ r[Len(r)] \notin Blank
  BY <1>7 DEF Inked, Tight
<1>9. Inked(Cat(x, r))
  BY <1>3, <1>8, CatInked
<1> QED
  BY <1>3, <1>4, <1>5, <1>6, <1>7, <1>9 DEF RefRest, Inked, Tight

(* What the parser has made comes back as it is.                           *)
LEMMA RefRead ==
  ASSUME NEW A, Punctual(A), NEW e \in Refs(A)
  PROVE  ParseEdgeRef(EdgeRef(e)) = e
<1>0. Arrow \in A /\ Opening \in A /\ Closing \in A
  BY DEF Punctual
<1>1. PICK c, p, n : c = e.child /\ p = e.parent /\ n = e.name
  OBVIOUS
<1>2. c \in Snug(Free(A, Arrow)) /\ p \in Snug(Free(A, Opening)) /\ n \in Snug(Free(A, Closing))
  BY <1>1 DEF Refs
<1>3. c \in Snug(A) /\ p \in Snug(A) /\ n \in Snug(A)
  BY <1>2, SnugFree
<1>4. c \in Seq(A) /\ p \in Seq(A) /\ n \in Seq(A)
  BY <1>3, SnugIs
<1>5. /\ c \in Seq(Free(A, Arrow)) /\ p \in Seq(Free(A, Opening)) /\ n \in Seq(Free(A, Closing))
      /\ Trim(c) = c /\ Trim(p) = p /\ Trim(n) = n
  BY <1>2, SnugIs
<1>6. PICK r \in Seq(A) : r = RefRest(p, n)
  BY <1>1, <1>4, RefIs
<1>7. EdgeRef(e) = Cat(Add(c, Arrow), r)
  BY <1>1, <1>4, <1>6, RefIs
<1>8. PICK z \in Seq(A) : z = Add(n, Closing)
  BY <1>0, <1>4, AddType
<1>9. Trim(r) = r /\ Trim(z) = z
  <2>1. Tight(r) /\ Tight(z)
    BY <1>3, <1>6, <1>8, RefEnds DEF Inked
  <2> QED
    BY <2>1, TrimTight
<1>10. PICK t : t = Cat(Add(c, Arrow), r)
  OBVIOUS
<1>11. Left(t, Arrow) = c /\ Right(t, Arrow) = r /\ Where(t, Arrow) = Len(c) + 1
  <2>1. /\ Left(Cat(Add(c, Arrow), r), Arrow) = Trim(c)
        /\ Right(Cat(Add(c, Arrow), r), Arrow) = Trim(r)
    BY <1>0, <1>5, LeftFirst
  <2>2. Where(Cat(Add(c, Arrow), r), Arrow) = Len(c) + 1
    BY <1>0, <1>5, WhereFirst
  <2> QED
    BY <1>5, <1>9, <1>10, <2>1, <2>2
<1>12. Where(t, Arrow) # 0
  <2>1. Len(c) \in Nat
    BY <1>4, LenProperties
  <2>2. Where(t, Arrow) = Len(c) + 1
    BY <1>11
  <2>3. \A k \in Nat : k + 1 # 0
    OBVIOUS
  <2> QED
    BY <2>1, <2>2, <2>3
<1>13. r = Cat(Add(p, Opening), z)
  BY <1>6, <1>8 DEF RefRest
<1>14. Left(r, Opening) = p /\ Right(r, Opening) = z
  <2>1. /\ Left(Cat(Add(p, Opening), z), Opening) = Trim(p)
        /\ Right(Cat(Add(p, Opening), z), Opening) = Trim(z)
    BY <1>0, <1>5, LeftFirst
  <2> QED
    BY <1>5, <1>9, <1>13, <2>1
<1>15. Left(z, Closing) = n
  <2>1. PICK o \in Seq(A) : o = <<>>
    BY EmptySeq
  <2>20. n \in Seq(Free(A, Closing))
    BY <1>5
  <2>2. Left(Cat(Add(n, Closing), o), Closing) = Trim(n)
    BY <1>0, <2>20, LeftFirst
  <2>3. Cat(z, o) = z
    BY <2>1, CatNone
  <2> QED
    BY <1>5, <1>8, <2>2, <2>3
<1>16. ParseEdgeRef(t) = [child |-> c, parent |-> p, name |-> n]
  BY <1>11, <1>12, <1>14, <1>15, RefCalled
<1>17. e = [child |-> c, parent |-> p, name |-> n]
  BY <1>1 DEF Refs
<1> QED
  BY <1>7, <1>10, <1>16, <1>17

LEMMA TrimInk ==
  ASSUME NEW A, NEW t \in Seq(A), NEW k \in 1 .. Len(t), t[k] \notin Blank
  PROVE  Trim(t) # <<>>
<1>1. PICK i \in 1 .. Len(t), j \in 1 .. Len(t) : i <= j /\ Trim(t) = SubSeq(t, i, j)
  BY TrimCases
<1>2. i \in Nat /\ j \in Nat /\ i >= 1 /\ j <= Len(t)
  OBVIOUS
<1>3. Len(SubSeq(t, i, j)) = j - i + 1
  BY <1>1, <1>2
<1>4. Len(<<>>) = 0
  OBVIOUS
<1>5. j - i + 1 # 0
  BY <1>1, <1>2
<1> QED
  BY <1>1, <1>3, <1>4, <1>5

LEMMA TrimFront ==
  ASSUME NEW A, NEW u \in Seq(A), NEW v \in Seq(A), Trim(u) # <<>>
  PROVE  Trim(Cat(u, v)) # <<>> /\ Trim(Cat(u, v))[1] = Trim(u)[1]
<1>1. PICK a \in Blanks(A), b \in Blanks(A), c \in Seq(A) : Tight(c) /\ u = Cat(a, Cat(c, b))
  BY TrimCut
<1>2. Trim(u) = c
  BY <1>1, TrimPadded
<1>3. a \in Seq(A) /\ b \in Seq(A)
  BY BlanksType
<1>4. PICK w \in Seq(A) : w = Cat(c, b)
  BY <1>3, CatType
<1>5. PICK x \in Seq(A) : x = Cat(w, v)
  BY CatType
<1>6. Cat(Cat(a, w), v) = Cat(a, Cat(w, v))
  BY <1>3, CatCat
<1>7. Cat(u, v) = Cat(a, x)
  BY <1>1, <1>4, <1>5, <1>6
<1>8. Trim(Cat(a, x)) = Trim(x)
  BY TrimLeft
<1>9. c # <<>> /\ c[1] \notin Blank
  BY <1>1, <1>2 DEF Tight
<1>10. w # <<>> /\ w[1] = c[1]
  <2>1. c # <<>> => Cat(c, b) # <<>> /\ Cat(c, b)[1] = c[1]
    BY <1>3, CatEnds
  <2> QED
    BY <1>4, <1>9, <2>1
<1>11. x # <<>> /\ x[1] = c[1]
  <2>1. w # <<>> => Cat(w, v) # <<>> /\ Cat(w, v)[1] = w[1]
    BY CatEnds
  <2> QED
    BY <1>5, <1>10, <2>1
<1>12. Trim(x) # <<>> /\ Trim(x)[1] = x[1]
  BY <1>9, <1>11, TrimHead
<1> QED
  BY <1>2, <1>7, <1>8, <1>11, <1>12

(* The rows, and those without the separator of a reason or status.        *)
Colons == " :: "
RowMark == Free(Token, "\n")
Curt == Free(RowMark, Colons)

LEMMA Alphabets ==
  /\ Row = Seq(RowMark) /\ Colons \in RowMark /\ Colons \notin Blank
  /\ Punctual(RowMark) /\ Punctual(Curt)
  /\ Seq(Curt) \subseteq Row /\ Snug(Curt) \subseteq Snug(RowMark)
<1>1. {" -> ", " (", ")", " :: "} \subseteq Mark
  BY Zenon DEF Mark
<1>2. " -> " # "\n" /\ " (" # "\n" /\ ")" # "\n" /\ " :: " # "\n"
  BY Zenon
<1>3. " -> " # " :: " /\ " (" # " :: " /\ ")" # " :: "
  BY Zenon
<1>4. {Arrow, Opening, Closing, Colons} \subseteq Mark /\ {Arrow, Opening, Closing, Colons} \subseteq {x \in {Arrow, Opening, Closing, Colons} : x # "\n"}
  BY <1>1, <1>2, Zenon DEF Arrow, Opening, Closing, Colons
<1>5. Arrow # Colons /\ Opening # Colons /\ Closing # Colons
  BY <1>3, Zenon DEF Arrow, Opening, Closing, Colons
<1>6. \A x \in {Arrow, Opening, Closing, Colons} : x \in RowMark
  BY <1>4, MarkToken, FreeType DEF RowMark
<1>7. Punctual(RowMark) /\ Punctual(Curt)
  BY <1>5, <1>6, FreeType DEF Punctual, Curt
<1>8. Colons \notin Blank
  BY DEF Colons, Blank
<1>9. Row = Seq(RowMark)
  BY DEF Row, RowMark
<1>10. Seq(Curt) \subseteq Seq(RowMark)
  BY FreeType DEF Curt
<1>11. Snug(Curt) \subseteq Snug(RowMark)
  BY <1>10 DEF Snug
<1> QED
  BY <1>6, <1>7, <1>8, <1>9, <1>10, <1>11

(* "<who> :: <why>": what is read of it.                                   *)
Told(who, why) == Cat(Add(who, Colons), why)

LEMMA ToldRead ==
  ASSUME NEW who \in Snug(RowMark), NEW why \in Spoken
  PROVE  /\ Told(who, why) \in Prose /\ Rest(Told(who, why)) = Rest(why)
         /\ why \in Row => Told(who, why) \in Row
         /\ Left(Trim(First(Told(who, why))), Colons) \in Snug(Curt)
         /\ Right(Trim(First(Told(who, why))), Colons) \in Ink
         /\ who \in Seq(Curt) =>
              /\ Left(Trim(First(Told(who, why))), Colons) = who
              /\ Right(Trim(First(Told(who, why))), Colons) = Trim(First(why))
         /\ who \notin Seq(Curt) /\ Inked(who) /\ who[Len(who)] # Colons =>
              /\ Right(who, Colons) # <<>>
              /\ Right(Trim(First(Told(who, why))), Colons)[1] = Right(who, Colons)[1]
<1>1. /\ who \in Seq(RowMark) /\ Tight(who) /\ Trim(who) = who /\ who \in Row
      /\ Colons \in RowMark /\ Colons \notin Blank
  BY SnugIs, Alphabets
<1>2. why \in Prose
  BY DEF Spoken
<1>3. PICK h \in Seq(RowMark) : h = Add(who, Colons)
  BY <1>1, AddType
<1>4. h \in Row /\ h # <<>> /\ h[1] \notin Blank
  <2>1. Add(who, Colons) # <<>> /\ Add(who, Colons)[1] = IF who = <<>> THEN Colons ELSE who[1]
    BY <1>1, AddEnds
  <2> QED
    BY <1>1, <1>3, <2>1, Alphabets DEF Tight
<1>5. PICK val : val = Told(who, why)
  OBVIOUS
<1>6. /\ val \in Prose /\ First(val) = Cat(h, First(why)) /\ Rest(val) = Rest(why)
  <2>1. Cat(h, why) \in Prose /\ First(Cat(h, why)) = Cat(h, First(why)) /\ Rest(Cat(h, why)) = Rest(why)
    BY <1>2, <1>4, FirstCat
  <2> QED
    BY <1>3, <1>5, <2>1 DEF Told
<1>7. ASSUME why \in Row PROVE val \in Row
  <2>1. Cat(h, why) \in Row
    BY <1>4, <1>7, RowCat
  <2> QED
    BY <1>3, <1>5, <2>1 DEF Told
<1>8. PICK f \in Row : f = First(why) /\ f # <<>> /\ f[1] \notin Blank /\ Trim(f) \in Ink
  BY FirstHead
<1>9. PICK g \in Seq(RowMark) : g = Trim(f) /\ g \in Ink /\ g # <<>> /\ g[1] \notin Blank /\ Trim(g) = g
  BY <1>8, InkIs, Alphabets
<1>10. PICK y : y = Trim(First(val))
  OBVIOUS
<1>11. y = Cat(h, g)
  <2>1. f \in Seq(RowMark)
    BY Alphabets
  <2>2. Trim(Cat(h, f)) = Cat(h, Trim(f))
    BY <1>4, <1>8, <2>1, TrimLead
  <2> QED
    BY <1>6, <1>8, <1>9, <1>10, <2>2
<1>12. y \in Seq(RowMark)
  BY <1>11, CatType
<1>13. Left(y, Colons) \in Snug(Curt)
  BY <1>12, LeftSnug DEF Curt
<1>14. ASSUME who \in Seq(Curt) PROVE Left(y, Colons) = who /\ Right(y, Colons) = g
  <2>1. who \in Seq(Free(RowMark, Colons))
    BY <1>14 DEF Curt
  <2>2. Left(Cat(Add(who, Colons), g), Colons) = Trim(who) /\ Right(Cat(Add(who, Colons), g), Colons) = Trim(g)
    BY <1>1, <2>1, LeftFirst
  <2> QED
    BY <1>1, <1>3, <1>9, <1>11, <2>2
<1>15. ASSUME who \notin Seq(Curt)
       PROVE  /\ Right(y, Colons) \in Ink
              /\ Inked(who) /\ who[Len(who)] # Colons =>
                   Right(who, Colons) # <<>> /\ Right(y, Colons)[1] = Right(who, Colons)[1]
  <2>1. PICK a \in Seq(Curt), b \in Seq(RowMark) : who = Cat(Add(a, Colons), b)
    BY <1>1, <1>15, FirstSep DEF Curt
  <2>2. PICK k \in Seq(RowMark) : k = Add(a, Colons)
    <3>1. a \in Seq(RowMark)
      BY Alphabets
    <3> QED
      BY <1>1, <3>1, AddType
  <2>3. PICK l \in Seq(RowMark) : l = Add(b, Colons)
    BY <1>1, AddType
  <2>4. h = Cat(k, l)
    <3>1. Cat(k, Add(b, Colons)) = Add(Cat(k, b), Colons)
      BY <1>1, CatAdd
    <3> QED
      BY <1>3, <2>1, <2>2, <2>3, <3>1
  <2>5. PICK z \in Seq(RowMark) : z = Cat(l, g)
    BY CatType
  <2>6. Cat(Cat(k, l), g) = Cat(k, Cat(l, g))
    BY CatCat
  <2>7. y = Cat(Add(a, Colons), z)
    BY <1>11, <2>2, <2>4, <2>5, <2>6
  <2>8. Right(y, Colons) = Trim(z)
    <3>1. a \in Seq(Free(RowMark, Colons))
      BY DEF Curt
    <3>2. Right(Cat(Add(a, Colons), z), Colons) = Trim(z)
      BY <1>1, <3>1, LeftFirst
    <3> QED
      BY <2>7, <3>2
  <2>9. Right(who, Colons) = Trim(b)
    <3>1. a \in Seq(Free(RowMark, Colons))
      BY DEF Curt
    <3>2. Right(Cat(Add(a, Colons), b), Colons) = Trim(b)
      BY <1>1, <3>1, LeftFirst
    <3> QED
      BY <2>1, <3>2
  <2>10. Trim(l) # <<>>
    <3>1. Add(b, Colons)[Len(Add(b, Colons))] = Colons /\ Add(b, Colons) # <<>>
      BY <1>1, AddLast
    <3>2. l[Len(l)] \notin Blank /\ l # <<>>
      BY <1>1, <2>3, <3>1
    <3>3. Len(l) \in 1 .. Len(l)
      BY <3>2
    <3> QED
      BY <3>2, <3>3, TrimInk
  <2>11. Trim(z) # <<>> /\ Trim(z) \in Row /\ Tight(Trim(z))
    <3>1. Trim(Cat(l, g)) # <<>>
      BY <2>10, TrimFront
    <3>2. z \in Row
      BY Alphabets
    <3> QED
      BY <2>5, <3>1, <3>2, RowType
  <2>12. Trim(z) \in Ink
    BY <2>11 DEF Ink, Inked
  <2>13. ASSUME Inked(who), who[Len(who)] # Colons
         PROVE  Trim(b) # <<>> /\ Trim(z)[1] = Trim(b)[1]
    <3>1. b # <<>>
      <4>1. SUFFICES ASSUME b = <<>> PROVE FALSE
        OBVIOUS
      <4>2. Cat(k, b) = k
        BY <4>1, CatNone
      <4>3. who = k
        BY <2>1, <2>2, <4>2
      <4>4. a \in Seq(RowMark)
        BY Alphabets
      <4>5. Add(a, Colons)[Len(Add(a, Colons))] = Colons
        BY <1>1, <4>4, AddLast
      <4> QED
        BY <2>2, <2>13, <4>3, <4>5
    <3>2. who[Len(who)] = b[Len(b)]
      <4>1. b # <<>> => Cat(k, b) # <<>> /\ Cat(k, b)[Len(Cat(k, b))] = b[Len(b)]
        BY CatEnds
      <4> QED
        BY <2>1, <2>2, <3>1, <4>1
    <3>3. b[Len(b)] \notin Blank /\ Len(b) \in 1 .. Len(b)
      BY <2>13, <3>1, <3>2 DEF Inked, Tight
    <3>4. Trim(b) # <<>>
      BY <3>3, TrimInk
    <3>5. PICK o \in Seq(RowMark) : o = <<Colons>>
      BY <1>1, One
    <3>6. l = Cat(b, o)
      BY <1>1, <2>3, <3>5, AddIs
    <3>7. PICK w \in Seq(RowMark) : w = Cat(o, g)
      BY CatType
    <3>8. Cat(Cat(b, o), g) = Cat(b, Cat(o, g))
      BY CatCat
    <3>9. z = Cat(b, w)
      BY <2>5, <3>6, <3>7, <3>8
    <3>10. Trim(Cat(b, w))[1] = Trim(b)[1]
      BY <3>4, TrimFront
    <3> QED
      BY <3>4, <3>9, <3>10
  <2> QED
    BY <2>8, <2>9, <2>12, <2>13
<1>16. Right(y, Colons) \in Ink
  BY <1>9, <1>14, <1>15
<1> QED
  BY <1>5, <1>6, <1>7, <1>8, <1>9, <1>10, <1>13, <1>14, <1>15, <1>16

-----------------------------------------------------------------------------
(* Lists of items in a section.                                            *)

(* A list of a section.  W is the section's summary with a list of items;  *)
(* an item x of R adds one of Q, and f[x] if it is one of E.  One that is  *)
(* not of E may hold a line in brackets, which ends the section.           *)
Grown(m, s, Q, W, y) == UNION {Near(s, Put(m, s, W[Add(y, r)])) : r \in Q}

Adds(m, s, R, E, Q, L, W, f) ==
  \A x \in R, y \in Seq(Q) :
    /\ ReadLines(Then(s, m, W[y]), L[x]) \in Grown(m, s, Q, W, y)
    /\ x \in E => ReadLines(Then(s, m, W[y]), L[x]) = Then(s, m, W[Add(y, f[x])])
    /\ \A st \in Near(s, Put(m, s, W[y])) :
         ReadLines(st, L[x]) \in Near(s, Put(m, s, W[y])) \cup Grown(m, s, Q, W, y)

(* Empty together.                                                         *)
Alike(p, q) == p = <<>> <=> q = <<>>

Ran(m, s, E, Q, W, f, p, st) ==
  \E y \in Seq(Q) : /\ st \in Near(s, Put(m, s, W[y]))
                    /\ Alike(p, y)
                    /\ p \in Seq(E) => y = Image(p, f) /\ st = Then(s, m, W[y])

LEMMA ThenNear ==
  ASSUME NEW s, NEW m, NEW v
  PROVE  Then(s, m, v) \in Near(s, Put(m, s, v))
BY NearIs DEF Then

LEMMA AddNot ==
  ASSUME NEW A, NEW s \in Seq(A), NEW x \in A
  PROVE  Add(s, x) # <<>>
BY AddType

LEMMA AlikeIs ==
  ASSUME NEW p, NEW q
  PROVE  /\ p # <<>> /\ q # <<>> => Alike(p, q)
         /\ p = <<>> /\ q = <<>> => Alike(p, q)
         /\ Alike(p, q) /\ q = <<>> => p = <<>>
BY DEF Alike

LEMMA RanStart ==
  ASSUME NEW m, NEW s, NEW E, NEW Q, NEW W, NEW f
  PROVE  Ran(m, s, E, Q, W, f, <<>>, Then(s, m, W[<<>>]))
BY ThenNear, ImageNone, EmptySeq, AlikeIs DEF Ran

LEMMA AddsIs ==
  ASSUME NEW m, NEW s, NEW R, NEW E, NEW Q, NEW L, NEW W, NEW f,
         Adds(m, s, R, E, Q, L, W, f), NEW x \in R, NEW y \in Seq(Q)
  PROVE  /\ ReadLines(Then(s, m, W[y]), L[x]) \in Grown(m, s, Q, W, y)
         /\ x \in E => ReadLines(Then(s, m, W[y]), L[x]) = Then(s, m, W[Add(y, f[x])])
         /\ \A st \in Near(s, Put(m, s, W[y])) :
              ReadLines(st, L[x]) \in Near(s, Put(m, s, W[y])) \cup Grown(m, s, Q, W, y)
BY DEF Adds

LEMMA GrownIs ==
  ASSUME NEW m, NEW s, NEW Q, NEW W, NEW y \in Seq(Q), NEW st \in Grown(m, s, Q, W, y)
  PROVE  \E z \in Seq(Q) : z # <<>> /\ st \in Near(s, Put(m, s, W[z]))
<1>1. PICK r \in Q : st \in Near(s, Put(m, s, W[Add(y, r)]))
  BY DEF Grown
<1>2. Add(y, r) \in Seq(Q) /\ Add(y, r) # <<>>
  BY AddType
<1> QED
  BY <1>1, <1>2

LEMMA RanStep ==
  ASSUME NEW m, NEW s, NEW R, NEW E \in SUBSET R, NEW Q, NEW L, NEW W, NEW f \in [R -> Q],
         Adds(m, s, R, E, Q, L, W, f),
         NEW p \in Seq(R), NEW x \in R, NEW st, Ran(m, s, E, Q, W, f, p, st)
  PROVE  Ran(m, s, E, Q, W, f, Add(p, x), ReadLines(st, L[x]))
<1>1. PICK y \in Seq(Q) : /\ st \in Near(s, Put(m, s, W[y]))
                          /\ Alike(p, y)
                          /\ p \in Seq(E) => y = Image(p, f) /\ st = Then(s, m, W[y])
  BY DEF Ran
<1>2. PICK n : n = ReadLines(st, L[x])
  OBVIOUS
<1>0. /\ ReadLines(Then(s, m, W[y]), L[x]) \in Grown(m, s, Q, W, y)
      /\ x \in E => ReadLines(Then(s, m, W[y]), L[x]) = Then(s, m, W[Add(y, f[x])])
      /\ \A t \in Near(s, Put(m, s, W[y])) :
           ReadLines(t, L[x]) \in Near(s, Put(m, s, W[y])) \cup Grown(m, s, Q, W, y)
  BY AddsIs
<1>5. y = <<>> => p = <<>>
  BY <1>1, AlikeIs
<1>3. CASE p \in Seq(E) /\ x \in E
  <2>0. st = Then(s, m, W[y]) /\ y = Image(p, f)
    BY <1>1, <1>3
  <2>1. n = Then(s, m, W[Add(y, f[x])])
    BY <1>2, <1>3, <1>0, <2>0
  <2>2. Add(Image(p, f), f[x]) = Image(Add(p, x), f)
    BY ImageAdd
  <2>3. Add(y, f[x]) \in Seq(Q) /\ Add(y, f[x]) # <<>> /\ Add(p, x) # <<>>
    BY <1>1, <1>3, AddType, AddNot
  <2>4. PICK z \in Seq(Q) : z = Add(y, f[x]) /\ z = Image(Add(p, x), f) /\ z # <<>> /\ n = Then(s, m, W[z])
    BY <2>0, <2>1, <2>2, <2>3
  <2>5. n \in Near(s, Put(m, s, W[z])) /\ Alike(Add(p, x), z)
    BY <2>3, <2>4, ThenNear, AlikeIs
  <2> QED
    BY <1>2, <2>4, <2>5 DEF Ran
<1>4. CASE ~(p \in Seq(E) /\ x \in E)
  <2>1. Add(p, x) \notin Seq(E) /\ Add(p, x) # <<>>
    BY <1>4, AddIn, AddNot
  <2>2. CASE p \in Seq(E)
    <3>1. n \in Grown(m, s, Q, W, y)
      BY <1>0, <1>1, <1>2, <2>2
    <3>2. PICK z \in Seq(Q) : z # <<>> /\ n \in Near(s, Put(m, s, W[z]))
      BY <3>1, GrownIs
    <3> QED
      BY <1>2, <2>1, <3>2, AlikeIs DEF Ran
  <2>3. CASE p \notin Seq(E)
    <3>1. p # <<>> /\ y # <<>>
      BY <1>5, <2>3, EmptySeq
    <3>2. n \in Near(s, Put(m, s, W[y])) \cup Grown(m, s, Q, W, y)
      BY <1>0, <1>1, <1>2
    <3>3. PICK z \in Seq(Q) : z # <<>> /\ n \in Near(s, Put(m, s, W[z]))
      BY <3>1, <3>2, GrownIs
    <3> QED
      BY <1>2, <2>1, <3>3, AlikeIs DEF Ran
  <2> QED
    BY <2>2, <2>3
<1> QED
  BY <1>3, <1>4

(* Where the reader may be after any of the items.                         *)
Far(m, s, Q, W) == UNION {Near(s, Put(m, s, W[y])) : y \in Seq(Q)}

LEMMA RanFar ==
  ASSUME NEW m, NEW s, NEW E, NEW Q, NEW W, NEW f, NEW p, NEW st, Ran(m, s, E, Q, W, f, p, st)
  PROVE  st \in Far(m, s, Q, W)
BY DEF Ran, Far

LEMMA FarStep ==
  ASSUME NEW m, NEW s, NEW R, NEW E, NEW Q, NEW L, NEW W, NEW f,
         Adds(m, s, R, E, Q, L, W, f), NEW x \in R, NEW st \in Far(m, s, Q, W)
  PROVE  ReadLines(st, L[x]) \in Far(m, s, Q, W)
<1>1. PICK y \in Seq(Q) : st \in Near(s, Put(m, s, W[y]))
  BY DEF Far
<1>2. ReadLines(st, L[x]) \in Near(s, Put(m, s, W[y])) \cup Grown(m, s, Q, W, y)
  BY <1>1, AddsIs
<1>3. PICK z \in Seq(Q) : ReadLines(st, L[x]) \in Near(s, Put(m, s, W[z]))
  BY <1>2, GrownIs
<1> QED
  BY <1>3 DEF Far

(* A list of lines, and one of blocks of lines.                            *)
Single(R, F) == [x \in R |-> Split(F[x], "\n")]

Several(R, F) == [x \in R |-> Printed(F[x])]

LEMMA ListRead ==
  ASSUME NEW m, NEW s, NEW S, NEW R \in SUBSET S, NEW E \in SUBSET R, NEW Q, NEW W, NEW f \in [R -> Q],
         NEW F \in [S -> Entry], Adds(m, s, R, E, Q, Single(R, F), W, f), NEW p \in Seq(R)
  PROVE  /\ Ran(m, s, E, Q, W, f, p, ReadLines(Then(s, m, W[<<>>]), Printed(Image(p, F))))
         /\ \A st \in Far(m, s, Q, W) : ReadLines(st, Printed(Image(p, F))) \in Far(m, s, Q, W)
<1>1. PICK X : X = Far(m, s, Q, W)
  OBVIOUS
<1>2. PICK G, H : /\ G = [q \in Seq(R) |-> {st \in X : Ran(m, s, E, Q, W, f, q, st)}]
                  /\ H = [q \in Seq(R) |-> X]
  OBVIOUS
<1>3. /\ \A q \in Seq(R) : \A st : st \in G[q] <=> Ran(m, s, E, Q, W, f, q, st)
      /\ \A q \in Seq(R) : H[q] = X
  BY <1>1, <1>2, RanFar
<1>4. ASSUME NEW q \in Seq(R), NEW x \in R
      PROVE  /\ \A st \in G[q] : ReadLines(st, Split(F[x], "\n")) \in G[Add(q, x)]
             /\ \A st \in H[q] : ReadLines(st, Split(F[x], "\n")) \in H[Add(q, x)]
  <2>1. Add(q, x) \in Seq(R) /\ Single(R, F)[x] = Split(F[x], "\n")
    BY AddType DEF Single
  <2>2. ASSUME NEW st \in G[q] PROVE ReadLines(st, Split(F[x], "\n")) \in G[Add(q, x)]
    <3>1. Ran(m, s, E, Q, W, f, q, st)
      BY <1>3, <2>2
    <3>2. Ran(m, s, E, Q, W, f, Add(q, x), ReadLines(st, Single(R, F)[x]))
      BY <3>1, RanStep
    <3> QED
      BY <1>3, <2>1, <3>2
  <2>3. ASSUME NEW st \in X PROVE ReadLines(st, Split(F[x], "\n")) \in X
    <3>1. ReadLines(st, Single(R, F)[x]) \in Far(m, s, Q, W)
      BY <1>1, <2>3, FarStep
    <3> QED
      BY <1>1, <2>1, <3>1
  <2> QED
    BY <1>3, <2>1, <2>2, <2>3
<1>5. Itemwise(R, F, G) /\ Itemwise(R, F, H)
  BY <1>4 DEF Itemwise
<1>6. TakesItems(R, F, G) /\ TakesItems(R, F, H)
  <2>1. TakesItems(R, F, G)
    BY <1>5, TakeItems
  <2>2. TakesItems(R, F, H)
    BY <1>5, TakeItems
  <2> QED
    BY <2>1, <2>2
<1>7. <<>> \in Seq(R)
  BY EmptySeq
<1>8. Then(s, m, W[<<>>]) \in G[<<>>]
  BY <1>3, <1>7, RanStart
<1>9. ReadLines(Then(s, m, W[<<>>]), Printed(Image(p, F))) \in G[p]
  BY <1>6, <1>8 DEF TakesItems
<1>10. \A st \in H[<<>>] : ReadLines(st, Printed(Image(p, F))) \in H[p]
  BY <1>6 DEF TakesItems
<1> QED
  BY <1>1, <1>3, <1>7, <1>9, <1>10

LEMMA BlocksRead ==
  ASSUME NEW m, NEW s, NEW S, NEW R \in SUBSET S, NEW E \in SUBSET R, NEW Q, NEW W, NEW f \in [R -> Q],
         NEW F \in [S -> Seq(Entry)], Adds(m, s, R, E, Q, Several(R, F), W, f), NEW p \in Seq(R)
  PROVE  /\ Ran(m, s, E, Q, W, f, p, ReadLines(Then(s, m, W[<<>>]), Printed(FlattenSeq(Image(p, F)))))
         /\ \A st \in Far(m, s, Q, W) : ReadLines(st, Printed(FlattenSeq(Image(p, F)))) \in Far(m, s, Q, W)
<1>1. PICK X : X = Far(m, s, Q, W)
  OBVIOUS
<1>2. PICK G, H : /\ G = [q \in Seq(R) |-> {st \in X : Ran(m, s, E, Q, W, f, q, st)}]
                  /\ H = [q \in Seq(R) |-> X]
  OBVIOUS
<1>3. /\ \A q \in Seq(R) : \A st : st \in G[q] <=> Ran(m, s, E, Q, W, f, q, st)
      /\ \A q \in Seq(R) : H[q] = X
  BY <1>1, <1>2, RanFar
<1>4. ASSUME NEW q \in Seq(R), NEW x \in R
      PROVE  /\ \A st \in G[q] : ReadLines(st, Printed(F[x])) \in G[Add(q, x)]
             /\ \A st \in H[q] : ReadLines(st, Printed(F[x])) \in H[Add(q, x)]
  <2>1. Add(q, x) \in Seq(R) /\ Several(R, F)[x] = Printed(F[x])
    BY AddType DEF Several
  <2>2. ASSUME NEW st \in G[q] PROVE ReadLines(st, Printed(F[x])) \in G[Add(q, x)]
    <3>1. Ran(m, s, E, Q, W, f, q, st)
      BY <1>3, <2>2
    <3>2. Ran(m, s, E, Q, W, f, Add(q, x), ReadLines(st, Several(R, F)[x]))
      BY <3>1, RanStep
    <3> QED
      BY <1>3, <2>1, <3>2
  <2>3. ASSUME NEW st \in X PROVE ReadLines(st, Printed(F[x])) \in X
    <3>1. ReadLines(st, Several(R, F)[x]) \in Far(m, s, Q, W)
      BY <1>1, <2>3, FarStep
    <3> QED
      BY <1>1, <2>1, <3>1
  <2> QED
    BY <1>3, <2>1, <2>2, <2>3
<1>5. Blockwise(R, F, G) /\ Blockwise(R, F, H)
  BY <1>4 DEF Blockwise
<1>6. TakesBlocks(R, F, G) /\ TakesBlocks(R, F, H)
  <2>1. TakesBlocks(R, F, G)
    BY <1>5, TakeBlocks
  <2>2. TakesBlocks(R, F, H)
    BY <1>5, TakeBlocks
  <2> QED
    BY <2>1, <2>2
<1>7. <<>> \in Seq(R)
  BY EmptySeq
<1>8. Then(s, m, W[<<>>]) \in G[<<>>]
  BY <1>3, <1>7, RanStart
<1>9. ReadLines(Then(s, m, W[<<>>]), Printed(FlattenSeq(Image(p, F)))) \in G[p]
  BY <1>6, <1>8 DEF TakesBlocks
<1>10. \A st \in H[<<>>] : ReadLines(st, Printed(FlattenSeq(Image(p, F)))) \in H[p]
  BY <1>6 DEF TakesBlocks
<1> QED
  BY <1>1, <1>3, <1>7, <1>9, <1>10

(* Items of one line each, which are read as f says.                       *)
Reads(m, s, Q, W, key, R, V, f) ==
  \A x \in R, y \in Seq(Q) :
    ReadEntry(Put(m, s, W[y]), Header(s), key, Trim(First(V[x]))) = Put(m, s, W[Add(y, f[x])])

Lines(key, R, V, F) == \A x \in R : F[x] = Line(key, V[x])

Quiet(E, V) == \A x \in E : Harmless(V[x])

LEMMA LineAdds ==
  ASSUME NEW m, IsSum(m), NEW s \in Field9, NEW R, NEW E \in SUBSET R, NEW Q, NEW W,
         NEW f \in [R -> Q], NEW key \in Keys, NEW V \in [R -> Prose], NEW F,
         Lines(key, R, V, F), Reads(m, s, Q, W, key, R, V, f), Quiet(E, V)
  PROVE  Adds(m, s, R, E, Q, Single(R, F), W, f)
<1> SUFFICES ASSUME NEW x \in R, NEW y \in Seq(Q)
             PROVE  /\ ReadLines(Then(s, m, W[y]), Single(R, F)[x]) \in Grown(m, s, Q, W, y)
                    /\ x \in E => ReadLines(Then(s, m, W[y]), Single(R, F)[x]) = Then(s, m, W[Add(y, f[x])])
                    /\ \A st \in Near(s, Put(m, s, W[y])) :
                         ReadLines(st, Single(R, F)[x]) \in Near(s, Put(m, s, W[y])) \cup Grown(m, s, Q, W, y)
  BY DEF Adds
<1>1. PICK v \in Prose, r \in Q : v = V[x] /\ r = f[x]
  OBVIOUS
<1>2. PICK u, w : u = W[y] /\ w = W[Add(y, r)]
  OBVIOUS
<1>3. Single(R, F)[x] = Split(Line(key, v), "\n")
  BY <1>1 DEF Single, Lines
<1>4. Line(key, v) \in Entry
  BY <1>1, EntryIs
<1>5. ReadEntry(Put(m, s, u), Header(s), key, Trim(First(v))) = Put(m, s, w)
  BY <1>1, <1>2 DEF Reads
<1>6. /\ ReadLines(Then(s, m, u), Split(Line(key, v), "\n")) \in Near(s, Put(m, s, w))
      /\ Harmless(v) => ReadLines(Then(s, m, u), Split(Line(key, v), "\n")) = Then(s, m, w)
      /\ \A st \in Near(s, Put(m, s, u)) :
           ReadLines(st, Split(Line(key, v), "\n")) \in Near(s, Put(m, s, u)) \cup Near(s, Put(m, s, w))
  BY <1>1, <1>4, <1>5, NearEntry
<1>7. Near(s, Put(m, s, w)) \subseteq Grown(m, s, Q, W, y)
  BY <1>1, <1>2 DEF Grown
<1>8. x \in E => Harmless(v)
  BY <1>1 DEF Quiet
<1> QED
  BY <1>1, <1>2, <1>3, <1>6, <1>7, <1>8

(* A list of lines of which all but those of E may go on.                  *)
LEMMA LinesRead ==
  ASSUME NEW m, IsSum(m), NEW s \in Field9, NEW S, NEW R \in SUBSET S, NEW E \in SUBSET R, NEW Q, NEW W,
         NEW f \in [R -> Q], NEW key \in Keys, NEW V \in [R -> Prose], NEW F \in [S -> Entry],
         Lines(key, R, V, F), Reads(m, s, Q, W, key, R, V, f), Quiet(E, V), NEW p \in Seq(R)
  PROVE  /\ Ran(m, s, E, Q, W, f, p, ReadLines(Then(s, m, W[<<>>]), Printed(Image(p, F))))
         /\ \A st \in Far(m, s, Q, W) : ReadLines(st, Printed(Image(p, F))) \in Far(m, s, Q, W)
<1>1. Adds(m, s, R, E, Q, Single(R, F), W, f)
  BY LineAdds
<1> QED
  BY <1>1, ListRead

(* What of a reference the reader has made itself.                         *)
LEMMA RanAll ==
  ASSUME NEW m, NEW s, NEW R, NEW Q, NEW W, NEW f, NEW p \in Seq(R), NEW st, Ran(m, s, R, Q, W, f, p, st)
  PROVE  st = Then(s, m, W[Image(p, f)])
BY DEF Ran

Fixes(f, K) == \A x \in K : f[x] = x

LEMMA ImageSame ==
  ASSUME NEW R, NEW T, NEW f \in [R -> T], NEW K \in SUBSET R, Fixes(f, K), NEW p \in Seq(K)
  PROVE  Image(p, f) = p
<1>1. PICK q \in Seq(R) : q = p
  BY SeqMonotonic
<1>2. PICK r \in Seq(T) : r = Image(q, f)
  BY ImageIs
<1>3. Len(r) = Len(q) /\ \A i \in 1 .. Len(q) : r[i] = f[q[i]]
  BY <1>2, ImageIs
<1>4. \A i \in 1 .. Len(q) : q[i] \in K
  BY <1>1
<1>5. \A i \in 1 .. Len(q) : r[i] = q[i]
  BY <1>3, <1>4 DEF Fixes
<1>6. r = q
  BY <1>3, <1>5, SeqEqual
<1> QED
  BY <1>1, <1>2, <1>6

-----------------------------------------------------------------------------
(* [stats], [validate] and [fkdefine].                                     *)

LEMMA ToldIs ==
  ASSUME NEW who \in Row, NEW why \in Prose
  PROVE  who \o <<" :: ">> \o why = Told(who, why)
<1>1. who \in Seq(Token) /\ why \in Seq(Token) /\ Colons \in Token
  BY RowType, Alphabets, FreeType DEF Prose, Text, RowMark
<1>2. Add(who, Colons) = Cat(who, <<Colons>>)
  BY <1>1, AddIs
<1> QED
  BY <1>2 DEF Told, Cat, Colons

LEMMA SnugRow == \A t \in Snug(RowMark) : t \in Row /\ Trim(t) = t /\ Tight(t)
BY SnugIs, Alphabets

LEMMA SpokenIs ==
  /\ Spoken \subseteq Prose
  /\ Ink \subseteq Spoken /\ Cell \subseteq Ink
  /\ \A t \in Ink : t \in Row /\ Harmless(t) /\ First(t) = t /\ Trim(t) = t
BY InkSpoken, InkIs, CellIs, RowHarmless DEF Spoken

(* [stats]                                                                 *)
RawUnrefreshed == [cls : Snug(RowMark), reason : Spoken]

ReadUnrefreshed == [cls : Snug(Curt), reason : Ink]

RawStats == [updated : Figure, failed : Seq(RawUnrefreshed)]

TakenStats == [updated : Figure, failed : Seq(ReadUnrefreshed)]

StatsOut(v) ==
  {w \in TakenStats : /\ w.updated = v.updated /\ Alike(v.failed, w.failed)
                      /\ v \in TakenStats => w = v}

Unrefreshed(x) ==
  [cls |-> Left(Trim(First(Told(x.cls, x.reason))), Colons),
   reason |-> Right(Trim(First(Told(x.cls, x.reason))), Colons)]

LEMMA UnrefreshedIs ==
  ASSUME NEW x \in RawUnrefreshed
  PROVE  /\ Told(x.cls, x.reason) \in Prose /\ x \in LooseUnrefreshed
         /\ UnrefreshedLine(x) = Line("fail", Told(x.cls, x.reason))
         /\ Unrefreshed(x) \in ReadUnrefreshed
         /\ x \in ReadUnrefreshed => Unrefreshed(x) = x /\ Harmless(Told(x.cls, x.reason))
<1>1. PICK a \in Snug(RowMark), b \in Spoken : a = x.cls /\ b = x.reason /\ a \in Row /\ b \in Prose
  BY SnugRow, SpokenIs DEF RawUnrefreshed
<1>2. PICK t : t = Told(a, b)
  OBVIOUS
<1>3. /\ t \in Prose /\ Rest(t) = Rest(b)
      /\ b \in Row => t \in Row
      /\ Left(Trim(First(t)), Colons) \in Snug(Curt)
      /\ Right(Trim(First(t)), Colons) \in Ink
      /\ a \in Seq(Curt) => /\ Left(Trim(First(t)), Colons) = a
                            /\ Right(Trim(First(t)), Colons) = Trim(First(b))
  BY <1>2, ToldRead
<1>4. x \in LooseUnrefreshed
  BY <1>1 DEF RawUnrefreshed, LooseUnrefreshed
<1>5. UnrefreshedLine(x) = Line("fail", t)
  BY <1>1, <1>2, ToldIs DEF UnrefreshedLine
<1>6. PICK l \in Snug(Curt), r \in Ink : l = Left(Trim(First(t)), Colons) /\ r = Right(Trim(First(t)), Colons)
  BY <1>3
<1>7. Unrefreshed(x) = [cls |-> l, reason |-> r]
  BY <1>1, <1>2, <1>6 DEF Unrefreshed
<1>8. [cls |-> l, reason |-> r] \in ReadUnrefreshed
  BY DEF ReadUnrefreshed
<1>9. ASSUME x \in ReadUnrefreshed PROVE Unrefreshed(x) = x /\ Harmless(t)
  <2>1. a \in Seq(Curt) /\ b \in Ink
    BY <1>1, <1>9, SnugIs DEF ReadUnrefreshed
  <2>2. l = a /\ r = b /\ Harmless(t)
    BY <1>3, <1>6, <2>1, SpokenIs, RowHarmless
  <2>3. x = [cls |-> a, reason |-> b]
    BY <1>1, <1>9 DEF ReadUnrefreshed
  <2> QED
    BY <1>7, <2>2, <2>3
<1> QED
  BY <1>1, <1>2, <1>3, <1>4, <1>5, <1>7, <1>8, <1>9

LEMMA StatsTake ==
  ASSUME NEW m, IsSum(m), NEW u, NEW y, u.failed = y, NEW val
  PROVE  ReadEntry(Put(m, "stats", u), Header("stats"), "fail", val)
           = Put(m, "stats", Put(u, "failed", Add(y, [cls |-> Left(val, Colons), reason |-> Right(val, Colons)])))
<1>1. PICK r : r = [cls |-> Left(val, Colons), reason |-> Right(val, Colons)]
  OBVIOUS
<1>2. PICK n : n = Put(m, "stats", u) /\ n.stats = u /\ \A z : Put(n, "stats", z) = Put(m, "stats", z)
  BY PutIs DEF Field9
<1>3. ReadStats(n, "fail", val) = [n EXCEPT !.stats.failed = Append(@, r)]
  BY <1>1 DEF ReadStats, Colons
<1>4. [n EXCEPT !.stats.failed = Append(@, r)] = Put(n, "stats", [u EXCEPT !.failed = Append(@, r)])
  BY <1>2 DEF Put
<1>5. [u EXCEPT !.failed = Append(@, r)] = Put(u, "failed", Add(y, r))
  BY DEF Put, Add
<1>6. ReadEntry(n, Header("stats"), "fail", val) = ReadStats(n, "fail", val)
  BY Dispatch
<1>7. ReadStats(n, "fail", val) = Put(m, "stats", Put(u, "failed", Add(y, r)))
  BY <1>2, <1>3, <1>4, <1>5
<1> QED
  BY <1>1, <1>2, <1>6, <1>7

LEMMA StatsRead ==
  ASSUME NEW m, IsSum(m), m.stats = Nothing.stats, NEW v \in RawStats
  PROVE  \E w \in StatsOut(v) :
           ReadLines(At(Header("stats"), m), Printed(StatsLines(v))) \in Near("stats", Put(m, "stats", w))
<1>0. PICK up \in Figure, ls \in Seq(RawUnrefreshed) : up = v.updated /\ ls = v.failed
  BY DEF RawStats
<1>1. up \in Row /\ Trim(up) = up /\ "stats" \in Field9 /\ "updated" \in Keys /\ "fail" \in Keys
  BY FigureIs DEF Field9, Keys, Key
<1>2. PICK a \in Entry : a = Line("updated", up)
  BY <1>1, EntryIs
<1>3. PICK o \in Seq(Entry) : o = <<a>>
  BY One
<1>4. PICK S, R, Q, F : S = LooseUnrefreshed /\ R = RawUnrefreshed /\ Q = ReadUnrefreshed /\ F = UnrefreshedF
  OBVIOUS
<1>5. PICK f, V : f = [x \in R |-> Unrefreshed(x)] /\ V = [x \in R |-> Told(x.cls, x.reason)]
  OBVIOUS
<1>6. R \in SUBSET S /\ F \in [S -> Entry] /\ Q \in SUBSET R
  <2>1. Q \in SUBSET R
    BY <1>4, Alphabets, SpokenIs DEF RawUnrefreshed, ReadUnrefreshed
  <2> QED
    BY <1>4, <2>1, UnrefreshedIs, LineTypes
<1>7. f \in [R -> Q] /\ V \in [R -> Prose] /\ \A x \in R : V[x] = Told(x.cls, x.reason) /\ f[x] = Unrefreshed(x)
  BY <1>4, <1>5, UnrefreshedIs
<1>8. Lines("fail", R, V, F)
  <2>1. \A x \in R : F[x] = UnrefreshedLine(x)
    BY <1>4, <1>6 DEF UnrefreshedF
  <2> QED
    BY <1>4, <1>7, <2>1, UnrefreshedIs DEF Lines
<1>9. Quiet(Q, V)
  BY <1>4, <1>6, <1>7, UnrefreshedIs DEF Quiet
<1>10. PICK l1, W : /\ l1 = [updated |-> up, failed |-> <<>>]
                    /\ W = [y \in Seq(Q) |-> Put(l1, "failed", y)]
  OBVIOUS
<1>11. \A y \in Seq(Q) : W[y] = Put(l1, "failed", y)
  BY <1>10
<1>12. \A y : Put(l1, "failed", y) = [updated |-> up, failed |-> y]
  BY <1>10 DEF Put
<1>13. Reads(m, "stats", Q, W, "fail", R, V, f)
  <2> SUFFICES ASSUME NEW x \in R, NEW y \in Seq(Q)
               PROVE  ReadEntry(Put(m, "stats", W[y]), Header("stats"), "fail", Trim(First(V[x])))
                        = Put(m, "stats", W[Add(y, f[x])])
    BY DEF Reads
  <2>1. PICK u, val : u = Put(l1, "failed", y) /\ val = Trim(First(V[x]))
    OBVIOUS
  <2>2. u.failed = y /\ \A z : Put(u, "failed", z) = Put(l1, "failed", z)
    BY <1>12, <2>1, PutPut
  <2>3. PICK r : r = f[x] /\ r \in Q /\ r = [cls |-> Left(val, Colons), reason |-> Right(val, Colons)]
    BY <1>7, <2>1 DEF Unrefreshed
  <2>4. ReadEntry(Put(m, "stats", u), Header("stats"), "fail", val)
           = Put(m, "stats", Put(u, "failed", Add(y, [cls |-> Left(val, Colons), reason |-> Right(val, Colons)])))
    BY <2>2, StatsTake
  <2>5. Add(y, r) \in Seq(Q)
    BY <2>3, AddType
  <2> QED
    BY <1>11, <2>1, <2>2, <2>3, <2>4, <2>5
<1>14. PICK q \in Seq(Entry) : q = Image(ls, F) /\ q = LinesOf(ls, UnrefreshedLine)
  <2>1. ls \in Seq(S)
    BY <1>4, <1>6, SeqMonotonic
  <2>2. Image(ls, F) \in Seq(Entry)
    BY <1>6, <2>1, ImageIs
  <2> QED
    BY <1>4, <2>1, <2>2, LinesAre
<1>15. StatsLines(v) = Cat(o, q)
  BY <1>0, <1>2, <1>3, <1>14 DEF StatsLines, Cat
<1>16. ReadLines(At(Header("stats"), m), Printed(o)) = Then("stats", m, l1)
  <2>1. PICK l0 : l0 = [updated |-> <<>>, failed |-> <<>>] /\ m.stats = l0
    BY DEF Nothing
  <2>2. ReadStats(m, "updated", up) = [m EXCEPT !.stats.updated = up]
    BY DEF ReadStats
  <2>3. [m EXCEPT !.stats.updated = up] = Put(m, "stats", [l0 EXCEPT !.updated = up])
    BY <2>1 DEF Put
  <2>4. [l0 EXCEPT !.updated = up] = l1
    BY <1>10, <2>1
  <2>5. PICK n : n = Put(m, "stats", l1) /\ IsSum(n)
    BY <1>1, PutIs
  <2>6. ReadEntry(m, Header("stats"), "updated", Trim(up)) = n
    <3>1. ReadEntry(m, Header("stats"), "updated", up) = ReadStats(m, "updated", up)
      BY Dispatch
    <3>2. ReadStats(m, "updated", up) = n
      BY <2>2, <2>3, <2>4, <2>5
    <3> QED
      BY <1>1, <3>1, <3>2
  <2>7. ReadLines(At(Header("stats"), m), Split(a, "\n")) = At(Header("stats"), n)
    BY <1>1, <1>2, <2>5, <2>6, RowRead
  <2> QED
    BY <1>3, <2>5, <2>7, ChainRead DEF Then
<1>17. W[<<>>] = l1
  <2>1. Put(l1, "failed", <<>>) = l1
    BY <1>10, <1>12
  <2> QED
    BY <1>11, <2>1, EmptySeq
<1>18. PICK st : st = ReadLines(Then("stats", m, W[<<>>]), Printed(q)) /\ Ran(m, "stats", Q, Q, W, f, ls, st)
  <2>1. Ran(m, "stats", Q, Q, W, f, ls, ReadLines(Then("stats", m, W[<<>>]), Printed(Image(ls, F))))
    BY <1>1, <1>4, <1>6, <1>7, <1>8, <1>9, <1>13, LinesRead
  <2> QED
    BY <1>14, <2>1
<1>19. ReadLines(At(Header("stats"), m), Printed(StatsLines(v))) = st
  BY <1>15, <1>16, <1>17, <1>18, ChainRead
<1>20. PICK y \in Seq(Q) : /\ st \in Near("stats", Put(m, "stats", W[y])) /\ Alike(ls, y)
                           /\ ls \in Seq(Q) => y = Image(ls, f)
  BY <1>18 DEF Ran
<1>21. PICK w : w = W[y] /\ w = [updated |-> up, failed |-> y]
  BY <1>11, <1>12
<1>22. w \in TakenStats /\ w.updated = v.updated /\ Alike(v.failed, w.failed)
  BY <1>0, <1>4, <1>20, <1>21 DEF TakenStats
<1>23. ASSUME v \in TakenStats PROVE w = v
  <2>1. ls \in Seq(Q) /\ v = [updated |-> up, failed |-> ls]
    BY <1>0, <1>4, <1>23 DEF TakenStats
  <2>2. Fixes(f, Q)
    BY <1>4, <1>6, <1>7, UnrefreshedIs DEF Fixes
  <2>3. Image(ls, f) = ls
    <3>1. Q \in SUBSET R /\ f \in [R -> Q] /\ ls \in Seq(Q)
      BY <1>6, <1>7, <2>1
    <3> QED
      BY <2>2, <3>1, ImageSame, SMTT(20), ZenonT(30)
  <2> QED
    BY <1>20, <1>21, <2>1, <2>3
<1> QED
  BY <1>19, <1>20, <1>21, <1>22, <1>23 DEF StatsOut

(* References of rows are rows that keep their ends.                       *)
LEMMA SnugRef ==
  ASSUME NEW e, e.child \in Snug(RowMark), e.parent \in Snug(RowMark), e.name \in Snug(RowMark)
  PROVE  /\ EdgeRef(e) \in Row /\ EdgeRef(e) \in Snug(RowMark) /\ Inked(EdgeRef(e))
         /\ EdgeRef(e) \in Ink /\ EdgeRef(e)[Len(EdgeRef(e))] # Colons
<1>1. PICK c \in Snug(RowMark), p \in Snug(RowMark), n \in Snug(RowMark) : c = e.child /\ p = e.parent /\ n = e.name
  OBVIOUS
<1>2. c \in Seq(RowMark) /\ p \in Seq(RowMark) /\ n \in Seq(RowMark) /\ Punctual(RowMark)
  BY SnugIs, Alphabets
<1>3. PICK r \in Seq(RowMark), t \in Seq(RowMark) : r = RefRest(p, n) /\ t = EdgeRef(e) /\ t = Cat(Add(c, Arrow), r)
  BY <1>1, <1>2, RefIs
<1>4. Inked(r) /\ Inked(t)
  BY <1>2, <1>3, RefEnds
<1>5. t[Len(t)] = Closing
  <2>1. PICK a \in Seq(RowMark), k \in RowMark : a = Add(p, Opening) /\ k = Closing
    BY <1>2, AddType DEF Punctual
  <2>2. Add(n, k) \in Seq(RowMark) /\ Add(n, k) # <<>> /\ Add(n, k)[Len(Add(n, k))] = k
    BY <1>2, AddLast
  <2>3. r = Cat(a, Add(n, k))
    BY <1>3, <2>1 DEF RefRest
  <2>4. r # <<>> /\ r[Len(r)] = k
    BY <2>1, <2>2, <2>3, CatEnds
  <2>5. PICK b \in Seq(RowMark) : b = Add(c, Arrow)
    BY <1>2, AddType DEF Punctual
  <2>6. t[Len(t)] = r[Len(r)]
    BY <1>3, <2>4, <2>5, CatEnds
  <2> QED
    BY <2>1, <2>4, <2>6
<1>6. Closing # Colons
  BY DEF Closing, Colons
<1>7. t \in Row
  BY Alphabets
<1> QED
  BY <1>3, <1>4, <1>5, <1>6, <1>7 DEF Snug, Ink, Inked

LEMMA CurtIs ==
  ASSUME NEW t \in Row
  PROVE  /\ t \in Seq(Curt) => Colons \notin ToSet(t)
         /\ Colons \notin ToSet(t) => t \in Seq(Curt)
<1>1. t \in Seq(RowMark)
  BY Alphabets
<1>2. ASSUME t \in Seq(Curt) PROVE Colons \notin ToSet(t)
  <2>1. \A i \in 1 .. Len(t) : t[i] \in Curt
    BY <1>2
  <2>2. \A i \in 1 .. Len(t) : t[i] # Colons
    BY <2>1, FreeType DEF Curt
  <2> QED
    BY <1>1, <2>2 DEF ToSet
<1>3. ASSUME Colons \notin ToSet(t) PROVE t \in Seq(Curt)
  <2>1. \A i \in 1 .. Len(t) : t[i] \in RowMark /\ t[i] # Colons
    BY <1>1, <1>3 DEF ToSet
  <2>2. \A i \in 1 .. Len(t) : t[i] \in Curt
    BY <2>1, FreeType DEF Curt
  <2> QED
    BY <1>1, <2>2
<1> QED
  BY <1>2, <1>3

(* [validate]                                                              *)
RawEdge ==
  {x \in [child : Snug(RowMark), parent : Snug(RowMark), name : Snug(RowMark), status : Ink] : Unfeigned(x)}

ReadEdges ==
  [child : Snug(Free(Curt, Arrow)), parent : Snug(Free(Curt, Opening)), name : Snug(Free(Curt, Closing)),
   status : Ink]

Violated(v) == \E e \in ToSet(v) : e.status[1] = "violated"

ValidateOut(v) ==
  {w \in Seq(ReadEdges) : (v \in Seq(ReadEdges) => w = v) /\ (Violated(w) => Violated(v))}

EdgeTold(x) == Told(EdgeRef(x), x.status)

EdgeTaken(x) == WithStatus(ParseEdgeRef(Left(EdgeTold(x), Colons)), Right(EdgeTold(x), Colons))

Tri(x) == [child |-> x.child, parent |-> x.parent, name |-> x.name]

LEMMA TriIs ==
  ASSUME NEW x, Tri(x) \in Refs(Curt)
  PROVE  /\ x.child \in Snug(RowMark) /\ x.parent \in Snug(RowMark) /\ x.name \in Snug(RowMark)
         /\ EdgeRef(x) \in Seq(Curt) /\ EdgeRef(Tri(x)) = EdgeRef(x)
<1>1. PICK c, p, n : /\ c = x.child /\ p = x.parent /\ n = x.name
                     /\ c \in Snug(Free(Curt, Arrow)) /\ p \in Snug(Free(Curt, Opening))
                     /\ n \in Snug(Free(Curt, Closing))
  BY DEF Refs, Tri
<1>2. c \in Snug(Curt) /\ p \in Snug(Curt) /\ n \in Snug(Curt)
  BY <1>1, SnugFree
<1>3. c \in Seq(Curt) /\ p \in Seq(Curt) /\ n \in Seq(Curt)
  BY <1>2, SnugIs
<1>4. EdgeRef(x) \in Seq(Curt)
  BY <1>1, <1>3, Alphabets, RefIs
<1>5. EdgeRef(Tri(x)) = EdgeRef(x)
  BY DEF Tri, EdgeRef
<1> QED
  BY <1>1, <1>2, <1>4, <1>5, Alphabets

(* A reference with what is said of it.                                    *)
LEMMA RefTold ==
  ASSUME NEW x, x.child \in Snug(RowMark), x.parent \in Snug(RowMark), x.name \in Snug(RowMark),
         NEW b \in Ink, NEW t, t = Told(EdgeRef(x), b)
  PROVE  /\ t \in Row /\ Trim(t) = t /\ EdgeRef(x) \o <<" :: ">> \o b = t
         /\ ParseEdgeRef(Left(t, Colons)) \in Refs(Curt) /\ Right(t, Colons) \in Ink
         /\ Tri(x) \in Refs(Curt) => ParseEdgeRef(Left(t, Colons)) = Tri(x) /\ Right(t, Colons) = b
         /\ EdgeRef(x) \in Seq(Curt) => Right(t, Colons) = b
         /\ EdgeRef(x) \notin Seq(Curt) => Right(t, Colons)[1] = Right(EdgeRef(x), Colons)[1]
<1>1. b \in Row /\ b \in Spoken /\ b \in Prose /\ First(b) = b /\ Trim(b) = b /\ b # <<>> /\ Tight(b)
  BY SpokenIs, InkIs
<1>3. PICK a \in Snug(RowMark) : a = EdgeRef(x) /\ a \in Row /\ a \in Ink /\ Inked(a) /\ a[Len(a)] # Colons
  BY SnugRef
<1>5. /\ t \in Row
      /\ Left(Trim(First(t)), Colons) \in Snug(Curt)
      /\ Right(Trim(First(t)), Colons) \in Ink
      /\ a \in Seq(Curt) => /\ Left(Trim(First(t)), Colons) = a
                            /\ Right(Trim(First(t)), Colons) = Trim(First(b))
      /\ a \notin Seq(Curt) => Right(Trim(First(t)), Colons)[1] = Right(a, Colons)[1]
  BY <1>1, <1>3, ToldRead
<1>6. First(t) = t
  BY <1>5, RowProse, FirstIs
<1>7. Trim(t) = t
  <2>1. t \in Seq(RowMark) /\ a \in Seq(RowMark) /\ b \in Seq(RowMark) /\ Colons \in RowMark
    BY <1>1, <1>3, <1>5, Alphabets
  <2>2. a # <<>> /\ a[1] \notin Blank /\ b[Len(b)] \notin Blank
    BY <1>1, <1>3, InkIs DEF Tight
  <2>3. PICK h \in Seq(RowMark) : h = Add(a, Colons) /\ h # <<>> /\ h[1] = a[1]
    BY <2>1, <2>2, AddEnds
  <2>4. t = Cat(h, b)
    BY <1>3, <2>3 DEF Told
  <2>5. Inked(Cat(h, b))
    BY <1>1, <2>1, <2>2, <2>3, CatInked
  <2> QED
    BY <2>1, <2>4, <2>5, TrimTight DEF Inked
<1>9. a \o <<" :: ">> \o b = t
  BY <1>1, <1>3, ToldIs
<1>11. PICK l \in Snug(Curt), r \in Ink : l = Left(t, Colons) /\ r = Right(t, Colons)
  BY <1>5, <1>6, <1>7
<1>12. PICK e \in Refs(Curt) : e = ParseEdgeRef(l)
  BY <1>11, SnugIs, ParsedRef
<1>15. ASSUME Tri(x) \in Refs(Curt) PROVE e = Tri(x) /\ r = b
  <2>1. PICK y \in Refs(Curt) : y = Tri(x) /\ EdgeRef(y) = a /\ a \in Seq(Curt)
    BY <1>3, <1>15, TriIs
  <2>3. l = a /\ r = b
    BY <1>1, <1>5, <1>6, <1>7, <1>11, <2>1
  <2>4. e = y
    BY <1>12, <2>1, <2>3, RefRead, Alphabets
  <2> QED
    BY <2>1, <2>3, <2>4
<1>16. a \in Seq(Curt) => r = b
  BY <1>1, <1>5, <1>6, <1>7, <1>11
<1>17. a \notin Seq(Curt) => r[1] = Right(a, Colons)[1]
  BY <1>5, <1>6, <1>7, <1>11
<1> QED
  BY <1>3, <1>5, <1>7, <1>9, <1>11, <1>12, <1>15, <1>16, <1>17

LEMMA EdgeIs ==
  ASSUME NEW x \in RawEdge
  PROVE  /\ EdgeTold(x) \in Row /\ Trim(EdgeTold(x)) = EdgeTold(x) /\ x \in LooseStatus
         /\ StatusLine(x) = Line("edge", EdgeTold(x))
         /\ EdgeTaken(x) \in ReadEdges
         /\ x \in ReadEdges => EdgeTaken(x) = x
         /\ EdgeTaken(x).status[1] = "violated" => x.status[1] = "violated"
<1>1. PICK b \in Ink : b = x.status
  BY DEF RawEdge
<1>2. x.child \in Snug(RowMark) /\ x.parent \in Snug(RowMark) /\ x.name \in Snug(RowMark) /\ Unfeigned(x)
  BY DEF RawEdge
<1>3. PICK t, a : t = EdgeTold(x) /\ a = EdgeRef(x) /\ t = Told(a, b)
  BY <1>1 DEF EdgeTold
<1>4. /\ t \in Row /\ Trim(t) = t /\ a \o <<" :: ">> \o b = t
      /\ ParseEdgeRef(Left(t, Colons)) \in Refs(Curt) /\ Right(t, Colons) \in Ink
      /\ Tri(x) \in Refs(Curt) => ParseEdgeRef(Left(t, Colons)) = Tri(x) /\ Right(t, Colons) = b
      /\ a \in Seq(Curt) => Right(t, Colons) = b
      /\ a \notin Seq(Curt) => Right(t, Colons)[1] = Right(a, Colons)[1]
  BY <1>2, <1>3, RefTold
<1>5. StatusLine(x) = Line("edge", t)
  BY <1>1, <1>3, <1>4 DEF StatusLine
<1>6. x \in LooseStatus
  BY <1>2, SnugRow, SpokenIs DEF RawEdge, LooseStatus
<1>7. PICK e \in Refs(Curt), r \in Ink : e = ParseEdgeRef(Left(t, Colons)) /\ r = Right(t, Colons)
  BY <1>4
<1>8. EdgeTaken(x) = WithStatus(e, r)
  BY <1>3, <1>7 DEF EdgeTaken
<1>9. WithStatus(e, r) \in ReadEdges /\ WithStatus(e, r).status = r
  BY DEF WithStatus, ReadEdges, Refs
<1>10. ASSUME x \in ReadEdges PROVE EdgeTaken(x) = x
  <2>1. Tri(x) \in Refs(Curt)
    BY <1>10 DEF ReadEdges, Refs, Tri
  <2>2. e = Tri(x) /\ r = b
    BY <1>4, <1>7, <2>1
  <2>3. x = [child |-> x.child, parent |-> x.parent, name |-> x.name, status |-> b]
    BY <1>1, <1>10 DEF ReadEdges
  <2>4. WithStatus(e, r) = [child |-> x.child, parent |-> x.parent, name |-> x.name, status |-> b]
    BY <2>2 DEF WithStatus, Tri
  <2> QED
    BY <1>8, <2>3, <2>4
<1>11. ASSUME r[1] = "violated" PROVE b[1] = "violated"
  <2>1. CASE a \in Seq(Curt)
    BY <1>4, <1>7, <1>11, <2>1
  <2>2. CASE a \notin Seq(Curt)
    <3>1. Colons \in ToSet(a)
      BY <1>2, <1>3, <2>2, SnugRef, CurtIs
    <3>2. Right(a, Colons)[1] # "violated"
      BY <1>2, <1>3, <3>1 DEF Unfeigned, Colons
    <3> QED
      BY <1>4, <1>7, <1>11, <2>2, <3>2
  <2> QED
    BY <2>1, <2>2
<1> QED
  BY <1>1, <1>3, <1>4, <1>5, <1>6, <1>8, <1>9, <1>10, <1>11

LEMMA ValidateTake ==
  ASSUME NEW m, IsSum(m), NEW y, NEW x
  PROVE  ReadEntry(Put(m, "validate", y), Header("validate"), "edge", EdgeTold(x))
           = Put(m, "validate", Add(y, EdgeTaken(x)))
<1>1. PICK n, r, val : n = Put(m, "validate", y) /\ r = EdgeTaken(x) /\ val = EdgeTold(x)
  OBVIOUS
<1>2. n.validate = y /\ \A z : Put(n, "validate", z) = Put(m, "validate", z)
  BY <1>1, PutIs DEF Field9
<1>3. ReadValidate(n, "edge", val) = [n EXCEPT !.validate = Append(@, r)]
  BY <1>1 DEF ReadValidate, EdgeTaken, Colons
<1>4. [n EXCEPT !.validate = Append(@, r)] = Put(n, "validate", Add(y, r))
  BY <1>2 DEF Put, Add
<1>5. ReadEntry(n, Header("validate"), "edge", val) = ReadValidate(n, "edge", val)
  BY Dispatch
<1> QED
  BY <1>1, <1>2, <1>3, <1>4, <1>5

LEMMA ReadEdgesRaw == ReadEdges \subseteq RawEdge
<1> SUFFICES ASSUME NEW x \in ReadEdges PROVE x \in RawEdge
  OBVIOUS
<1>0. Tri(x) \in Refs(Curt)
  BY DEF ReadEdges, Refs, Tri
<1>1. x.child \in Snug(RowMark) /\ x.parent \in Snug(RowMark) /\ x.name \in Snug(RowMark)
      /\ EdgeRef(x) \in Seq(Curt)
  BY <1>0, TriIs
<1>2. Colons \notin ToSet(EdgeRef(x))
  BY <1>1, SnugRef, CurtIs
<1>3. Unfeigned(x)
  BY <1>2 DEF Unfeigned, Colons
<1>4. x \in [child : Snug(RowMark), parent : Snug(RowMark), name : Snug(RowMark), status : Ink]
  BY <1>1 DEF ReadEdges
<1> QED
  BY <1>3, <1>4 DEF RawEdge

(* What holds of every item that the reader has made of one holds of all.  *)
LEMMA ImageSet ==
  ASSUME NEW R, NEW f, NEW p \in Seq(R), NEW y \in ToSet(Image(p, f))
  PROVE  \E x \in R : x \in ToSet(p) /\ y = f[x]
<1>1. PICK i \in 1 .. Len(p) : y = f[p[i]]
  BY DEF ToSet, Image
<1>2. p[i] \in R /\ p[i] \in ToSet(p)
  BY DEF ToSet
<1> QED
  BY <1>1, <1>2

LEMMA ValidateRead ==
  ASSUME NEW m, IsSum(m), m.validate = <<>>, NEW v \in Seq(RawEdge)
  PROVE  \E w \in ValidateOut(v) :
           ReadLines(At(Header("validate"), m), Printed(ValidateLines(v))) = Then("validate", m, w)
<1>1. "validate" \in Field9 /\ "edge" \in Keys
  BY DEF Field9, Keys, Key
<1>2. PICK S, R, Q, F : S = LooseStatus /\ R = RawEdge /\ Q = ReadEdges /\ F = StatusF
  OBVIOUS
<1>3. PICK f, V, W : /\ f = [x \in R |-> EdgeTaken(x)] /\ V = [x \in R |-> EdgeTold(x)]
                     /\ W = [y \in Seq(Q) |-> y]
  OBVIOUS
<1>4. R \in SUBSET S /\ F \in [S -> Entry] /\ Q \in SUBSET R
  BY <1>2, EdgeIs, LineTypes, ReadEdgesRaw
<1>5. /\ f \in [R -> Q] /\ V \in [R -> Prose]
      /\ \A x \in R : V[x] = EdgeTold(x) /\ f[x] = EdgeTaken(x) /\ V[x] \in Row
                      /\ Trim(First(V[x])) = V[x]
  <2>1. \A x \in R : EdgeTold(x) \in Row /\ EdgeTold(x) \in Prose /\ First(EdgeTold(x)) = EdgeTold(x)
                     /\ Trim(EdgeTold(x)) = EdgeTold(x) /\ EdgeTaken(x) \in Q
    BY <1>2, EdgeIs, RowProse, FirstIs
  <2> QED
    BY <1>3, <2>1
<1>6. Lines("edge", R, V, F)
  <2>1. \A x \in R : F[x] = StatusLine(x)
    BY <1>2, <1>4 DEF StatusF
  <2> QED
    BY <1>2, <1>5, <2>1, EdgeIs DEF Lines
<1>7. Quiet(R, V)
  BY <1>5, RowHarmless DEF Quiet
<1>8. Reads(m, "validate", Q, W, "edge", R, V, f)
  <2> SUFFICES ASSUME NEW x \in R, NEW y \in Seq(Q)
               PROVE  ReadEntry(Put(m, "validate", W[y]), Header("validate"), "edge", Trim(First(V[x])))
                        = Put(m, "validate", W[Add(y, f[x])])
    BY DEF Reads
  <2>1. f[x] \in Q /\ f[x] = EdgeTaken(x) /\ Trim(First(V[x])) = EdgeTold(x)
    BY <1>5
  <2>2. Add(y, f[x]) \in Seq(Q)
    BY <2>1, AddType
  <2>3. W[y] = y /\ W[Add(y, f[x])] = Add(y, f[x])
    BY <1>3, <2>2
  <2> QED
    BY <2>1, <2>3, ValidateTake
<1>9. v \in Seq(S) /\ v \in Seq(R) /\ R \in SUBSET R
  BY <1>2, <1>4, SeqMonotonic
<1>10. ValidateLines(v) = Image(v, F)
  BY <1>2, <1>9, LinesAre DEF ValidateLines
<1>11. W[<<>>] = <<>>
  BY <1>3, EmptySeq
<1>12. Then("validate", m, <<>>) = At(Header("validate"), m)
  BY <1>1, PutIs DEF Then
<1>13. Ran(m, "validate", R, Q, W, f, v, ReadLines(Then("validate", m, W[<<>>]), Printed(Image(v, F))))
  BY <1>1, <1>4, <1>5, <1>6, <1>7, <1>8, <1>9, LinesRead
<1>14. PICK w \in Seq(Q) : w = Image(v, f)
  BY <1>5, <1>9, ImageIs
<1>15. ReadLines(At(Header("validate"), m), Printed(ValidateLines(v))) = Then("validate", m, w)
  <2>1. ReadLines(Then("validate", m, W[<<>>]), Printed(Image(v, F))) = Then("validate", m, W[w])
    BY <1>9, <1>13, <1>14, RanAll
  <2>2. W[w] = w
    BY <1>3
  <2> QED
    BY <1>10, <1>11, <1>12, <2>1, <2>2
<1>16. ASSUME v \in Seq(Q) PROVE w = v
  <2>1. Fixes(f, Q)
    BY <1>2, <1>4, <1>5, EdgeIs DEF Fixes
  <2> QED
    BY <1>4, <1>5, <1>14, <1>16, <2>1, ImageSame, SMTT(20), ZenonT(30)
<1>17. Violated(w) => Violated(v)
  <2>1. ASSUME NEW y \in ToSet(w) PROVE \E x \in R : x \in ToSet(v) /\ y = f[x]
    <3>1. v \in Seq(R) /\ y \in ToSet(Image(v, f))
      BY <1>5, <1>9, <1>14, <2>1
    <3> QED
      BY <3>1, ImageSet
  <2> QED
    BY <1>2, <1>5, <2>1, EdgeIs DEF Violated
<1> QED
  BY <1>2, <1>15, <1>16, <1>17 DEF ValidateOut

(* Items of two lines each: a record and its statement.                    *)
Then2(m, s, Q, W, k1, k2, R, V1, V2, g, f) ==
  \A x \in R, y \in Seq(Q) :
    /\ ReadEntry(Put(m, s, W[y]), Header(s), k1, Trim(First(V1[x]))) = Put(m, s, W[Add(y, g[x])])
    /\ ReadEntry(Put(m, s, W[Add(y, g[x])]), Header(s), k2, Trim(First(V2[x]))) = Put(m, s, W[Add(y, f[x])])

Lines2(k1, k2, R, V1, V2, F) == \A x \in R : F[x] = <<Line(k1, V1[x]), Line(k2, V2[x])>>

LEMMA PairLines ==
  ASSUME NEW a \in Entry, NEW b \in Entry, NEW st
  PROVE  /\ <<a, b>> \in Seq(Entry) /\ Printed(<<a, b>>) \in Seq(Plain)
         /\ ReadLines(st, Printed(<<a, b>>)) = ReadLines(ReadLines(st, Split(a, "\n")), Split(b, "\n"))
<1>1. PICK o \in Seq(Entry) : o = <<a>>
  BY One
<1>2. PICK p \in Seq(Entry) : p = Add(o, b) /\ p = <<a, b>>
  BY <1>1, PairIs
<1>3. ReadLines(st, Printed(o)) = ReadLines(st, Split(a, "\n"))
  BY <1>1, ChainRead
<1>4. ReadLines(st, Printed(Add(o, b))) = ReadLines(ReadLines(st, Printed(o)), Split(b, "\n"))
  BY ChainRead
<1>5. Printed(p) \in Seq(Plain)
  BY PrintedType
<1> QED
  BY <1>2, <1>3, <1>4, <1>5

LEMMA PairAdds ==
  ASSUME NEW m, IsSum(m), NEW s \in Field9, NEW R, NEW E \in SUBSET R, NEW Q, NEW W,
         NEW g \in [R -> Q], NEW f \in [R -> Q], NEW k1 \in Keys, NEW k2 \in Keys,
         NEW V1 \in [R -> Prose], NEW V2 \in [R -> Prose], NEW F,
         Lines2(k1, k2, R, V1, V2, F), Then2(m, s, Q, W, k1, k2, R, V1, V2, g, f), Quiet(E, V1), Quiet(E, V2)
  PROVE  Adds(m, s, R, E, Q, Several(R, F), W, f)
<1> SUFFICES ASSUME NEW x \in R, NEW y \in Seq(Q)
             PROVE  /\ ReadLines(Then(s, m, W[y]), Several(R, F)[x]) \in Grown(m, s, Q, W, y)
                    /\ x \in E => ReadLines(Then(s, m, W[y]), Several(R, F)[x]) = Then(s, m, W[Add(y, f[x])])
                    /\ \A st \in Near(s, Put(m, s, W[y])) :
                         ReadLines(st, Several(R, F)[x]) \in Near(s, Put(m, s, W[y])) \cup Grown(m, s, Q, W, y)
  BY DEF Adds
<1>1. PICK v1 \in Prose, v2 \in Prose, r0 \in Q, r \in Q : v1 = V1[x] /\ v2 = V2[x] /\ r0 = g[x] /\ r = f[x]
  OBVIOUS
<1>2. PICK u, u0, w : u = W[y] /\ u0 = W[Add(y, r0)] /\ w = W[Add(y, r)]
  OBVIOUS
<1>3. PICK a \in Entry, b \in Entry : a = Line(k1, v1) /\ b = Line(k2, v2)
  BY <1>1, EntryIs
<1>4. PICK ls \in Seq(Plain) : ls = Several(R, F)[x] /\ ls = Printed(<<a, b>>)
  <2>1. Several(R, F)[x] = Printed(F[x])
    BY DEF Several
  <2>2. F[x] = <<a, b>>
    BY <1>1, <1>3 DEF Lines2
  <2> QED
    BY <2>1, <2>2, PairLines
<1>5. \A st : ReadLines(st, ls) = ReadLines(ReadLines(st, Split(a, "\n")), Split(b, "\n"))
  BY <1>4, PairLines
<1>6. /\ ReadEntry(Put(m, s, u), Header(s), k1, Trim(First(v1))) = Put(m, s, u0)
      /\ ReadEntry(Put(m, s, u0), Header(s), k2, Trim(First(v2))) = Put(m, s, w)
  BY <1>1, <1>2 DEF Then2
<1>7. /\ ReadLines(Then(s, m, u), Split(a, "\n")) \in Near(s, Put(m, s, u0))
      /\ Harmless(v1) => ReadLines(Then(s, m, u), Split(a, "\n")) = Then(s, m, u0)
  BY <1>3, <1>6, NearEntry
<1>8. /\ Harmless(v2) => ReadLines(Then(s, m, u0), Split(b, "\n")) = Then(s, m, w)
      /\ \A st \in Near(s, Put(m, s, u0)) :
           ReadLines(st, Split(b, "\n")) \in Near(s, Put(m, s, u0)) \cup Near(s, Put(m, s, w))
  BY <1>3, <1>6, NearEntry
<1>9. Near(s, Put(m, s, w)) \subseteq Grown(m, s, Q, W, y) /\ Near(s, Put(m, s, u0)) \subseteq Grown(m, s, Q, W, y)
  BY <1>1, <1>2 DEF Grown
<1>10. ReadLines(Then(s, m, u), ls) \in Grown(m, s, Q, W, y)
  BY <1>5, <1>7, <1>8, <1>9
<1>11. ASSUME x \in E PROVE ReadLines(Then(s, m, u), ls) = Then(s, m, w)
  <2>1. Harmless(v1) /\ Harmless(v2)
    BY <1>1, <1>11 DEF Quiet
  <2> QED
    BY <1>5, <1>7, <1>8, <2>1
<1>12. ASSUME NEW st \in Near(s, Put(m, s, u))
       PROVE  ReadLines(st, ls) \in Near(s, Put(m, s, u)) \cup Grown(m, s, Q, W, y)
  <2>1. PICK n : n = Put(m, s, u) /\ IsSum(n)
    BY PutIs
  <2>2. CASE st = At(Header(s), n)
    BY <1>10, <2>1, <2>2 DEF Then
  <2>3. ASSUME NEW h \in Astray, st = At(h, n) PROVE ReadLines(st, ls) \in Near(s, n)
    <3>1. PICK k \in Astray : ReadLines(At(h, n), ls) = At(k, n)
      BY <2>1, AstrayLines
    <3> QED
      BY <2>3, <3>1, NearIs
  <2> QED
    BY <1>12, <2>1, <2>2, <2>3, NearIs
<1> QED
  BY <1>1, <1>2, <1>4, <1>10, <1>11, <1>12

LEMMA PairsRead ==
  ASSUME NEW m, IsSum(m), NEW s \in Field9, NEW S, NEW R \in SUBSET S, NEW E \in SUBSET R, NEW Q, NEW W,
         NEW g \in [R -> Q], NEW f \in [R -> Q], NEW k1 \in Keys, NEW k2 \in Keys,
         NEW V1 \in [R -> Prose], NEW V2 \in [R -> Prose], NEW F \in [S -> Seq(Entry)],
         Lines2(k1, k2, R, V1, V2, F), Then2(m, s, Q, W, k1, k2, R, V1, V2, g, f), Quiet(E, V1), Quiet(E, V2),
         NEW p \in Seq(R)
  PROVE  /\ Ran(m, s, E, Q, W, f, p, ReadLines(Then(s, m, W[<<>>]), Printed(FlattenSeq(Image(p, F)))))
         /\ \A st \in Far(m, s, Q, W) : ReadLines(st, Printed(FlattenSeq(Image(p, F)))) \in Far(m, s, Q, W)
<1>1. Adds(m, s, R, E, Q, Several(R, F), W, f)
  BY PairAdds
<1> QED
  BY <1>1, BlocksRead

(* The statement of the last record.                                       *)
LEMMA LastReaddIs ==
  ASSUME NEW A, NEW q \in Seq(A), NEW y \in A, NEW val, NEW w \in A, w = [y EXCEPT !.readd = val]
  PROVE  LastReadd(Add(q, y), val) = Add(q, w)
<1>1. PICK s \in Seq(A) : s = Add(q, y) /\ s # <<>> /\ s[Len(s)] = y
  BY AddLast
<1>2. [s EXCEPT ![Len(s)] = w] = Add(q, w)
  <2>1. s = Add(q, y)
    BY <1>1
  <2> QED
    BY <2>1, LastPut
<1>3. [s EXCEPT ![Len(s)].readd = val] = [s EXCEPT ![Len(s)] = w]
  BY <1>1
<1> QED
  BY <1>1, <1>2, <1>3 DEF LastReadd

(* What is read of a statement.                                            *)
Stated == Ink \cup {<<>>}

LEMMA StatedIs ==
  /\ \A t \in Prose : Trim(First(t)) \in Stated /\ (t \in Stated => Trim(First(t)) = t)
  /\ Stated \subseteq Row /\ Stated \subseteq Prose /\ \A t \in Stated : Harmless(t)
<1>1. ASSUME NEW t \in Prose PROVE Trim(First(t)) \in Stated
  <2>1. First(t) \in Row
    BY FirstIs
  <2>2. Trim(First(t)) \in Row /\ Tight(Trim(First(t)))
    BY <2>1, RowType
  <2> QED
    BY <2>2 DEF Stated, Ink, Inked
<1>2. <<>> \in Row /\ <<>> \in Prose /\ First(<<>>) = <<>> /\ Trim(<<>>) = <<>>
  <2>1. <<>> \in Row
    BY RowNone
  <2>2. Trim(<<>>) = <<>>
    BY <2>1, TrimTight DEF Tight, Row
  <2> QED
    BY <2>1, <2>2, RowProse, FirstIs
<1>3. ASSUME NEW t \in Stated PROVE t \in Row /\ t \in Prose /\ Harmless(t) /\ Trim(First(t)) = t
  BY <1>2, <1>3, SpokenIs, InkIs, RowHarmless DEF Stated
<1> QED
  BY <1>1, <1>3

(* [fkdefine]                                                              *)
RawTriple == [child : Snug(RowMark), parent : Snug(RowMark), name : Snug(RowMark)]

RawHeld ==
  [child : Snug(RowMark), parent : Snug(RowMark), name : Snug(RowMark), reason : Ink, readd : Prose]

ReadHeld ==
  [child : Snug(Free(Curt, Arrow)), parent : Snug(Free(Curt, Opening)), name : Snug(Free(Curt, Closing)),
   reason : Ink, readd : Stated]

SoundHeld == {x \in RawHeld : Tri(x) \in Refs(Curt) /\ Harmless(x.readd)}

HeldTold(x) == Told(EdgeRef(x), x.reason)

HeldFirst(x) ==
  LET e == ParseEdgeRef(Left(HeldTold(x), Colons))
  IN  [child |-> e.child, parent |-> e.parent, name |-> e.name, reason |-> Right(HeldTold(x), Colons),
       readd |-> <<>>]

HeldTaken(x) == [HeldFirst(x) EXCEPT !.readd = Trim(First(x.readd))]

LEMMA HeldIs ==
  ASSUME NEW x \in RawHeld
  PROVE  /\ HeldTold(x) \in Row /\ Trim(First(HeldTold(x))) = HeldTold(x) /\ x \in LooseHeld
         /\ WithheldLines(x) = <<Line("withhold", HeldTold(x)), Line("readd", x.readd)>>
         /\ HeldFirst(x) \in ReadHeld /\ HeldTaken(x) \in ReadHeld
         /\ x \in ReadHeld => HeldTaken(x) = x /\ x \in SoundHeld
         /\ x \in SoundHeld => [HeldTaken(x) EXCEPT !.readd = <<>>] = [x EXCEPT !.readd = <<>>]
<1>1. PICK b \in Ink, s \in Prose : b = x.reason /\ s = x.readd
  BY DEF RawHeld
<1>2. x.child \in Snug(RowMark) /\ x.parent \in Snug(RowMark) /\ x.name \in Snug(RowMark)
  BY DEF RawHeld
<1>3. PICK t, a : t = HeldTold(x) /\ a = EdgeRef(x) /\ t = Told(a, b)
  BY <1>1 DEF HeldTold
<1>4. /\ t \in Row /\ Trim(t) = t /\ a \o <<" :: ">> \o b = t
      /\ ParseEdgeRef(Left(t, Colons)) \in Refs(Curt) /\ Right(t, Colons) \in Ink
      /\ Tri(x) \in Refs(Curt) => ParseEdgeRef(Left(t, Colons)) = Tri(x) /\ Right(t, Colons) = b
  BY <1>2, <1>3, RefTold
<1>5. First(t) = t
  BY <1>4, RowProse, FirstIs
<1>6. WithheldLines(x) = <<Line("withhold", t), Line("readd", s)>>
  BY <1>1, <1>3, <1>4 DEF WithheldLines
<1>7. x \in LooseHeld
  BY <1>1, <1>2, SnugRow, SpokenIs, RowProse DEF RawHeld, LooseHeld
<1>8. PICK e \in Refs(Curt), r \in Ink : e = ParseEdgeRef(Left(t, Colons)) /\ r = Right(t, Colons)
  BY <1>4
<1>9. PICK c, p, n : /\ c = e.child /\ p = e.parent /\ n = e.name
                     /\ c \in Snug(Free(Curt, Arrow)) /\ p \in Snug(Free(Curt, Opening))
                     /\ n \in Snug(Free(Curt, Closing))
  BY DEF Refs
<1>10. PICK d : d = Trim(First(s)) /\ d \in Stated /\ (s \in Stated => d = s)
  BY StatedIs
<1>11. HeldFirst(x) = [child |-> c, parent |-> p, name |-> n, reason |-> r, readd |-> <<>>]
  BY <1>3, <1>8, <1>9 DEF HeldFirst
<1>12. HeldTaken(x) = [child |-> c, parent |-> p, name |-> n, reason |-> r, readd |-> d]
  BY <1>1, <1>10, <1>11 DEF HeldTaken
<1>13. HeldFirst(x) \in ReadHeld /\ HeldTaken(x) \in ReadHeld
  <2>1. <<>> \in Stated
    BY DEF Stated
  <2> QED
    BY <1>9, <1>10, <1>11, <1>12, <2>1 DEF ReadHeld
<1>14. ASSUME Tri(x) \in Refs(Curt) PROVE c = x.child /\ p = x.parent /\ n = x.name /\ r = b
  <2>1. e = Tri(x) /\ r = b
    BY <1>4, <1>8, <1>14
  <2>2. Tri(x).child = x.child /\ Tri(x).parent = x.parent /\ Tri(x).name = x.name
    BY DEF Tri
  <2> QED
    BY <1>9, <2>1, <2>2
<1>15. ASSUME x \in ReadHeld PROVE HeldTaken(x) = x /\ x \in SoundHeld
  <2>1. Tri(x) \in Refs(Curt) /\ s \in Stated
    BY <1>1, <1>15 DEF ReadHeld, Refs, Tri
  <2>2. x = [child |-> x.child, parent |-> x.parent, name |-> x.name, reason |-> b, readd |-> s]
    BY <1>1, <1>15 DEF ReadHeld
  <2>3. HeldTaken(x) = x
    BY <1>10, <1>12, <1>14, <2>1, <2>2
  <2>4. Harmless(s)
    BY <2>1, StatedIs
  <2> QED
    BY <1>1, <2>1, <2>3, <2>4 DEF SoundHeld
<1>16. ASSUME x \in SoundHeld PROVE [HeldTaken(x) EXCEPT !.readd = <<>>] = [x EXCEPT !.readd = <<>>]
  <2>1. Tri(x) \in Refs(Curt)
    BY <1>16 DEF SoundHeld
  <2>2. x = [child |-> x.child, parent |-> x.parent, name |-> x.name, reason |-> b, readd |-> s]
    BY <1>1 DEF RawHeld
  <2>3. [x EXCEPT !.readd = <<>>] =
          [child |-> x.child, parent |-> x.parent, name |-> x.name, reason |-> b, readd |-> <<>>]
    BY <2>2
  <2> QED
    BY <1>12, <1>14, <2>1, <2>3
<1> QED
  BY <1>1, <1>3, <1>4, <1>5, <1>6, <1>7, <1>13, <1>15, <1>16

(* What the lines of [fkdefine] add.                                       *)
LEMMA FkDispatch ==
  ASSUME NEW m, IsSum(m), NEW u, NEW n, n = Put(m, "fkdefine", u)
  PROVE  /\ n.fkdefine = u /\ \A z : Put(n, "fkdefine", z) = Put(m, "fkdefine", z)
         /\ \A key, v : ReadEntry(n, Header("fkdefine"), key, v) = ReadFkdefine(n, key, v)
<1>1. n.fkdefine = u /\ \A z : Put(n, "fkdefine", z) = Put(m, "fkdefine", z)
  BY PutIs DEF Field9
<1>2. \A key, v : ReadEntry(n, Header("fkdefine"), key, v) = ReadFkdefine(n, key, v)
  BY Dispatch
<1> QED
  BY <1>1, <1>2

LEMMA DefineTake ==
  ASSUME NEW m, IsSum(m), NEW u, NEW y, u.defined = y, NEW val
  PROVE  ReadEntry(Put(m, "fkdefine", u), Header("fkdefine"), "define", val)
           = Put(m, "fkdefine", Put(u, "defined", Add(y, ParseEdgeRef(Trim(val)))))
<1>1. PICK n, r : n = Put(m, "fkdefine", u) /\ r = ParseEdgeRef(Trim(val))
  OBVIOUS
<1>2. n.fkdefine = u /\ \A z : Put(n, "fkdefine", z) = Put(m, "fkdefine", z)
  BY <1>1, FkDispatch
<1>3. ReadEntry(n, Header("fkdefine"), "define", val) = ReadFkdefine(n, "define", val)
  BY <1>1, FkDispatch
<1>4. ReadFkdefine(n, "define", val) = [n EXCEPT !.fkdefine.defined = Append(@, r)]
  BY <1>1 DEF ReadFkdefine
<1>5. [n EXCEPT !.fkdefine.defined = Append(@, r)] = Put(n, "fkdefine", [u EXCEPT !.defined = Append(@, r)])
  BY <1>2 DEF Put
<1>6. [u EXCEPT !.defined = Append(@, r)] = Put(u, "defined", Add(y, r))
  BY DEF Put, Add
<1> QED
  BY <1>1, <1>2, <1>3, <1>4, <1>5, <1>6

LEMMA WithholdTake ==
  ASSUME NEW m, IsSum(m), NEW u, NEW y, u.withheld = y, NEW x
  PROVE  ReadEntry(Put(m, "fkdefine", u), Header("fkdefine"), "withhold", HeldTold(x))
           = Put(m, "fkdefine", Put(u, "withheld", Add(y, HeldFirst(x))))
<1>1. PICK n, r : n = Put(m, "fkdefine", u) /\ r = HeldFirst(x)
  OBVIOUS
<1>2. n.fkdefine = u /\ \A z : Put(n, "fkdefine", z) = Put(m, "fkdefine", z)
  BY <1>1, FkDispatch
<1>3. ReadEntry(n, Header("fkdefine"), "withhold", HeldTold(x)) = ReadFkdefine(n, "withhold", HeldTold(x))
  BY <1>1, FkDispatch
<1>4. ReadFkdefine(n, "withhold", HeldTold(x)) = [n EXCEPT !.fkdefine.withheld = Append(@, r)]
  BY <1>1 DEF ReadFkdefine, HeldFirst, Colons
<1>5. [n EXCEPT !.fkdefine.withheld = Append(@, r)] = Put(n, "fkdefine", [u EXCEPT !.withheld = Append(@, r)])
  BY <1>2 DEF Put
<1>6. [u EXCEPT !.withheld = Append(@, r)] = Put(u, "withheld", Add(y, r))
  BY DEF Put, Add
<1> QED
  BY <1>1, <1>2, <1>3, <1>4, <1>5, <1>6

LEMMA ReaddTake ==
  ASSUME NEW m, IsSum(m), NEW u, NEW y, u.withheld = y, NEW val
  PROVE  ReadEntry(Put(m, "fkdefine", u), Header("fkdefine"), "readd", val)
           = Put(m, "fkdefine", Put(u, "withheld", LastReadd(y, val)))
<1>1. PICK n, z : n = Put(m, "fkdefine", u) /\ z = LastReadd(y, val)
  OBVIOUS
<1>2. n.fkdefine = u /\ \A w : Put(n, "fkdefine", w) = Put(m, "fkdefine", w)
  BY <1>1, FkDispatch
<1>3. ReadEntry(n, Header("fkdefine"), "readd", val) = ReadFkdefine(n, "readd", val)
  BY <1>1, FkDispatch
<1>4. ReadFkdefine(n, "readd", val) = [n EXCEPT !.fkdefine.withheld = LastReadd(@, val)]
  BY DEF ReadFkdefine
<1>5. [n EXCEPT !.fkdefine.withheld = LastReadd(@, val)] = Put(n, "fkdefine", [u EXCEPT !.withheld = z])
  BY <1>1, <1>2 DEF Put
<1>6. [u EXCEPT !.withheld = z] = Put(u, "withheld", z)
  BY DEF Put
<1> QED
  BY <1>1, <1>2, <1>3, <1>4, <1>5, <1>6

LEMMA TripleRef ==
  ASSUME NEW x \in RawTriple
  PROVE  /\ EdgeRef(x) \in Row /\ EdgeRef(x) \in Prose /\ Trim(First(EdgeRef(x))) = EdgeRef(x)
         /\ Trim(EdgeRef(x)) = EdgeRef(x)
         /\ ParseEdgeRef(EdgeRef(x)) \in Refs(RowMark)
         /\ x \in Refs(RowMark) => ParseEdgeRef(EdgeRef(x)) = x
         /\ x \in Triples
<1>1. x.child \in Snug(RowMark) /\ x.parent \in Snug(RowMark) /\ x.name \in Snug(RowMark)
  BY DEF RawTriple
<1>2. PICK t \in Ink : t = EdgeRef(x)
  BY <1>1, SnugRef
<1>3. t \in Row /\ t \in Prose /\ First(t) = t /\ Trim(t) = t
  BY InkIs
<1>4. ParseEdgeRef(t) \in Refs(RowMark)
  BY <1>3, ParsedRef, Alphabets
<1>5. x \in Refs(RowMark) => ParseEdgeRef(EdgeRef(x)) = x
  BY RefRead, Alphabets
<1>6. x \in Triples
  BY SnugRow DEF RawTriple, Triples
<1> QED
  BY <1>2, <1>3, <1>4, <1>5, <1>6

LEMMA RefsRaw == Refs(RowMark) \subseteq RawTriple
BY SnugFree DEF Refs, RawTriple

LEMMA DefinesRead ==
  ASSUME NEW m, IsSum(m), NEW u, Put(u, "defined", <<>>) = u, NEW ds \in Seq(RawTriple),
         \A y : Put(u, "defined", y).defined = y
  PROVE  /\ LinesOf(ds, DefineLine) \in Seq(Entry)
         /\ \E w \in Seq(Refs(RowMark)) :
              /\ ReadLines(Then("fkdefine", m, u), Printed(LinesOf(ds, DefineLine)))
                   = Then("fkdefine", m, Put(u, "defined", w))
              /\ ds \in Seq(Refs(RowMark)) => w = ds
<1>1. "fkdefine" \in Field9 /\ "define" \in Keys
  BY DEF Field9, Keys, Key
<1>2. PICK S, R, Q, F : S = Triples /\ R = RawTriple /\ Q = Refs(RowMark) /\ F = DefineF
  OBVIOUS
<1>3. PICK f, V, W : /\ f = [x \in R |-> ParseEdgeRef(EdgeRef(x))] /\ V = [x \in R |-> EdgeRef(x)]
                     /\ W = [y \in Seq(Q) |-> Put(u, "defined", y)]
  OBVIOUS
<1>4. R \in SUBSET S /\ F \in [S -> Entry] /\ Q \in SUBSET R /\ R \in SUBSET R
  BY <1>2, TripleRef, LineTypes, RefsRaw
<1>5. /\ f \in [R -> Q] /\ V \in [R -> Prose]
      /\ \A x \in R : V[x] = EdgeRef(x) /\ f[x] = ParseEdgeRef(EdgeRef(x)) /\ V[x] \in Row
                      /\ Trim(First(V[x])) = V[x] /\ Trim(V[x]) = V[x]
  BY <1>2, <1>3, TripleRef
<1>6. Lines("define", R, V, F)
  BY <1>2, <1>4, <1>5 DEF Lines, DefineF, DefineLine
<1>7. Quiet(R, V)
  BY <1>5, RowHarmless DEF Quiet
<1>8. Reads(m, "fkdefine", Q, W, "define", R, V, f)
  <2> SUFFICES ASSUME NEW x \in R, NEW y \in Seq(Q)
               PROVE  ReadEntry(Put(m, "fkdefine", W[y]), Header("fkdefine"), "define", Trim(First(V[x])))
                        = Put(m, "fkdefine", W[Add(y, f[x])])
    BY DEF Reads
  <2>1. PICK r, t : r \in Q /\ r = f[x] /\ t = EdgeRef(x) /\ Trim(First(V[x])) = t /\ ParseEdgeRef(Trim(t)) = r
    BY <1>5
  <2>2. Add(y, r) \in Seq(Q)
    BY <2>1, AddType
  <2>3. W[y] = Put(u, "defined", y) /\ W[Add(y, r)] = Put(u, "defined", Add(y, r))
    BY <1>3, <2>2
  <2>4. PICK k : k = Put(u, "defined", y) /\ k.defined = y /\ \A z : Put(k, "defined", z) = Put(u, "defined", z)
    BY PutPut
  <2>5. ReadEntry(Put(m, "fkdefine", k), Header("fkdefine"), "define", t)
          = Put(m, "fkdefine", Put(k, "defined", Add(y, ParseEdgeRef(Trim(t)))))
    BY <2>4, DefineTake
  <2> QED
    BY <2>1, <2>3, <2>4, <2>5
<1>9. ds \in Seq(S) /\ ds \in Seq(R)
  BY <1>2, <1>4, SeqMonotonic
<1>10. LinesOf(ds, DefineLine) = Image(ds, F) /\ Image(ds, F) \in Seq(Entry)
  <2>1. Image(ds, F) \in Seq(Entry)
    BY <1>4, <1>9, ImageIs
  <2> QED
    BY <1>2, <1>9, <2>1, LinesAre
<1>11. W[<<>>] = u
  BY <1>3, EmptySeq
<1>12. Ran(m, "fkdefine", R, Q, W, f, ds, ReadLines(Then("fkdefine", m, W[<<>>]), Printed(Image(ds, F))))
  BY <1>1, <1>4, <1>5, <1>6, <1>7, <1>8, <1>9, LinesRead
<1>13. PICK w \in Seq(Q) : w = Image(ds, f)
  BY <1>5, <1>9, ImageIs
<1>14. ReadLines(Then("fkdefine", m, W[<<>>]), Printed(Image(ds, F))) = Then("fkdefine", m, W[w])
  BY <1>9, <1>12, <1>13, RanAll
<1>15. W[w] = Put(u, "defined", w)
  BY <1>3
<1>16. ASSUME ds \in Seq(Q) PROVE w = ds
  <2>1. Fixes(f, Q)
    BY <1>2, <1>4, <1>5, TripleRef DEF Fixes
  <2>2. Q \in SUBSET R /\ f \in [R -> Q] /\ ds \in Seq(Q)
    BY <1>4, <1>5, <1>16
  <2>3. Image(ds, f) = ds
    BY <2>1, <2>2, ImageSame, SMTT(20), ZenonT(30)
  <2> QED
    BY <1>13, <2>3
<1> QED
  BY <1>2, <1>10, <1>11, <1>14, <1>15, <1>16

Restates(f, R) == \A x \in R : [f[x] EXCEPT !.readd = <<>>] = [x EXCEPT !.readd = <<>>]

LEMMA UnstatedImage ==
  ASSUME NEW R, NEW f, Restates(f, R), NEW p \in Seq(R)
  PROVE  Unstated(Image(p, f)) = Unstated(p)
<1>1. DOMAIN Image(p, f) = DOMAIN p /\ \A i \in DOMAIN p : Image(p, f)[i] = f[p[i]] /\ p[i] \in R
  BY DEF Image
<1>2. \A i \in DOMAIN p : [Image(p, f)[i] EXCEPT !.readd = <<>>] = [p[i] EXCEPT !.readd = <<>>]
  BY <1>1 DEF Restates
<1> QED
  BY <1>1, <1>2 DEF Unstated

LEMMA HeldRaw == ReadHeld \subseteq RawHeld
<1>1. ASSUME NEW x \in ReadHeld PROVE x \in RawHeld
  <2>1. Tri(x) \in Refs(Curt)
    BY DEF ReadHeld, Refs, Tri
  <2> QED
    BY <2>1, TriIs, StatedIs DEF ReadHeld, RawHeld
<1> QED
  BY <1>1

LEMMA HeldsRead ==
  ASSUME NEW m, IsSum(m), NEW u, Put(u, "withheld", <<>>) = u, NEW hs \in Seq(RawHeld),
         \A y : Put(u, "withheld", y).withheld = y
  PROVE  /\ FlattenSeq(LinesOf(hs, WithheldLines)) \in Seq(Entry)
         /\ \E w \in Seq(ReadHeld) :
              /\ ReadLines(Then("fkdefine", m, u), Printed(FlattenSeq(LinesOf(hs, WithheldLines))))
                   \in Near("fkdefine", Put(m, "fkdefine", Put(u, "withheld", w)))
              /\ Alike(hs, w)
              /\ hs \in Seq(ReadHeld) => w = hs
              /\ hs \in Seq(SoundHeld) => Unstated(w) = Unstated(hs)
<1>1. "fkdefine" \in Field9 /\ "withhold" \in Keys /\ "readd" \in Keys
  BY DEF Field9, Keys, Key
<1>2. PICK S, R, E, Q, F : S = LooseHeld /\ R = RawHeld /\ E = SoundHeld /\ Q = ReadHeld /\ F = WithheldF
  OBVIOUS
<1>3. PICK f, g, V1, V2, W : /\ f = [x \in R |-> HeldTaken(x)] /\ g = [x \in R |-> HeldFirst(x)]
                             /\ V1 = [x \in R |-> HeldTold(x)] /\ V2 = [x \in R |-> x.readd]
                             /\ W = [y \in Seq(Q) |-> Put(u, "withheld", y)]
  OBVIOUS
<1>4. R \in SUBSET S /\ F \in [S -> Seq(Entry)] /\ E \in SUBSET R /\ Q \in SUBSET E /\ Q \in SUBSET R
  <2>1. Q \in SUBSET R
    BY <1>2, HeldRaw
  <2>2. Q \in SUBSET E
    BY <1>2, <2>1, HeldIs
  <2>3. E \in SUBSET R
    BY <1>2 DEF SoundHeld
  <2> QED
    BY <1>2, <2>1, <2>2, <2>3, HeldIs, LineTypes
<1>5. /\ f \in [R -> Q] /\ g \in [R -> Q] /\ V1 \in [R -> Prose] /\ V2 \in [R -> Prose]
      /\ \A x \in R : /\ V1[x] = HeldTold(x) /\ V2[x] = x.readd /\ f[x] = HeldTaken(x) /\ g[x] = HeldFirst(x)
                      /\ Trim(First(V1[x])) = HeldTold(x) /\ V1[x] \in Row
  <2>1. \A x \in R : /\ HeldTold(x) \in Row /\ HeldTold(x) \in Prose /\ Trim(First(HeldTold(x))) = HeldTold(x)
                     /\ HeldTaken(x) \in Q /\ HeldFirst(x) \in Q /\ x.readd \in Prose
    BY <1>2, HeldIs, RowProse DEF RawHeld
  <2> QED
    BY <1>3, <2>1
<1>6. Lines2("withhold", "readd", R, V1, V2, F)
  <2>1. \A x \in R : F[x] = WithheldLines(x)
    BY <1>2, <1>4 DEF WithheldF
  <2> QED
    BY <1>2, <1>5, <2>1, HeldIs, SMTT(20), ZenonT(30) DEF Lines2
<1>7. Quiet(E, V1) /\ Quiet(E, V2)
  <2>1. Quiet(E, V1)
    BY <1>4, <1>5, RowHarmless DEF Quiet
  <2>2. Quiet(E, V2)
    BY <1>2, <1>4, <1>5 DEF Quiet, SoundHeld
  <2> QED
    BY <2>1, <2>2
<1>8. Then2(m, "fkdefine", Q, W, "withhold", "readd", R, V1, V2, g, f)
  <2> SUFFICES ASSUME NEW x \in R, NEW y \in Seq(Q)
      PROVE  /\ ReadEntry(Put(m, "fkdefine", W[y]), Header("fkdefine"), "withhold", Trim(First(V1[x])))
                  = Put(m, "fkdefine", W[Add(y, g[x])])
             /\ ReadEntry(Put(m, "fkdefine", W[Add(y, g[x])]), Header("fkdefine"), "readd", Trim(First(V2[x])))
                  = Put(m, "fkdefine", W[Add(y, f[x])])
    BY DEF Then2
  <2>1. PICK r0, r, t, d :
          /\ r0 \in Q /\ r \in Q /\ r0 = g[x] /\ r = f[x] /\ t = HeldTold(x) /\ d = Trim(First(V2[x]))
          /\ r0 = HeldFirst(x) /\ r = [r0 EXCEPT !.readd = d] /\ Trim(First(V1[x])) = t
    BY <1>5 DEF HeldTaken
  <2>2. Add(y, r0) \in Seq(Q) /\ Add(y, r) \in Seq(Q)
    BY <2>1, AddType
  <2>3. \A z \in Seq(Q) : W[z] = Put(u, "withheld", z)
    BY <1>3
  <2>4. PICK k : k = Put(u, "withheld", y) /\ k.withheld = y /\ \A z : Put(k, "withheld", z) = Put(u, "withheld", z)
    BY PutPut
  <2>5. PICK y0, k0 : /\ y0 = Add(y, r0) /\ k0 = Put(u, "withheld", y0) /\ k0.withheld = y0
                      /\ \A z : Put(k0, "withheld", z) = Put(u, "withheld", z)
    BY PutPut
  <2>6. ReadEntry(Put(m, "fkdefine", k), Header("fkdefine"), "withhold", t)
          = Put(m, "fkdefine", Put(k, "withheld", Add(y, HeldFirst(x))))
    BY <2>1, <2>4, WithholdTake
  <2>7. ReadEntry(Put(m, "fkdefine", k0), Header("fkdefine"), "readd", d)
          = Put(m, "fkdefine", Put(k0, "withheld", LastReadd(y0, d)))
    BY <2>5, ReaddTake
  <2>8. LastReadd(Add(y, r0), d) = Add(y, r)
    BY <2>1, LastReaddIs
  <2>9. ReadEntry(Put(m, "fkdefine", W[y]), Header("fkdefine"), "withhold", t) = Put(m, "fkdefine", W[Add(y, r0)])
    BY <2>1, <2>2, <2>3, <2>4, <2>6
  <2>10. ReadEntry(Put(m, "fkdefine", W[Add(y, r0)]), Header("fkdefine"), "readd", d) = Put(m, "fkdefine", W[Add(y, r)])
    BY <2>2, <2>3, <2>5, <2>7, <2>8
  <2> QED
    BY <2>1, <2>9, <2>10
<1>9. hs \in Seq(S) /\ hs \in Seq(R)
  BY <1>2, <1>4, SeqMonotonic
<1>10. PICK b \in Seq(Entry) : b = FlattenSeq(Image(hs, F)) /\ b = FlattenSeq(LinesOf(hs, WithheldLines))
  <2>1. FlattenSeq(Image(hs, F)) \in Seq(Entry)
    BY <1>4, <1>9, BlockEntries
  <2>2. LinesOf(hs, WithheldLines) = Image(hs, F)
    BY <1>2, <1>9, LinesAre
  <2> QED
    BY <2>1, <2>2
<1>11. W[<<>>] = u
  BY <1>3, EmptySeq
<1>12. PICK st : st = ReadLines(Then("fkdefine", m, u), Printed(b)) /\ Ran(m, "fkdefine", E, Q, W, f, hs, st)
  <2>1. Ran(m, "fkdefine", E, Q, W, f, hs, ReadLines(Then("fkdefine", m, W[<<>>]), Printed(FlattenSeq(Image(hs, F)))))
    BY <1>1, <1>4, <1>5, <1>6, <1>7, <1>8, <1>9, PairsRead
  <2> QED
    BY <1>10, <1>11, <2>1
<1>13. PICK w \in Seq(Q) : /\ st \in Near("fkdefine", Put(m, "fkdefine", W[w])) /\ Alike(hs, w)
                           /\ hs \in Seq(E) => w = Image(hs, f)
  BY <1>12 DEF Ran
<1>14. W[w] = Put(u, "withheld", w)
  BY <1>3
<1>15. ASSUME hs \in Seq(Q) PROVE w = hs
  <2>1. Fixes(f, Q)
    BY <1>2, <1>4, <1>5, HeldIs DEF Fixes
  <2>2. Q \in SUBSET R /\ f \in [R -> Q] /\ hs \in Seq(Q)
    BY <1>4, <1>5, <1>15
  <2>3. Image(hs, f) = hs
    BY <2>1, <2>2, ImageSame, SMTT(20), ZenonT(30)
  <2>4. hs \in Seq(E)
    BY <1>4, <1>15, SeqMonotonic
  <2> QED
    BY <1>13, <2>3, <2>4
<1>16. ASSUME hs \in Seq(E) PROVE Unstated(w) = Unstated(hs)
  <2>1. Restates(f, E)
    BY <1>2, <1>4, <1>5, HeldIs DEF Restates
  <2>2. Unstated(Image(hs, f)) = Unstated(hs)
    BY <1>16, <2>1, UnstatedImage
  <2> QED
    BY <1>13, <1>16, <2>2
<1> QED
  BY <1>2, <1>10, <1>12, <1>13, <1>14, <1>15, <1>16

RawFk == [defined : Seq(RawTriple), withheld : Seq(RawHeld)]

TakenFk == [defined : Seq(Refs(RowMark)), withheld : Seq(ReadHeld)]

FkOut(v) ==
  {w \in TakenFk : /\ Alike(v.withheld, w.withheld)
                   /\ v.defined \in Seq(Refs(RowMark)) => w.defined = v.defined
                   /\ v.withheld \in Seq(SoundHeld) => Unstated(w.withheld) = Unstated(v.withheld)
                   /\ v \in TakenFk => w = v}

LEMMA FkRead ==
  ASSUME NEW m, IsSum(m), m.fkdefine = Nothing.fkdefine, NEW v \in RawFk
  PROVE  \E w \in FkOut(v) :
           ReadLines(At(Header("fkdefine"), m), Printed(FkdefineLines(v))) \in Near("fkdefine", Put(m, "fkdefine", w))
<1>0. PICK ds \in Seq(RawTriple), hs \in Seq(RawHeld) : ds = v.defined /\ hs = v.withheld
  BY DEF RawFk
<1>1. PICK l0 : l0 = [defined |-> <<>>, withheld |-> <<>>] /\ m.fkdefine = l0
  BY DEF Nothing
<1>2. Then("fkdefine", m, l0) = At(Header("fkdefine"), m)
  <2>1. Put(m, "fkdefine", m.fkdefine) = m
    BY PutIs DEF Field9
  <2> QED
    BY <1>1, <2>1 DEF Then
<1>3. /\ \A y : Put(l0, "defined", y) = [defined |-> y, withheld |-> <<>>]
      /\ \A y : Put(l0, "defined", y).defined = y
      /\ Put(l0, "defined", <<>>) = l0
  <2>1. l0 = [defined |-> <<>>, withheld |-> <<>>]
    BY <1>1
  <2>2. \A y : Put(l0, "defined", y) = [defined |-> y, withheld |-> <<>>]
    BY <2>1 DEF Put
  <2>3. ASSUME NEW y PROVE Put(l0, "defined", y).defined = y
    BY <2>2
  <2>4. Put(l0, "defined", <<>>) = l0
    BY <2>1, <2>2
  <2> QED
    BY <2>2, <2>3, <2>4
<1>4. PICK a \in Seq(Entry) : a = LinesOf(ds, DefineLine)
  BY <1>3, DefinesRead
<1>5. PICK w1 \in Seq(Refs(RowMark)) :
        /\ ReadLines(Then("fkdefine", m, l0), Printed(a)) = Then("fkdefine", m, Put(l0, "defined", w1))
        /\ ds \in Seq(Refs(RowMark)) => w1 = ds
  BY <1>3, <1>4, DefinesRead
<1>6. PICK u : u = [defined |-> w1, withheld |-> <<>>]
  OBVIOUS
<1>61. u = Put(l0, "defined", w1)
  BY <1>3, <1>6
<1>7. \A y : Put(u, "withheld", y) = [defined |-> w1, withheld |-> y]
  BY <1>6 DEF Put
<1>8. Put(u, "withheld", <<>>) = u /\ \A y : Put(u, "withheld", y).withheld = y
  <2>1. ASSUME NEW y PROVE Put(u, "withheld", y).withheld = y
    BY <1>7
  <2>2. Put(u, "withheld", <<>>) = u
    BY <1>6, <1>7
  <2> QED
    BY <2>1, <2>2
<1>9. PICK b \in Seq(Entry) : b = FlattenSeq(LinesOf(hs, WithheldLines))
  BY <1>8, HeldsRead
<1>10. PICK w2 \in Seq(ReadHeld) :
         /\ ReadLines(Then("fkdefine", m, u), Printed(b)) \in Near("fkdefine", Put(m, "fkdefine", Put(u, "withheld", w2)))
         /\ Alike(hs, w2)
         /\ hs \in Seq(ReadHeld) => w2 = hs
         /\ hs \in Seq(SoundHeld) => Unstated(w2) = Unstated(hs)
  BY <1>8, <1>9, HeldsRead
<1>11. FkdefineLines(v) = Cat(a, b)
  BY <1>0, <1>4, <1>9 DEF FkdefineLines, Cat
<1>12. PICK st : st = ReadLines(At(Header("fkdefine"), m), Printed(Cat(a, b)))
                 /\ st = ReadLines(Then("fkdefine", m, u), Printed(b))
  BY <1>2, <1>5, <1>61, ChainRead
<1>13. PICK w : w = [defined |-> w1, withheld |-> w2] /\ w = Put(u, "withheld", w2)
  BY <1>7
<1>14. w \in TakenFk
  BY <1>13 DEF TakenFk
<1>15. ASSUME v \in TakenFk PROVE w = v
  <2>1. ds \in Seq(Refs(RowMark)) /\ hs \in Seq(ReadHeld) /\ v = [defined |-> ds, withheld |-> hs]
    BY <1>0, <1>15 DEF TakenFk
  <2> QED
    BY <1>5, <1>10, <1>13, <2>1
<1>16. w.defined = w1 /\ w.withheld = w2
  BY <1>13
<1>17. w \in FkOut(v)
  BY <1>0, <1>5, <1>10, <1>14, <1>15, <1>16 DEF FkOut
<1> QED
  BY <1>10, <1>11, <1>12, <1>13, <1>17

-----------------------------------------------------------------------------
(* [rebuild].                                                              *)

(* [rebuild] has five lists, one after the other.  u is the summary with   *)
(* an empty list at fld.                                                   *)
Fresh(u, fld) == Put(u, fld, <<>>) = u /\ \A y : Put(u, fld, y)[fld] = y

Comes(m, u, fld, E, Q, f, p, lines) ==
  \A st \in Near("rebuild", Put(m, "rebuild", u)) :
    \E y \in Seq(Q) :
      /\ ReadLines(st, Printed(lines)) \in Near("rebuild", Put(m, "rebuild", Put(u, fld, y)))
      /\ st = Then("rebuild", m, u) =>
           /\ Alike(p, y)
           /\ p \in Seq(E) => /\ y = Image(p, f)
                              /\ ReadLines(st, Printed(lines)) = Then("rebuild", m, Put(u, fld, y))

LEMMA ComesFrom ==
  ASSUME NEW m, NEW u, NEW fld, Fresh(u, fld), NEW E, NEW Q, NEW f, NEW p, NEW lines,
         NEW W, \A y \in Seq(Q) : W[y] = Put(u, fld, y),
         Ran(m, "rebuild", E, Q, W, f, p, ReadLines(Then("rebuild", m, W[<<>>]), Printed(lines))),
         \A st \in Far(m, "rebuild", Q, W) : ReadLines(st, Printed(lines)) \in Far(m, "rebuild", Q, W)
  PROVE  Comes(m, u, fld, E, Q, f, p, lines)
<1>1. <<>> \in Seq(Q) /\ W[<<>>] = u
  BY EmptySeq DEF Fresh
<1>2. SUFFICES ASSUME NEW st \in Near("rebuild", Put(m, "rebuild", u))
               PROVE  \E y \in Seq(Q) :
                        /\ ReadLines(st, Printed(lines)) \in Near("rebuild", Put(m, "rebuild", Put(u, fld, y)))
                        /\ st = Then("rebuild", m, u) =>
                             /\ Alike(p, y)
                             /\ p \in Seq(E) => /\ y = Image(p, f)
                                                /\ ReadLines(st, Printed(lines)) = Then("rebuild", m, Put(u, fld, y))
  BY DEF Comes
<1>3. PICK t : t = ReadLines(st, Printed(lines))
  OBVIOUS
<1>4. CASE st = Then("rebuild", m, u)
  <2>1. Ran(m, "rebuild", E, Q, W, f, p, t)
    BY <1>1, <1>3, <1>4
  <2>2. PICK y \in Seq(Q) : /\ t \in Near("rebuild", Put(m, "rebuild", W[y]))
                            /\ Alike(p, y)
                            /\ p \in Seq(E) => y = Image(p, f) /\ t = Then("rebuild", m, W[y])
    BY <2>1 DEF Ran
  <2>3. W[y] = Put(u, fld, y)
    OBVIOUS
  <2> QED
    BY <1>3, <2>2, <2>3
<1>5. CASE st # Then("rebuild", m, u)
  <2>1. st \in Far(m, "rebuild", Q, W)
    BY <1>1 DEF Far
  <2>2. PICK y \in Seq(Q) : t \in Near("rebuild", Put(m, "rebuild", W[y]))
    BY <1>3, <2>1 DEF Far
  <2>3. W[y] = Put(u, fld, y)
    OBVIOUS
  <2> QED
    BY <1>3, <1>5, <2>2, <2>3
<1> QED
  BY <1>4, <1>5

(* A list of lines.                                                        *)
Listed(m, u, fld, Q, key, R, V, f) ==
  \A x \in R : \A k : \A y \in Seq(Q) :
    k = Put(u, fld, y) /\ k[fld] = y =>
      ReadEntry(Put(m, "rebuild", k), Header("rebuild"), key, Trim(First(V[x])))
        = Put(m, "rebuild", Put(k, fld, Add(y, f[x])))

LEMMA ListComes ==
  ASSUME NEW m, IsSum(m), NEW u, NEW fld, Fresh(u, fld), NEW S, NEW R \in SUBSET S, NEW E \in SUBSET R,
         NEW Q, NEW f \in [R -> Q], NEW key \in Keys, NEW V \in [R -> Prose], NEW F \in [S -> Entry],
         Lines(key, R, V, F), Quiet(E, V), Listed(m, u, fld, Q, key, R, V, f), NEW p \in Seq(R)
  PROVE  Comes(m, u, fld, E, Q, f, p, Image(p, F))
<1>1. "rebuild" \in Field9
  BY DEF Field9
<1>2. PICK W : W = [y \in Seq(Q) |-> Put(u, fld, y)]
  OBVIOUS
<1>3. \A y \in Seq(Q) : W[y] = Put(u, fld, y)
  BY <1>2
<1>4. Reads(m, "rebuild", Q, W, key, R, V, f)
  <2> SUFFICES ASSUME NEW x \in R, NEW y \in Seq(Q)
               PROVE  ReadEntry(Put(m, "rebuild", W[y]), Header("rebuild"), key, Trim(First(V[x])))
                        = Put(m, "rebuild", W[Add(y, f[x])])
    BY DEF Reads
  <2>1. PICK k : k = Put(u, fld, y) /\ k[fld] = y /\ \A z : Put(k, fld, z) = Put(u, fld, z)
    BY PutPut DEF Fresh
  <2>2. Add(y, f[x]) \in Seq(Q)
    BY AddType
  <2>3. ReadEntry(Put(m, "rebuild", k), Header("rebuild"), key, Trim(First(V[x])))
          = Put(m, "rebuild", Put(k, fld, Add(y, f[x])))
    BY <2>1 DEF Listed
  <2> QED
    BY <1>3, <2>1, <2>2, <2>3
<1>5. Ran(m, "rebuild", E, Q, W, f, p, ReadLines(Then("rebuild", m, W[<<>>]), Printed(Image(p, F))))
  BY <1>1, <1>4, LinesRead
<1>6. \A st \in Far(m, "rebuild", Q, W) : ReadLines(st, Printed(Image(p, F))) \in Far(m, "rebuild", Q, W)
  BY <1>1, <1>4, LinesRead
<1> QED
  BY <1>3, <1>5, <1>6, ComesFrom

(* What the lines of [rebuild] add.                                        *)
LEMMA RebuildDispatch ==
  ASSUME NEW m, IsSum(m), NEW k, NEW n, n = Put(m, "rebuild", k)
  PROVE  /\ n.rebuild = k /\ \A z : Put(n, "rebuild", z) = Put(m, "rebuild", z)
         /\ \A key, v : ReadEntry(n, Header("rebuild"), key, v) = ReadRebuild(n, key, v)
<1>1. n.rebuild = k /\ \A z : Put(n, "rebuild", z) = Put(m, "rebuild", z)
  BY PutIs DEF Field9
<1>2. \A key, v : ReadEntry(n, Header("rebuild"), key, v) = ReadRebuild(n, key, v)
  BY Dispatch
<1> QED
  BY <1>1, <1>2

LEMMA OkTake ==
  ASSUME NEW m, IsSum(m), NEW k, NEW y, k.rebuilt = y, NEW val, NEW c, IsConstraint(SplitRecord(val)),
         Constraint(SplitRecord(val)) = c
  PROVE  ReadEntry(Put(m, "rebuild", k), Header("rebuild"), "ok", val)
           = Put(m, "rebuild", Put(k, "rebuilt", Add(y, c)))
<1>1. PICK n : n = Put(m, "rebuild", k)
  OBVIOUS
<1>2. n.rebuild = k /\ \A z : Put(n, "rebuild", z) = Put(m, "rebuild", z)
  BY <1>1, RebuildDispatch
<1>3. ReadEntry(n, Header("rebuild"), "ok", val) = ReadRebuild(n, "ok", val)
  BY <1>1, RebuildDispatch
<1>4. ReadRebuild(n, "ok", val) = [n EXCEPT !.rebuild.rebuilt = Append(@, c)]
  BY DEF ReadRebuild
<1>5. [n EXCEPT !.rebuild.rebuilt = Append(@, c)] = Put(n, "rebuild", [k EXCEPT !.rebuilt = Append(@, c)])
  BY <1>2 DEF Put
<1>6. [k EXCEPT !.rebuilt = Append(@, c)] = Put(k, "rebuilt", Add(y, c))
  BY DEF Put, Add
<1> QED
  BY <1>1, <1>2, <1>3, <1>4, <1>5, <1>6

LEMMA IndexTake ==
  ASSUME NEW m, IsSum(m), NEW k, NEW y, k.indexes = y, NEW val, NEW c, Trim(val) = c
  PROVE  ReadEntry(Put(m, "rebuild", k), Header("rebuild"), "index", val)
           = Put(m, "rebuild", Put(k, "indexes", Add(y, c)))
<1>1. PICK n : n = Put(m, "rebuild", k)
  OBVIOUS
<1>2. n.rebuild = k /\ \A z : Put(n, "rebuild", z) = Put(m, "rebuild", z)
  BY <1>1, RebuildDispatch
<1>3. ReadEntry(n, Header("rebuild"), "index", val) = ReadRebuild(n, "index", val)
  BY <1>1, RebuildDispatch
<1>4. ReadRebuild(n, "index", val) = [n EXCEPT !.rebuild.indexes = Append(@, c)]
  BY DEF ReadRebuild
<1>5. [n EXCEPT !.rebuild.indexes = Append(@, c)] = Put(n, "rebuild", [k EXCEPT !.indexes = Append(@, c)])
  BY <1>2 DEF Put
<1>6. [k EXCEPT !.indexes = Append(@, c)] = Put(k, "indexes", Add(y, c))
  BY DEF Put, Add
<1> QED
  BY <1>1, <1>2, <1>3, <1>4, <1>5, <1>6

LEMMA FailedTake ==
  ASSUME NEW m, IsSum(m), NEW k, NEW y, k.failed = y, NEW val, NEW c, Len(SplitRecord(val)) >= 1,
         [name |-> SplitRecord(val)[1], reason |-> Field(SplitRecord(val), 2)] = c
  PROVE  ReadEntry(Put(m, "rebuild", k), Header("rebuild"), "index_fail", val)
           = Put(m, "rebuild", Put(k, "failed", Add(y, c)))
<1>1. PICK n : n = Put(m, "rebuild", k)
  OBVIOUS
<1>2. n.rebuild = k /\ \A z : Put(n, "rebuild", z) = Put(m, "rebuild", z)
  BY <1>1, RebuildDispatch
<1>3. ReadEntry(n, Header("rebuild"), "index_fail", val) = ReadRebuild(n, "index_fail", val)
  BY <1>1, RebuildDispatch
<1>4. ReadRebuild(n, "index_fail", val) = [n EXCEPT !.rebuild.failed = Append(@, c)]
  BY DEF ReadRebuild
<1>5. [n EXCEPT !.rebuild.failed = Append(@, c)] = Put(n, "rebuild", [k EXCEPT !.failed = Append(@, c)])
  BY <1>2 DEF Put
<1>6. [k EXCEPT !.failed = Append(@, c)] = Put(k, "failed", Add(y, c))
  BY DEF Put, Add
<1> QED
  BY <1>1, <1>2, <1>3, <1>4, <1>5, <1>6

LEMMA CascadeTake ==
  ASSUME NEW m, IsSum(m), NEW k, NEW y, k.withheld = y, NEW f, Len(f) >= 3, NEW val, SplitRecord(val) = f, NEW c,
         [child |-> f[1], parent |-> f[2], name |-> f[3], reason |-> Field(f, 4)] = c
  PROVE  ReadEntry(Put(m, "rebuild", k), Header("rebuild"), "withhold", val)
           = Put(m, "rebuild", Put(k, "withheld", Add(y, c)))
<1>1. PICK n : n = Put(m, "rebuild", k)
  OBVIOUS
<1>2. n.rebuild = k /\ \A z : Put(n, "rebuild", z) = Put(m, "rebuild", z)
  BY <1>1, RebuildDispatch
<1>3. ReadEntry(n, Header("rebuild"), "withhold", val) = ReadRebuild(n, "withhold", val)
  BY <1>1, RebuildDispatch
<1>4. ReadRebuild(n, "withhold", val) = [n EXCEPT !.rebuild.withheld = Append(@, c)]
  BY DEF ReadRebuild
<1>5. [n EXCEPT !.rebuild.withheld = Append(@, c)] = Put(n, "rebuild", [k EXCEPT !.withheld = Append(@, c)])
  BY <1>2 DEF Put
<1>6. [k EXCEPT !.withheld = Append(@, c)] = Put(k, "withheld", Add(y, c))
  BY DEF Put, Add
<1> QED
  BY <1>1, <1>2, <1>3, <1>4, <1>5, <1>6, SMTT(20), ZenonT(30)

Id(R) == [x \in R |-> x]

LEMMA OksCome ==
  ASSUME NEW m, IsSum(m), NEW u, Fresh(u, "rebuilt"), NEW R, R = CleanConstraint, NEW p \in Seq(R)
  PROVE  LinesOf(p, OkLine) \in Seq(Entry) /\ Comes(m, u, "rebuilt", R, R, Id(R), p, LinesOf(p, OkLine))
<1>1. PICK S, F, V, f : /\ S = LooseConstraint /\ F = OkF /\ f = Id(R)
                        /\ V = [c \in R |-> Fields(<<c.kind, c.cls, c.name>>)]
  OBVIOUS
<1>2. R \in SUBSET S /\ R \in SUBSET R /\ F \in [S -> Entry] /\ "ok" \in Keys
  BY <1>1, CleanLoose, LineTypes DEF Keys, Key
<1>3. f \in [R -> R] /\ \A c \in R : f[c] = c
  BY <1>1 DEF Id
<1>4. /\ V \in [R -> Prose]
      /\ \A c \in R : /\ V[c] = Fields(<<c.kind, c.cls, c.name>>) /\ V[c] \in Row
                      /\ IsConstraint(SplitRecord(Trim(First(V[c]))))
                      /\ Constraint(SplitRecord(Trim(First(V[c])))) = c
  <2>1. ASSUME NEW c \in R
        PROVE  \E x \in Row : /\ x = Fields(<<c.kind, c.cls, c.name>>) /\ x \in Prose /\ First(x) = x
                              /\ IsConstraint(SplitRecord(Trim(x))) /\ Constraint(SplitRecord(Trim(x))) = c
    BY ConstraintFields, RowProse, FirstIs
  <2> QED
    BY <1>1, <2>1
<1>5. Lines("ok", R, V, F)
  BY <1>1, <1>2, <1>4 DEF Lines, OkF, OkLine, ConstraintLine
<1>6. Quiet(R, V)
  BY <1>4, RowHarmless DEF Quiet
<1>7. Listed(m, u, "rebuilt", R, "ok", R, V, f)
  <2> SUFFICES ASSUME NEW x \in R, NEW k, NEW y \in Seq(R), k.rebuilt = y
               PROVE  ReadEntry(Put(m, "rebuild", k), Header("rebuild"), "ok", Trim(First(V[x])))
                        = Put(m, "rebuild", Put(k, "rebuilt", Add(y, f[x])))
    BY DEF Listed
  <2>1. PICK val : /\ val = Trim(First(V[x])) /\ IsConstraint(SplitRecord(val))
                   /\ Constraint(SplitRecord(val)) = x
    BY <1>4
  <2> QED
    BY <1>3, <2>1, OkTake
<1>8. p \in Seq(S)
  BY <1>2, SeqMonotonic
<1>9. LinesOf(p, OkLine) = Image(p, F) /\ Image(p, F) \in Seq(Entry)
  <2>1. Image(p, F) \in Seq(Entry)
    BY <1>2, <1>8, ImageIs
  <2> QED
    BY <1>1, <1>8, <2>1, LinesAre
<1>10. Comes(m, u, "rebuilt", R, R, f, p, Image(p, F))
  BY <1>2, <1>3, <1>4, <1>5, <1>6, <1>7, ListComes
<1> QED
  BY <1>1, <1>9, <1>10

LEMMA IndexesCome ==
  ASSUME NEW m, IsSum(m), NEW u, Fresh(u, "indexes"), NEW R, R = Cell, NEW p \in Seq(R)
  PROVE  LinesOf(p, IndexLine) \in Seq(Entry) /\ Comes(m, u, "indexes", R, R, Id(R), p, LinesOf(p, IndexLine))
<1>1. PICK S, F, f : S = Row /\ F = IndexF /\ f = Id(R)
  OBVIOUS
<1>2. R \in SUBSET S /\ R \in SUBSET R /\ F \in [S -> Entry] /\ "index" \in Keys
  BY <1>1, CellsRow, LineTypes DEF Keys, Key
<1>3. f \in [R -> R] /\ \A c \in R : f[c] = c
  BY <1>1 DEF Id
<1>4. /\ f \in [R -> Prose]
      /\ \A c \in R : f[c] \in Row /\ Trim(Trim(First(f[c]))) = c
  BY <1>3, CellIs
<1>5. Lines("index", R, f, F)
  BY <1>1, <1>2, <1>3 DEF Lines, IndexF, IndexLine
<1>6. Quiet(R, f)
  BY <1>4, RowHarmless DEF Quiet
<1>7. Listed(m, u, "indexes", R, "index", R, f, f)
  BY <1>3, <1>4, IndexTake DEF Listed
<1>8. p \in Seq(S)
  BY <1>2, SeqMonotonic
<1>9. LinesOf(p, IndexLine) = Image(p, F) /\ Image(p, F) \in Seq(Entry)
  <2>1. Image(p, F) \in Seq(Entry)
    BY <1>2, <1>8, ImageIs
  <2> QED
    BY <1>1, <1>8, <2>1, LinesAre
<1>10. Comes(m, u, "indexes", R, R, f, p, Image(p, F))
  BY <1>2, <1>3, <1>4, <1>5, <1>6, <1>7, ListComes
<1> QED
  BY <1>1, <1>9, <1>10

(* An index that could not be made: a name, and what the engine said.      *)
RawFailed == [name : Cell, reason : Spoken]

ReadFailed == [name : Cell, reason : Cell]

FailedTaken == [x \in RawFailed |-> [name |-> x.name, reason |-> Said(x.reason)[1]]]

LEMMA FailedIs ==
  ASSUME NEW x \in RawFailed
  PROVE  \E t \in Prose : /\ t = Fields(<<x.name, x.reason>>) /\ x \in LooseFailed
                          /\ Len(SplitRecord(Trim(First(t)))) >= 1
                          /\ [name |-> SplitRecord(Trim(First(t)))[1],
                              reason |-> Field(SplitRecord(Trim(First(t))), 2)] = FailedTaken[x]
                          /\ FailedTaken[x] \in ReadFailed
                          /\ x \in ReadFailed => FailedTaken[x] = x /\ t \in Row
<1>1. PICK a \in Cell, b \in Spoken : a = x.name /\ b = x.reason
  BY DEF RawFailed
<1>2. PICK q \in Seq(Cell) : q = <<a>> /\ q # <<>> /\ Len(q) = 1 /\ q[1] = a
  BY One
<1>3. PICK r \in Seq(Row) : r = Said(b) /\ r # <<>> /\ r[1] \in Cell
  BY SaidIs
<1>4. PICK t \in Prose : t = Fields(Add(q, b)) /\ SplitRecord(Trim(First(t))) = Cat(q, Said(b)) /\ (b \in Row => t \in Row)
  BY <1>2, RecordSplit
<1>5. Add(q, b) = <<a, b>>
  <2>1. a \in Prose /\ b \in Prose
    BY CellIs, SpokenIs
  <2> QED
    BY <1>2, <2>1, PairIs
<1>6. q \in Seq(Row)
  BY CellsRow
<1>7. PICK f : /\ f = SplitRecord(Trim(First(t))) /\ Len(f) = Len(q) + Len(r) /\ f[1] = q[1] /\ f[2] = r[1]
               /\ DOMAIN f = 1 .. Len(f) /\ Len(r) \in Nat /\ Len(r) >= 1
  <2>1. PICK f \in Seq(Row) : /\ f = Cat(q, r) /\ Len(f) = Len(q) + Len(r)
                              /\ \A i \in 1 .. Len(q) + Len(r) : f[i] = IF i <= Len(q) THEN q[i] ELSE r[i - Len(q)]
    BY <1>6, CatType
  <2>2. Len(r) \in Nat /\ Len(r) >= 1
    BY <1>3, EmptySeq, LenProperties
  <2>3. f[1] = q[1] /\ f[2] = r[1]
    BY <1>2, <2>1, <2>2
  <2>4. DOMAIN f = 1 .. Len(f)
    BY LenProperties
  <2> QED
    BY <1>3, <1>4, <2>1, <2>2, <2>3, <2>4
<1>8. Len(f) >= 1 /\ Field(f, 2) = f[2]
  BY <1>2, <1>7 DEF Field
<1>9. FailedTaken[x] = [name |-> a, reason |-> r[1]]
  BY <1>1, <1>3 DEF FailedTaken
<1>10. FailedTaken[x] \in ReadFailed
  BY <1>3, <1>9 DEF ReadFailed
<1>11. [name |-> f[1], reason |-> Field(f, 2)] = FailedTaken[x]
  BY <1>2, <1>7, <1>8, <1>9
<1>12. ASSUME x \in ReadFailed PROVE FailedTaken[x] = x /\ t \in Row
  <2>1. b \in Cell /\ x = [name |-> a, reason |-> b]
    BY <1>1, <1>12 DEF ReadFailed
  <2>2. Said(b)[1] = b /\ b \in Row
    BY <2>1, SaidIs, CellIs
  <2> QED
    BY <1>3, <1>4, <1>9, <2>1, <2>2
<1>13. x \in LooseFailed
  BY <1>1, CellIs, SpokenIs DEF RawFailed, LooseFailed
<1> QED
  BY <1>1, <1>4, <1>5, <1>7, <1>8, <1>10, <1>11, <1>12, <1>13

LEMMA FailedsCome ==
  ASSUME NEW m, IsSum(m), NEW u, Fresh(u, "failed"), NEW R, R = RawFailed, NEW Q, Q = ReadFailed, NEW p \in Seq(R)
  PROVE  /\ LinesOf(p, FailedLine) \in Seq(Entry)
         /\ Comes(m, u, "failed", Q, Q, FailedTaken, p, LinesOf(p, FailedLine))
         /\ p \in Seq(Q) => Image(p, FailedTaken) = p
<1>1. PICK S, F, V, f : /\ S = LooseFailed /\ F = FailedF /\ f = FailedTaken
                        /\ V = [x \in R |-> Fields(<<x.name, x.reason>>)]
  OBVIOUS
<1>2. R \in SUBSET S /\ F \in [S -> Entry] /\ "index_fail" \in Keys /\ Q \in SUBSET R
  <2>1. Q \in SUBSET R
    BY InkSpoken DEF ReadFailed, RawFailed
  <2> QED
    BY <1>1, <2>1, FailedIs, LineTypes DEF Keys, Key
<1>3. f \in [R -> Q] /\ \A x \in Q : f[x] = x
  <2>1. \A x \in R : f[x] \in Q
    BY <1>1, FailedIs
  <2>2. \A x \in Q : f[x] = x
    BY <1>1, <1>2, FailedIs
  <2> QED
    BY <1>1, <2>1, <2>2 DEF FailedTaken
<1>4. /\ V \in [R -> Prose]
      /\ \A x \in R : /\ V[x] = Fields(<<x.name, x.reason>>)
                      /\ Len(SplitRecord(Trim(First(V[x])))) >= 1
                      /\ [name |-> SplitRecord(Trim(First(V[x])))[1],
                          reason |-> Field(SplitRecord(Trim(First(V[x]))), 2)] = f[x]
                      /\ x \in Q => V[x] \in Row
  BY <1>1, FailedIs
<1>5. Lines("index_fail", R, V, F)
  BY <1>1, <1>2, <1>4 DEF Lines, FailedF, FailedLine
<1>6. Quiet(Q, V)
  BY <1>2, <1>4, RowHarmless DEF Quiet
<1>7. Listed(m, u, "failed", Q, "index_fail", R, V, f)
  <2> SUFFICES ASSUME NEW x \in R, NEW k, NEW y \in Seq(Q), k.failed = y
               PROVE  ReadEntry(Put(m, "rebuild", k), Header("rebuild"), "index_fail", Trim(First(V[x])))
                        = Put(m, "rebuild", Put(k, "failed", Add(y, f[x])))
    BY DEF Listed
  <2>1. PICK val, c : /\ val = Trim(First(V[x])) /\ Len(SplitRecord(val)) >= 1 /\ c = f[x]
                      /\ [name |-> SplitRecord(val)[1], reason |-> Field(SplitRecord(val), 2)] = c
    BY <1>4
  <2>2. ReadEntry(Put(m, "rebuild", k), Header("rebuild"), "index_fail", val)
          = Put(m, "rebuild", Put(k, "failed", Add(y, c)))
    BY <2>1, FailedTake
  <2> QED
    BY <2>1, <2>2
<1>8. p \in Seq(S)
  BY <1>2, SeqMonotonic
<1>9. LinesOf(p, FailedLine) = Image(p, F) /\ Image(p, F) \in Seq(Entry)
  <2>1. Image(p, F) \in Seq(Entry)
    BY <1>2, <1>8, ImageIs
  <2> QED
    BY <1>1, <1>8, <2>1, LinesAre
<1>10. Comes(m, u, "failed", Q, Q, f, p, Image(p, F))
  BY <1>2, <1>3, <1>4, <1>5, <1>6, <1>7, ListComes
<1>11. ASSUME p \in Seq(Q) PROVE Image(p, f) = p
  <2>1. Fixes(f, Q)
    BY <1>3 DEF Fixes
  <2>2. Q \in SUBSET R /\ f \in [R -> Q] /\ p \in Seq(Q)
    BY <1>2, <1>3, <1>11
  <2> QED
    BY <2>1, <2>2, ImageSame, SMTT(20), ZenonT(30)
<1> QED
  BY <1>1, <1>9, <1>10, <1>11

CleanCascade == [child : Cell, parent : Cell, name : Cell, reason : Cell]

LEMMA CascadeIs ==
  ASSUME NEW x \in CleanCascade
  PROVE  \E t \in Row : /\ t = Fields(<<x.child, x.parent, x.name, x.reason>>) /\ x \in LooseCascade
                        /\ \E f : /\ SplitRecord(Trim(First(t))) = f /\ Len(f) >= 3
                                  /\ [child |-> f[1], parent |-> f[2], name |-> f[3], reason |-> Field(f, 4)] = x
<1>1. PICK a \in Cell, b \in Cell, c \in Cell, d \in Cell :
        a = x.child /\ b = x.parent /\ c = x.name /\ d = x.reason /\ x = [child |-> a, parent |-> b, name |-> c, reason |-> d]
  BY DEF CleanCascade
<1>2. PICK q \in Seq(Cell) : q = <<a, b, c>> /\ q # <<>>
  <2>1. <<a, b, c>> \in Seq(Cell) /\ <<a, b, c>> # <<>>
    BY TripleSeq
  <2> QED
    BY <2>1
<1>3. <<a, b, c, d>> = Add(q, d)
  BY <1>2, QuadSeq
<1>4. d \in Spoken /\ d \in Row
  BY InkSpoken, CellIs
<1>5. PICK t \in Row : t = Fields(Add(q, d)) /\ SplitRecord(Trim(First(t))) = Cat(q, Said(d))
  BY <1>2, <1>4, RecordSplit
<1>6. Cat(q, Said(d)) = Add(q, d)
  BY SaidIs, AddIs
<1>7. PICK f : f = SplitRecord(Trim(First(t))) /\ f = <<a, b, c, d>>
  BY <1>3, <1>5, <1>6
<1>8. Len(f) >= 3 /\ f[1] = a /\ f[2] = b /\ f[3] = c /\ Field(f, 4) = d
  BY <1>7 DEF Field
<1>9. x \in LooseCascade
  BY <1>1, CellIs DEF LooseCascade
<1> QED
  BY <1>1, <1>3, <1>5, <1>7, <1>8, <1>9

LEMMA CascadesCome ==
  ASSUME NEW m, IsSum(m), NEW u, Fresh(u, "withheld"), NEW R, R = CleanCascade, NEW p \in Seq(R)
  PROVE  LinesOf(p, CascadeLine) \in Seq(Entry) /\ Comes(m, u, "withheld", R, R, Id(R), p, LinesOf(p, CascadeLine))
<1>1. PICK S, F, V, f : /\ S = LooseCascade /\ F = CascadeF /\ f = Id(R)
                        /\ V = [x \in R |-> Fields(<<x.child, x.parent, x.name, x.reason>>)]
  OBVIOUS
<1>2. R \in SUBSET S /\ R \in SUBSET R /\ F \in [S -> Entry] /\ "withhold" \in Keys
  BY <1>1, CascadeIs, LineTypes DEF Keys, Key
<1>3. f \in [R -> R] /\ \A c \in R : f[c] = c
  BY <1>1 DEF Id
<1>4. /\ V \in [R -> Prose]
      /\ \A x \in R : /\ V[x] = Fields(<<x.child, x.parent, x.name, x.reason>>) /\ V[x] \in Row
                      /\ \E g : /\ SplitRecord(Trim(First(V[x]))) = g /\ Len(g) >= 3
                                /\ [child |-> g[1], parent |-> g[2], name |-> g[3], reason |-> Field(g, 4)] = x
  BY <1>1, CascadeIs, RowProse
<1>5. Lines("withhold", R, V, F)
  BY <1>1, <1>2, <1>4 DEF Lines, CascadeF, CascadeLine
<1>6. Quiet(R, V)
  BY <1>4, RowHarmless DEF Quiet
<1>7. Listed(m, u, "withheld", R, "withhold", R, V, f)
  <2> SUFFICES ASSUME NEW x \in R, NEW k, NEW y \in Seq(R), k.withheld = y
               PROVE  ReadEntry(Put(m, "rebuild", k), Header("rebuild"), "withhold", Trim(First(V[x])))
                        = Put(m, "rebuild", Put(k, "withheld", Add(y, f[x])))
    BY DEF Listed
  <2>1. PICK g, val : /\ val = Trim(First(V[x])) /\ SplitRecord(val) = g /\ Len(g) >= 3
                      /\ [child |-> g[1], parent |-> g[2], name |-> g[3], reason |-> Field(g, 4)] = x
    BY <1>4
  <2> QED
    BY <1>3, <2>1, CascadeTake
<1>8. p \in Seq(S)
  BY <1>2, SeqMonotonic
<1>9. LinesOf(p, CascadeLine) = Image(p, F) /\ Image(p, F) \in Seq(Entry)
  <2>1. Image(p, F) \in Seq(Entry)
    BY <1>2, <1>8, ImageIs
  <2> QED
    BY <1>1, <1>8, <2>1, LinesAre
<1>10. Comes(m, u, "withheld", R, R, f, p, Image(p, F))
  BY <1>2, <1>3, <1>4, <1>5, <1>6, <1>7, ListComes
<1> QED
  BY <1>1, <1>9, <1>10

(* A constraint that could not be made again: what the engine said, and    *)
(* the statement that makes it.                                            *)
RawPending == [kind : KindCell, cls : Cell, name : Cell, reason : Spoken, readd : Prose]

ReadPending == [kind : KindCell, cls : Cell, name : Cell, reason : Cell, readd : Stated]

SoundPending == {x \in RawPending : x.reason \in Cell /\ Harmless(x.readd)}

PendingFirst(x) ==
  [kind |-> x.kind, cls |-> x.cls, name |-> x.name, reason |-> Said(x.reason)[1], readd |-> <<>>]

PendingTaken(x) == [PendingFirst(x) EXCEPT !.readd = Trim(First(OrNone(x.readd)))]

LEMMA OrNoneIs ==
  ASSUME NEW t \in Prose
  PROVE  /\ OrNone(t) \in Prose /\ (Harmless(t) => Harmless(OrNone(t)))
         /\ Trim(First(OrNone(t))) \in Stated
         /\ t \in Stated => Trim(First(OrNone(t))) = OrNone(t)
<1>1. NoneMarker \in Cell /\ NoneMarker \in Ink
  BY NoneIs
<1>2. NoneMarker \in Prose /\ Harmless(NoneMarker) /\ NoneMarker \in Stated
  BY <1>1, SpokenIs, InkIs DEF Stated
<1>3. PICK u : u = OrNone(t) /\ (u = t \/ u = NoneMarker)
  BY DEF OrNone
<1>4. u \in Prose /\ (Harmless(t) => Harmless(u)) /\ (t \in Stated => u \in Stated)
  BY <1>2, <1>3
<1> QED
  BY <1>3, <1>4, StatedIs

(* The fields of a record of four.                                         *)
LEMMA FourFields ==
  ASSUME NEW a \in Cell, NEW b \in Cell, NEW c \in Cell, NEW d \in Spoken
  PROVE  \E t \in Prose : \E f :
           /\ t = Fields(<<a, b, c, d>>) /\ (d \in Row => t \in Row)
           /\ f = SplitRecord(Trim(First(t))) /\ Len(f) >= 3 /\ f[1] = a /\ f[2] = b /\ f[3] = c
           /\ Field(f, 4) = Said(d)[1]
<1>1. PICK q \in Seq(Cell) : /\ q = <<a, b, c>> /\ q # <<>> /\ Len(q) = 3 /\ q[1] = a /\ q[2] = b /\ q[3] = c
  <2>1. <<a, b, c>> \in Seq(Cell) /\ <<a, b, c>> # <<>>
    BY TripleSeq
  <2> QED
    BY <2>1
<1>2. <<a, b, c, d>> = Add(q, d)
  <2>1. a \in Prose /\ b \in Prose /\ c \in Prose /\ d \in Prose
    BY CellIs, SpokenIs
  <2> QED
    BY <1>1, <2>1, QuadSeq
<1>3. PICK r \in Seq(Row) : r = Said(d) /\ r # <<>>
  BY SaidIs
<1>4. PICK t \in Prose : t = Fields(Add(q, d)) /\ SplitRecord(Trim(First(t))) = Cat(q, Said(d)) /\ (d \in Row => t \in Row)
  BY <1>1, RecordSplit
<1>5. q \in Seq(Row)
  BY CellsRow
<1>6. PICK f \in Seq(Row) : /\ f = Cat(q, r) /\ Len(f) = 3 + Len(r)
                            /\ \A i \in 1 .. 3 + Len(r) : f[i] = IF i <= 3 THEN q[i] ELSE r[i - 3]
  <2>1. /\ Cat(q, r) \in Seq(Row) /\ Len(Cat(q, r)) = Len(q) + Len(r)
        /\ \A i \in 1 .. Len(q) + Len(r) : Cat(q, r)[i] = IF i <= Len(q) THEN q[i] ELSE r[i - Len(q)]
    BY <1>5, CatType
  <2>2. Len(q) = 3
    BY <1>1
  <2> QED
    BY <2>1, <2>2
<1>7. Len(r) \in Nat /\ Len(r) >= 1
  BY <1>3, EmptySeq, LenProperties
<1>8. f[1] = q[1] /\ f[2] = q[2] /\ f[3] = q[3] /\ f[4] = r[1] /\ Len(f) >= 4
  <2>1. /\ Len(f) = 3 + Len(r)
        /\ \A i \in 1 .. 3 + Len(r) : f[i] = IF i <= 3 THEN q[i] ELSE r[i - 3]
    BY <1>6
  <2>2. f[1] = q[1] /\ f[2] = q[2] /\ f[3] = q[3]
    BY <1>7, <2>1
  <2>3. 4 \in 1 .. 3 + Len(r) /\ ~(4 <= 3) /\ 4 - 3 = 1
    BY <1>7
  <2>4. f[4] = r[1]
    BY <2>1, <2>3
  <2> QED
    BY <1>7, <2>1, <2>2, <2>4
<1>9. DOMAIN f = 1 .. Len(f)
  BY LenProperties
<1>10. Field(f, 4) = r[1]
  BY <1>6, <1>7, <1>8, <1>9 DEF Field
<1>11. f = SplitRecord(Trim(First(t)))
  BY <1>3, <1>4, <1>6
<1>12. Len(f) >= 3 /\ f[1] = a /\ f[2] = b /\ f[3] = c
  BY <1>1, <1>6, <1>7, <1>8
<1> QED
  BY <1>2, <1>3, <1>4, <1>10, <1>11, <1>12

LEMMA PendingIs ==
  ASSUME NEW x \in RawPending
  PROVE  \E t \in Prose : \E f :
           /\ PendingLines(x) = <<Line("fail", t), Line("fail_readd", OrNone(x.readd))>>
           /\ t = Fields(<<x.kind, x.cls, x.name, x.reason>>)
           /\ f = SplitRecord(Trim(First(t))) /\ IsConstraint(f)
           /\ [kind |-> f[1], cls |-> f[2], name |-> f[3], reason |-> Field(f, 4), readd |-> <<>>] = PendingFirst(x)
           /\ PendingFirst(x) \in ReadPending /\ PendingTaken(x) \in ReadPending /\ x \in LoosePending
           /\ x \in SoundPending => /\ t \in Row
                                    /\ [PendingTaken(x) EXCEPT !.readd = <<>>] = [x EXCEPT !.readd = <<>>]
           /\ x \in ReadPending => x \in SoundPending /\ PendingTaken(x) = [x EXCEPT !.readd = OrNone(@)]
<1>1. PICK a \in KindCell, b \in Cell, c \in Cell, d \in Spoken, s \in Prose :
        a = x.kind /\ b = x.cls /\ c = x.name /\ d = x.reason /\ s = x.readd
  BY DEF RawPending
<1>2. a \in Cell /\ a \in Row
  BY KindsCells, CellIs
<1>3. PICK t, f :
        /\ t \in Prose
        /\ t = Fields(<<a, b, c, d>>) /\ (d \in Row => t \in Row)
        /\ f = SplitRecord(Trim(First(t))) /\ Len(f) >= 3 /\ f[1] = a /\ f[2] = b /\ f[3] = c
        /\ Field(f, 4) = Said(d)[1]
  BY <1>2, FourFields
<1>4. IsConstraint(f)
  BY <1>3 DEF IsConstraint, KindCell
<1>5. PICK r \in Cell : r = Said(d)[1] /\ (d \in Cell => r = d)
  BY SaidIs
<1>6. PICK o : o = Trim(First(OrNone(s))) /\ o \in Stated /\ (s \in Stated => o = OrNone(s))
  BY OrNoneIs
<1>7. PendingFirst(x) = [kind |-> a, cls |-> b, name |-> c, reason |-> r, readd |-> <<>>]
  BY <1>1, <1>5 DEF PendingFirst
<1>8. PendingTaken(x) = [kind |-> a, cls |-> b, name |-> c, reason |-> r, readd |-> o]
  BY <1>1, <1>6, <1>7 DEF PendingTaken
<1>9. PendingFirst(x) \in ReadPending /\ PendingTaken(x) \in ReadPending
  <2>1. <<>> \in Stated
    BY DEF Stated
  <2> QED
    BY <1>6, <1>7, <1>8, <2>1 DEF ReadPending
<1>10. PendingLines(x) = <<Line("fail", t), Line("fail_readd", OrNone(x.readd))>>
  BY <1>1, <1>3 DEF PendingLines
<1>11. x \in LoosePending
  BY <1>1, <1>2, CellIs, SpokenIs DEF RawPending, LoosePending
<1>12. ASSUME x \in SoundPending
       PROVE  t \in Row /\ [PendingTaken(x) EXCEPT !.readd = <<>>] = [x EXCEPT !.readd = <<>>]
  <2>1. d \in Cell /\ x = [kind |-> a, cls |-> b, name |-> c, reason |-> d, readd |-> s]
    BY <1>1, <1>12 DEF SoundPending, RawPending
  <2>2. [x EXCEPT !.readd = <<>>] = [kind |-> a, cls |-> b, name |-> c, reason |-> d, readd |-> <<>>]
    BY <2>1
  <2>3. t \in Row
    BY <1>3, <2>1, CellIs
  <2> QED
    BY <1>5, <1>8, <2>1, <2>2, <2>3
<1>13. ASSUME x \in ReadPending
       PROVE  x \in SoundPending /\ PendingTaken(x) = [x EXCEPT !.readd = OrNone(@)]
  <2>1. d \in Cell /\ s \in Stated /\ x = [kind |-> a, cls |-> b, name |-> c, reason |-> d, readd |-> s]
    BY <1>1, <1>13 DEF ReadPending
  <2>2. PICK z : z = OrNone(s)
    OBVIOUS
  <2>3. [x EXCEPT !.readd = z] = [kind |-> a, cls |-> b, name |-> c, reason |-> d, readd |-> z]
    BY <2>1
  <2>4. [x EXCEPT !.readd = OrNone(@)] = [x EXCEPT !.readd = z]
    BY <1>1, <2>2
  <2>5. Harmless(s)
    BY <2>1, StatedIs
  <2> QED
    BY <1>1, <1>5, <1>6, <1>8, <2>1, <2>2, <2>3, <2>4, <2>5 DEF SoundPending
<1> QED
  BY <1>1, <1>3, <1>4, <1>5, <1>7, <1>9, <1>10, <1>11, <1>12, <1>13

LEMMA PendingTake ==
  ASSUME NEW m, IsSum(m), NEW k, NEW y, k.pending = y, NEW val, NEW f, f = SplitRecord(val), IsConstraint(f), NEW c,
         [kind |-> f[1], cls |-> f[2], name |-> f[3], reason |-> Field(f, 4), readd |-> <<>>] = c
  PROVE  ReadEntry(Put(m, "rebuild", k), Header("rebuild"), "fail", val)
           = Put(m, "rebuild", Put(k, "pending", Add(y, c)))
<1>1. PICK n : n = Put(m, "rebuild", k)
  OBVIOUS
<1>2. n.rebuild = k /\ \A z : Put(n, "rebuild", z) = Put(m, "rebuild", z)
  BY <1>1, RebuildDispatch
<1>3. ReadEntry(n, Header("rebuild"), "fail", val) = ReadRebuild(n, "fail", val)
  BY <1>1, RebuildDispatch
<1>4. ReadRebuild(n, "fail", val) = [n EXCEPT !.rebuild.pending = Append(@, c)]
  BY DEF ReadRebuild
<1>5. [n EXCEPT !.rebuild.pending = Append(@, c)] = Put(n, "rebuild", [k EXCEPT !.pending = Append(@, c)])
  BY <1>2 DEF Put
<1>6. [k EXCEPT !.pending = Append(@, c)] = Put(k, "pending", Add(y, c))
  BY DEF Put, Add
<1> QED
  BY <1>1, <1>2, <1>3, <1>4, <1>5, <1>6, SMTT(20), ZenonT(30)

LEMMA FailReaddTake ==
  ASSUME NEW m, IsSum(m), NEW k, NEW y, k.pending = y, NEW val
  PROVE  ReadEntry(Put(m, "rebuild", k), Header("rebuild"), "fail_readd", val)
           = Put(m, "rebuild", Put(k, "pending", LastReadd(y, val)))
<1>1. PICK n, z : n = Put(m, "rebuild", k) /\ z = LastReadd(y, val)
  OBVIOUS
<1>2. n.rebuild = k /\ \A w : Put(n, "rebuild", w) = Put(m, "rebuild", w)
  BY <1>1, RebuildDispatch
<1>3. ReadEntry(n, Header("rebuild"), "fail_readd", val) = ReadRebuild(n, "fail_readd", val)
  BY <1>1, RebuildDispatch
<1>4. ReadRebuild(n, "fail_readd", val) = [n EXCEPT !.rebuild.pending = LastReadd(@, val)]
  BY DEF ReadRebuild
<1>5. [n EXCEPT !.rebuild.pending = LastReadd(@, val)] = Put(n, "rebuild", [k EXCEPT !.pending = z])
  BY <1>1, <1>2 DEF Put
<1>6. [k EXCEPT !.pending = z] = Put(k, "pending", z)
  BY DEF Put
<1> QED
  BY <1>1, <1>2, <1>3, <1>4, <1>5, <1>6

Respells(f, R) == \A x \in R : f[x] = [x EXCEPT !.readd = OrNone(@)]

LEMMA SpelledImage ==
  ASSUME NEW R, NEW f, Respells(f, R), NEW p \in Seq(R)
  PROVE  Image(p, f) = Spelled(p)
<1>1. \A i \in DOMAIN p : p[i] \in R
  BY ElementOfSeq, LenProperties
<1>2. \A i \in DOMAIN p : f[p[i]] = [p[i] EXCEPT !.readd = OrNone(@)]
  BY <1>1 DEF Respells
<1> QED
  BY <1>2 DEF Image, Spelled

PendingTook == [x \in RawPending |-> PendingTaken(x)]

LEMMA PendingsCome ==
  ASSUME NEW m, IsSum(m), NEW u, Fresh(u, "pending"), NEW R, R = RawPending, NEW E, E = SoundPending,
         NEW Q, Q = ReadPending, NEW p \in Seq(R)
  PROVE  /\ FlattenSeq(LinesOf(p, PendingLines)) \in Seq(Entry)
         /\ Comes(m, u, "pending", E, Q, PendingTook, p, FlattenSeq(LinesOf(p, PendingLines)))
         /\ p \in Seq(E) => Unstated(Image(p, PendingTook)) = Unstated(p)
         /\ p \in Seq(Q) => p \in Seq(E) /\ Image(p, PendingTook) = Spelled(p)
<1>1. "rebuild" \in Field9 /\ "fail" \in Keys /\ "fail_readd" \in Keys
  BY DEF Field9, Keys, Key
<1>2. PICK S, F, f, g, V1, V2, W :
        /\ S = LoosePending /\ F = PendingF /\ f = PendingTook /\ g = [x \in R |-> PendingFirst(x)]
        /\ V1 = [x \in R |-> Fields(<<x.kind, x.cls, x.name, x.reason>>)] /\ V2 = [x \in R |-> OrNone(x.readd)]
        /\ W = [y \in Seq(Q) |-> Put(u, "pending", y)]
  OBVIOUS
<1>3. R \in SUBSET S /\ F \in [S -> Seq(Entry)] /\ E \in SUBSET R /\ Q \in SUBSET E /\ Q \in SUBSET R
  <2>1. Q \in SUBSET R
    BY InkSpoken, StatedIs DEF ReadPending, RawPending
  <2>2. Q \in SUBSET E
    BY <2>1, PendingIs
  <2>3. E \in SUBSET R
    BY DEF SoundPending
  <2> QED
    BY <1>2, <2>1, <2>2, <2>3, PendingIs, LineTypes
<1>4. /\ f \in [R -> Q] /\ g \in [R -> Q]
      /\ \A x \in R : f[x] = PendingTaken(x) /\ g[x] = PendingFirst(x)
  <2>1. \A x \in R : PendingTaken(x) \in Q /\ PendingFirst(x) \in Q
    BY PendingIs
  <2> QED
    BY <1>2, <2>1 DEF PendingTook
<1>5. /\ V1 \in [R -> Prose] /\ V2 \in [R -> Prose]
      /\ \A x \in R : /\ V1[x] = Fields(<<x.kind, x.cls, x.name, x.reason>>) /\ V2[x] = OrNone(x.readd)
                      /\ x \in E => V1[x] \in Row /\ Harmless(V2[x])
  <2>1. \A x \in R : /\ Fields(<<x.kind, x.cls, x.name, x.reason>>) \in Prose
                     /\ x \in E => Fields(<<x.kind, x.cls, x.name, x.reason>>) \in Row
    BY PendingIs
  <2>2. \A x \in R : OrNone(x.readd) \in Prose /\ (x \in E => Harmless(OrNone(x.readd)))
    BY OrNoneIs DEF RawPending, SoundPending
  <2> QED
    BY <1>2, <2>1, <2>2
<1>6. Lines2("fail", "fail_readd", R, V1, V2, F)
  <2>1. \A x \in R : F[x] = PendingLines(x)
    BY <1>2, <1>3 DEF PendingF
  <2> QED
    BY <1>5, <2>1 DEF Lines2, PendingLines
<1>7. Quiet(E, V1) /\ Quiet(E, V2)
  <2>1. Quiet(E, V1)
    BY <1>3, <1>5, RowHarmless DEF Quiet
  <2>2. Quiet(E, V2)
    BY <1>3, <1>5 DEF Quiet
  <2> QED
    BY <2>1, <2>2
<1>8. \A y \in Seq(Q) : W[y] = Put(u, "pending", y)
  BY <1>2
<1>9. Then2(m, "rebuild", Q, W, "fail", "fail_readd", R, V1, V2, g, f)
  <2> SUFFICES ASSUME NEW x \in R, NEW y \in Seq(Q)
      PROVE  /\ ReadEntry(Put(m, "rebuild", W[y]), Header("rebuild"), "fail", Trim(First(V1[x])))
                  = Put(m, "rebuild", W[Add(y, g[x])])
             /\ ReadEntry(Put(m, "rebuild", W[Add(y, g[x])]), Header("rebuild"), "fail_readd", Trim(First(V2[x])))
                  = Put(m, "rebuild", W[Add(y, f[x])])
    BY DEF Then2
  <2>0. PICK r0 \in Q, r \in Q : r0 = g[x] /\ r = f[x] /\ r0 = PendingFirst(x) /\ r = PendingTaken(x)
    BY <1>4
  <2>11. PICK d : d = Trim(First(V2[x])) /\ d = Trim(First(OrNone(x.readd)))
    BY <1>5
  <2>1. r0 = g[x] /\ r = f[x] /\ d = Trim(First(V2[x])) /\ r = [r0 EXCEPT !.readd = d]
    BY <2>0, <2>11 DEF PendingTaken
  <2>12. PICK v, e : /\ v = Fields(<<x.kind, x.cls, x.name, x.reason>>) /\ e = SplitRecord(Trim(First(v)))
                     /\ IsConstraint(e)
                     /\ [kind |-> e[1], cls |-> e[2], name |-> e[3], reason |-> Field(e, 4), readd |-> <<>>]
                          = PendingFirst(x)
    BY PendingIs
  <2>13. V1[x] = v
    BY <1>5, <2>12
  <2>2. PICK t : /\ t = Trim(First(V1[x])) /\ e = SplitRecord(t) /\ IsConstraint(e)
                 /\ [kind |-> e[1], cls |-> e[2], name |-> e[3], reason |-> Field(e, 4), readd |-> <<>>] = r0
    BY <2>0, <2>12, <2>13
  <2>3. Add(y, r0) \in Seq(Q) /\ Add(y, r) \in Seq(Q)
    BY AddType
  <2>4. PICK k : k = Put(u, "pending", y) /\ k.pending = y /\ \A z : Put(k, "pending", z) = Put(u, "pending", z)
    BY PutPut DEF Fresh
  <2>5. PICK y0, k0 : /\ y0 = Add(y, r0) /\ k0 = Put(u, "pending", y0) /\ k0.pending = y0
                      /\ \A z : Put(k0, "pending", z) = Put(u, "pending", z)
    BY PutPut DEF Fresh
  <2>6. ReadEntry(Put(m, "rebuild", k), Header("rebuild"), "fail", t)
          = Put(m, "rebuild", Put(k, "pending", Add(y, r0)))
    BY <2>2, <2>4, PendingTake
  <2>7. ReadEntry(Put(m, "rebuild", k0), Header("rebuild"), "fail_readd", d)
          = Put(m, "rebuild", Put(k0, "pending", LastReadd(y0, d)))
    BY <2>5, FailReaddTake
  <2>8. LastReadd(Add(y, r0), d) = Add(y, r)
    BY <2>1, LastReaddIs
  <2>9. ReadEntry(Put(m, "rebuild", W[y]), Header("rebuild"), "fail", t) = Put(m, "rebuild", W[Add(y, r0)])
    BY <1>8, <2>3, <2>4, <2>6
  <2>10. ReadEntry(Put(m, "rebuild", W[Add(y, r0)]), Header("rebuild"), "fail_readd", d) = Put(m, "rebuild", W[Add(y, r)])
    BY <1>8, <2>3, <2>5, <2>7, <2>8
  <2> QED
    BY <2>1, <2>2, <2>9, <2>10
<1>10. p \in Seq(S)
  BY <1>3, SeqMonotonic
<1>11. PICK b \in Seq(Entry) : b = FlattenSeq(Image(p, F)) /\ b = FlattenSeq(LinesOf(p, PendingLines))
  <2>1. FlattenSeq(Image(p, F)) \in Seq(Entry)
    BY <1>3, <1>10, BlockEntries
  <2>2. LinesOf(p, PendingLines) = Image(p, F)
    BY <1>2, <1>10, LinesAre
  <2> QED
    BY <2>1, <2>2
<1>12. Ran(m, "rebuild", E, Q, W, f, p, ReadLines(Then("rebuild", m, W[<<>>]), Printed(b)))
  <2>1. Ran(m, "rebuild", E, Q, W, f, p, ReadLines(Then("rebuild", m, W[<<>>]), Printed(FlattenSeq(Image(p, F)))))
    BY <1>1, <1>3, <1>4, <1>5, <1>6, <1>7, <1>9, PairsRead
  <2> QED
    BY <1>11, <2>1
<1>13. \A st \in Far(m, "rebuild", Q, W) : ReadLines(st, Printed(b)) \in Far(m, "rebuild", Q, W)
  <2>1. \A st \in Far(m, "rebuild", Q, W) : ReadLines(st, Printed(FlattenSeq(Image(p, F)))) \in Far(m, "rebuild", Q, W)
    BY <1>1, <1>3, <1>4, <1>5, <1>6, <1>7, <1>9, PairsRead
  <2> QED
    BY <1>11, <2>1
<1>14. Comes(m, u, "pending", E, Q, f, p, b)
  BY <1>8, <1>12, <1>13, ComesFrom
<1>15. ASSUME p \in Seq(E) PROVE Unstated(Image(p, f)) = Unstated(p)
  <2>1. Restates(f, E)
    BY <1>3, <1>4, PendingIs DEF Restates
  <2> QED
    BY <1>15, <2>1, UnstatedImage
<1>16. ASSUME p \in Seq(Q) PROVE p \in Seq(E) /\ Image(p, f) = Spelled(p)
  <2>1. Respells(f, Q)
    BY <1>3, <1>4, PendingIs DEF Respells
  <2>2. Image(p, f) = Spelled(p)
    BY <1>16, <2>1, SpelledImage
  <2> QED
    BY <1>3, <1>16, <2>2, SeqMonotonic
<1> QED
  BY <1>2, <1>11, <1>14, <1>15, <1>16

LEMMA IdImage ==
  ASSUME NEW R, NEW p \in Seq(R)
  PROVE  Image(p, Id(R)) = p
<1>1. PICK f : f = Id(R)
  OBVIOUS
<1>2. f \in [R -> R] /\ R \in SUBSET R /\ Fixes(f, R)
  BY <1>1 DEF Id, Fixes
<1> QED
  BY <1>1, <1>2, ImageSame

(* What comes of a list.                                                   *)
LEMMA ComesIs ==
  ASSUME NEW m, NEW u, NEW fld, NEW E, NEW Q, NEW f, NEW p, NEW lines, Comes(m, u, fld, E, Q, f, p, lines),
         NEW st \in Near("rebuild", Put(m, "rebuild", u))
  PROVE  \E y \in Seq(Q) : \E t :
           /\ t = ReadLines(st, Printed(lines))
           /\ t \in Near("rebuild", Put(m, "rebuild", Put(u, fld, y)))
           /\ st = Then("rebuild", m, u) => Alike(p, y)
           /\ st = Then("rebuild", m, u) /\ p \in Seq(E) => y = Image(p, f) /\ t = Then("rebuild", m, Put(u, fld, y))
BY DEF Comes

(* A list that comes back as it was.                                       *)
LEMMA ComesAll ==
  ASSUME NEW m, NEW u, NEW fld, NEW R, NEW p \in Seq(R), NEW lines, Comes(m, u, fld, R, R, Id(R), p, lines),
         NEW st \in Near("rebuild", Put(m, "rebuild", u))
  PROVE  \E y \in Seq(R) : \E t :
           /\ t = ReadLines(st, Printed(lines))
           /\ t \in Near("rebuild", Put(m, "rebuild", Put(u, fld, y)))
           /\ st = Then("rebuild", m, u) => y = p /\ t = Then("rebuild", m, Put(u, fld, y))
BY ComesIs, IdImage

Bundle(a, b, c, d, e) == [rebuilt |-> a, pending |-> b, indexes |-> c, failed |-> d, withheld |-> e]

LEMMA BundlePut ==
  ASSUME NEW a, NEW b, NEW c, NEW d, NEW e, NEW y, NEW u, u = Bundle(a, b, c, d, e)
  PROVE  /\ Put(u, "rebuilt", y) = Bundle(y, b, c, d, e) /\ Put(u, "pending", y) = Bundle(a, y, c, d, e)
         /\ Put(u, "indexes", y) = Bundle(a, b, y, d, e) /\ Put(u, "failed", y) = Bundle(a, b, c, y, e)
         /\ Put(u, "withheld", y) = Bundle(a, b, c, d, y)
<1>1. Put(u, "rebuilt", y) = Bundle(y, b, c, d, e)
  BY DEF Put, Bundle
<1>2. Put(u, "pending", y) = Bundle(a, y, c, d, e)
  BY DEF Put, Bundle
<1>3. Put(u, "indexes", y) = Bundle(a, b, y, d, e)
  BY DEF Put, Bundle
<1>4. Put(u, "failed", y) = Bundle(a, b, c, y, e)
  BY DEF Put, Bundle
<1>5. Put(u, "withheld", y) = Bundle(a, b, c, d, y)
  BY DEF Put, Bundle
<1> QED
  BY <1>1, <1>2, <1>3, <1>4, <1>5

LEMMA BundleAt ==
  ASSUME NEW a, NEW b, NEW c, NEW d, NEW e, NEW u, u = Bundle(a, b, c, d, e)
  PROVE  u["rebuilt"] = a /\ u["pending"] = b /\ u["indexes"] = c /\ u["failed"] = d /\ u["withheld"] = e
BY DEF Bundle

LEMMA BundleFresh ==
  ASSUME NEW n, n = <<>>, NEW a, NEW b, NEW c, NEW d, NEW e
  PROVE  /\ Fresh(Bundle(n, b, c, d, e), "rebuilt") /\ Fresh(Bundle(a, n, c, d, e), "pending")
         /\ Fresh(Bundle(a, b, n, d, e), "indexes") /\ Fresh(Bundle(a, b, c, n, e), "failed")
         /\ Fresh(Bundle(a, b, c, d, n), "withheld")
<1>1. Fresh(Bundle(n, b, c, d, e), "rebuilt")
  <2>1. PICK u : u = Bundle(n, b, c, d, e)
    OBVIOUS
  <2>2. ASSUME NEW y PROVE Put(u, "rebuilt", y)["rebuilt"] = y
    <3>1. PICK k : k = Bundle(y, b, c, d, e)
      OBVIOUS
    <3>2. k["rebuilt"] = y
      BY <3>1, BundleAt
    <3>3. Put(u, "rebuilt", y) = k
      BY <2>1, <3>1, BundlePut
    <3> QED
      BY <3>2, <3>3
  <2> QED
    BY <2>1, <2>2, BundlePut DEF Fresh
<1>2. Fresh(Bundle(a, n, c, d, e), "pending")
  <2>1. PICK u : u = Bundle(a, n, c, d, e)
    OBVIOUS
  <2>2. ASSUME NEW y PROVE Put(u, "pending", y)["pending"] = y
    <3>1. PICK k : k = Bundle(a, y, c, d, e)
      OBVIOUS
    <3>2. k["pending"] = y
      BY <3>1, BundleAt
    <3>3. Put(u, "pending", y) = k
      BY <2>1, <3>1, BundlePut
    <3> QED
      BY <3>2, <3>3
  <2> QED
    BY <2>1, <2>2, BundlePut DEF Fresh
<1>3. Fresh(Bundle(a, b, n, d, e), "indexes")
  <2>1. PICK u : u = Bundle(a, b, n, d, e)
    OBVIOUS
  <2>2. ASSUME NEW y PROVE Put(u, "indexes", y)["indexes"] = y
    <3>1. PICK k : k = Bundle(a, b, y, d, e)
      OBVIOUS
    <3>2. k["indexes"] = y
      BY <3>1, BundleAt
    <3>3. Put(u, "indexes", y) = k
      BY <2>1, <3>1, BundlePut
    <3> QED
      BY <3>2, <3>3
  <2> QED
    BY <2>1, <2>2, BundlePut DEF Fresh
<1>4. Fresh(Bundle(a, b, c, n, e), "failed")
  <2>1. PICK u : u = Bundle(a, b, c, n, e)
    OBVIOUS
  <2>2. ASSUME NEW y PROVE Put(u, "failed", y)["failed"] = y
    <3>1. PICK k : k = Bundle(a, b, c, y, e)
      OBVIOUS
    <3>2. k["failed"] = y
      BY <3>1, BundleAt
    <3>3. Put(u, "failed", y) = k
      BY <2>1, <3>1, BundlePut
    <3> QED
      BY <3>2, <3>3
  <2> QED
    BY <2>1, <2>2, BundlePut DEF Fresh
<1>5. Fresh(Bundle(a, b, c, d, n), "withheld")
  <2>1. PICK u : u = Bundle(a, b, c, d, n)
    OBVIOUS
  <2>2. ASSUME NEW y PROVE Put(u, "withheld", y)["withheld"] = y
    <3>1. PICK k : k = Bundle(a, b, c, d, y)
      OBVIOUS
    <3>2. k["withheld"] = y
      BY <3>1, BundleAt
    <3>3. Put(u, "withheld", y) = k
      BY <2>1, <3>1, BundlePut
    <3> QED
      BY <3>2, <3>3
  <2> QED
    BY <2>1, <2>2, BundlePut DEF Fresh
<1> QED
  BY <1>1, <1>2, <1>3, <1>4, <1>5

RawRebuild ==
  [rebuilt : Seq(CleanConstraint), pending : Seq(RawPending), indexes : Seq(Cell), failed : Seq(RawFailed),
   withheld : Seq(CleanCascade)]

TakenRebuild ==
  [rebuilt : Seq(CleanConstraint), pending : Seq(ReadPending), indexes : Seq(Cell), failed : Seq(ReadFailed),
   withheld : Seq(CleanCascade)]

Sure(v) == v.pending \in Seq(SoundPending) /\ v.failed \in Seq(ReadFailed)

RebuildOut(v) ==
  {w \in TakenRebuild :
     /\ Alike(v.pending, w.pending)
     /\ v.pending = <<>> => Alike(v.failed, w.failed)
     /\ Sure(v) => [w EXCEPT !.pending = Unstated(@)] = [v EXCEPT !.pending = Unstated(@)]
     /\ v \in TakenRebuild => w = [v EXCEPT !.pending = Spelled(@)]}

LEMMA RebuildRead ==
  ASSUME NEW m, IsSum(m), m.rebuild = Nothing.rebuild, NEW v \in RawRebuild
  PROVE  \E w \in RebuildOut(v) :
           ReadLines(At(Header("rebuild"), m), Printed(RebuildLines(v))) \in Near("rebuild", Put(m, "rebuild", w))
<1>0. PICK rs \in Seq(CleanConstraint), ps \in Seq(RawPending), ns \in Seq(Cell), fs \in Seq(RawFailed),
           ws \in Seq(CleanCascade) :
        v = Bundle(rs, ps, ns, fs, ws)
  BY DEF RawRebuild, Bundle
<1>1. PICK z, u0 : z = <<>> /\ u0 = Bundle(z, z, z, z, z) /\ m.rebuild = u0
  BY DEF Nothing, Bundle
<1>2. Then("rebuild", m, u0) = At(Header("rebuild"), m)
  <2>1. Put(m, "rebuild", m.rebuild) = m
    BY PutIs DEF Field9
  <2> QED
    BY <1>1, <2>1 DEF Then
(* The five lists.                                                         *)
<1>3. PICK l1 \in Seq(Entry) : l1 = LinesOf(rs, OkLine) /\ Comes(m, u0, "rebuilt", CleanConstraint, CleanConstraint, Id(CleanConstraint), rs, l1)
  BY <1>1, BundleFresh, OksCome
<1>4. PICK u1, t1 : /\ u1 = Bundle(rs, z, z, z, z) /\ t1 = ReadLines(At(Header("rebuild"), m), Printed(l1))
                    /\ t1 = Then("rebuild", m, u1)
  <2>1. Then("rebuild", m, u0) \in Near("rebuild", Put(m, "rebuild", u0))
    BY ThenNear
  <2>2. Put(u0, "rebuilt", rs) = Bundle(rs, z, z, z, z)
    BY <1>1, BundlePut
  <2>3. ReadLines(Then("rebuild", m, u0), Printed(l1)) = Then("rebuild", m, Put(u0, "rebuilt", rs))
    BY <1>3, <2>1, ComesAll
  <2> QED
    BY <1>2, <2>2, <2>3
<1>5. PICK l2 \in Seq(Entry) : /\ l2 = FlattenSeq(LinesOf(ps, PendingLines))
                               /\ Comes(m, u1, "pending", SoundPending, ReadPending, PendingTook, ps, l2)
  BY <1>1, <1>4, BundleFresh, PendingsCome
<1>6. PICK y2, u2, t2 :
        /\ y2 \in Seq(ReadPending)
        /\ u2 = Bundle(rs, y2, z, z, z) /\ t2 = ReadLines(t1, Printed(l2))
        /\ t2 \in Near("rebuild", Put(m, "rebuild", u2))
        /\ Alike(ps, y2)
        /\ ps \in Seq(SoundPending) => y2 = Image(ps, PendingTook) /\ t2 = Then("rebuild", m, u2)
  <2>1. t1 \in Near("rebuild", Put(m, "rebuild", u1))
    BY <1>4, ThenNear
  <2>2. PICK y, t :
          /\ y \in Seq(ReadPending)
          /\ t = ReadLines(t1, Printed(l2)) /\ t \in Near("rebuild", Put(m, "rebuild", Put(u1, "pending", y)))
          /\ Alike(ps, y)
          /\ ps \in Seq(SoundPending) => y = Image(ps, PendingTook) /\ t = Then("rebuild", m, Put(u1, "pending", y))
    BY <1>4, <1>5, <2>1, ComesIs
  <2>3. Put(u1, "pending", y) = Bundle(rs, y, z, z, z)
    BY <1>4, BundlePut
  <2> QED
    BY <2>2, <2>3
<1>7. PICK l3 \in Seq(Entry) : l3 = LinesOf(ns, IndexLine) /\ Comes(m, u2, "indexes", Cell, Cell, Id(Cell), ns, l3)
  BY <1>1, <1>6, BundleFresh, IndexesCome
<1>8. PICK y3, u3, t3 :
        /\ y3 \in Seq(Cell)
        /\ u3 = Bundle(rs, y2, y3, z, z) /\ t3 = ReadLines(t2, Printed(l3))
        /\ t3 \in Near("rebuild", Put(m, "rebuild", u3))
        /\ t2 = Then("rebuild", m, u2) => y3 = ns /\ t3 = Then("rebuild", m, u3)
  <2>1. PICK y, t :
          /\ y \in Seq(Cell)
          /\ t = ReadLines(t2, Printed(l3)) /\ t \in Near("rebuild", Put(m, "rebuild", Put(u2, "indexes", y)))
          /\ t2 = Then("rebuild", m, u2) => y = ns /\ t = Then("rebuild", m, Put(u2, "indexes", y))
    BY <1>6, <1>7, ComesAll
  <2>2. Put(u2, "indexes", y) = Bundle(rs, y2, y, z, z)
    BY <1>6, BundlePut
  <2> QED
    BY <2>1, <2>2
<1>9. PICK l4 \in Seq(Entry) : /\ l4 = LinesOf(fs, FailedLine)
                               /\ Comes(m, u3, "failed", ReadFailed, ReadFailed, FailedTaken, fs, l4)
                               /\ fs \in Seq(ReadFailed) => Image(fs, FailedTaken) = fs
  BY <1>1, <1>8, BundleFresh, FailedsCome
<1>10. PICK y4, u4, t4 :
         /\ y4 \in Seq(ReadFailed)
         /\ u4 = Bundle(rs, y2, y3, y4, z) /\ t4 = ReadLines(t3, Printed(l4))
         /\ t4 \in Near("rebuild", Put(m, "rebuild", u4))
         /\ t3 = Then("rebuild", m, u3) => Alike(fs, y4)
         /\ t3 = Then("rebuild", m, u3) /\ fs \in Seq(ReadFailed) => y4 = fs /\ t4 = Then("rebuild", m, u4)
  <2>1. PICK y, t :
          /\ y \in Seq(ReadFailed)
          /\ t = ReadLines(t3, Printed(l4)) /\ t \in Near("rebuild", Put(m, "rebuild", Put(u3, "failed", y)))
          /\ t3 = Then("rebuild", m, u3) => Alike(fs, y)
          /\ t3 = Then("rebuild", m, u3) /\ fs \in Seq(ReadFailed) =>
               y = Image(fs, FailedTaken) /\ t = Then("rebuild", m, Put(u3, "failed", y))
    BY <1>8, <1>9, ComesIs
  <2>2. Put(u3, "failed", y) = Bundle(rs, y2, y3, y, z)
    BY <1>8, BundlePut
  <2> QED
    BY <1>9, <2>1, <2>2
<1>11. PICK l5 \in Seq(Entry) : /\ l5 = LinesOf(ws, CascadeLine)
                                /\ Comes(m, u4, "withheld", CleanCascade, CleanCascade, Id(CleanCascade), ws, l5)
  BY <1>1, <1>10, BundleFresh, CascadesCome
<1>12. PICK y5, w, t5 :
         /\ y5 \in Seq(CleanCascade)
         /\ w = Bundle(rs, y2, y3, y4, y5) /\ t5 = ReadLines(t4, Printed(l5))
         /\ t5 \in Near("rebuild", Put(m, "rebuild", w))
         /\ t4 = Then("rebuild", m, u4) => y5 = ws
  <2>1. PICK y, t :
          /\ y \in Seq(CleanCascade)
          /\ t = ReadLines(t4, Printed(l5)) /\ t \in Near("rebuild", Put(m, "rebuild", Put(u4, "withheld", y)))
          /\ t4 = Then("rebuild", m, u4) => y = ws /\ t = Then("rebuild", m, Put(u4, "withheld", y))
    BY <1>10, <1>11, ComesAll
  <2>2. Put(u4, "withheld", y) = Bundle(rs, y2, y3, y4, y)
    BY <1>10, BundlePut
  <2> QED
    BY <2>1, <2>2
<1>13. ReadLines(At(Header("rebuild"), m), Printed(RebuildLines(v))) = t5
  <2>1. RebuildLines(v) = Cat(Cat(Cat(Cat(l1, l2), l3), l4), l5)
    BY <1>0, <1>3, <1>5, <1>7, <1>9, <1>11 DEF RebuildLines, Bundle, Cat
  <2>2. PICK a \in Seq(Entry), b \in Seq(Entry), c \in Seq(Entry) : a = Cat(l1, l2) /\ b = Cat(a, l3) /\ c = Cat(b, l4)
    BY CatType
  <2>3. RebuildLines(v) = Cat(c, l5)
    BY <2>1, <2>2
  <2> QED
    BY <1>4, <1>6, <1>8, <1>10, <1>12, <2>2, <2>3, ChainRead
<1>14. w \in TakenRebuild /\ w.pending = y2 /\ w.failed = y4
  <2>1. /\ y2 \in Seq(ReadPending) /\ y3 \in Seq(Cell) /\ y4 \in Seq(ReadFailed) /\ y5 \in Seq(CleanCascade)
        /\ w = Bundle(rs, y2, y3, y4, y5)
    BY <1>6, <1>8, <1>10, <1>12
  <2> QED
    BY <2>1 DEF TakenRebuild, Bundle
<1>15. v.pending = ps /\ v.failed = fs
  BY <1>0 DEF Bundle
<1>16. ASSUME ps = <<>> PROVE Alike(fs, y4)
  <2>1. ps \in Seq(SoundPending)
    BY <1>16, EmptySeq
  <2> QED
    BY <1>6, <1>8, <1>10, <2>1
<1>17. ASSUME ps \in Seq(SoundPending), fs \in Seq(ReadFailed)
       PROVE  y2 = Image(ps, PendingTook) /\ w = Bundle(rs, y2, ns, fs, ws)
  BY <1>6, <1>8, <1>10, <1>12, <1>17
<1>18. ASSUME NEW y PROVE [Bundle(rs, y, ns, fs, ws) EXCEPT !.pending = Unstated(@)] = Bundle(rs, Unstated(y), ns, fs, ws)
  <2>1. PICK x, u : x = Unstated(y) /\ u = Bundle(rs, y, ns, fs, ws)
    OBVIOUS
  <2>2. u.pending = y /\ Put(u, "pending", x) = Bundle(rs, x, ns, fs, ws)
    BY <2>1, BundlePut, BundleAt
  <2>3. [u EXCEPT !.pending = Unstated(@)] = Put(u, "pending", x)
    BY <2>1, <2>2 DEF Put
  <2> QED
    BY <2>1, <2>2, <2>3
<1>19. ASSUME Sure(v) PROVE [w EXCEPT !.pending = Unstated(@)] = [v EXCEPT !.pending = Unstated(@)]
  <2>1. ps \in Seq(SoundPending) /\ fs \in Seq(ReadFailed)
    BY <1>15, <1>19 DEF Sure
  <2>2. Unstated(Image(ps, PendingTook)) = Unstated(ps)
    BY <2>1, <1>1, <1>4, BundleFresh, PendingsCome
  <2>3. Unstated(y2) = Unstated(ps) /\ w = Bundle(rs, y2, ns, fs, ws)
    BY <1>17, <2>1, <2>2
  <2>4. [w EXCEPT !.pending = Unstated(@)] = Bundle(rs, Unstated(y2), ns, fs, ws)
    BY <1>18, <2>3
  <2>5. [v EXCEPT !.pending = Unstated(@)] = Bundle(rs, Unstated(ps), ns, fs, ws)
    BY <1>0, <1>18
  <2> QED
    BY <2>3, <2>4, <2>5
<1>20. ASSUME v \in TakenRebuild PROVE w = [v EXCEPT !.pending = Spelled(@)]
  <2>1. ps \in Seq(ReadPending) /\ fs \in Seq(ReadFailed)
    BY <1>15, <1>20 DEF TakenRebuild
  <2>2. ps \in Seq(SoundPending) /\ Image(ps, PendingTook) = Spelled(ps)
    BY <2>1, <1>1, <1>4, BundleFresh, PendingsCome
  <2>3. PICK x : x = Spelled(ps) /\ w = Bundle(rs, x, ns, fs, ws)
    BY <1>17, <2>1, <2>2
  <2>4. [v EXCEPT !.pending = Spelled(@)] = Put(v, "pending", x)
    BY <1>15, <2>3 DEF Put
  <2>5. Put(v, "pending", x) = Bundle(rs, x, ns, fs, ws)
    BY <1>0, BundlePut
  <2> QED
    BY <2>3, <2>4, <2>5
<1>21. w \in RebuildOut(v)
  BY <1>6, <1>14, <1>15, <1>16, <1>19, <1>20 DEF RebuildOut
<1> QED
  BY <1>12, <1>13, <1>21

-----------------------------------------------------------------------------
(* The sections together.                                                  *)

(* The sections but [graph]: what a phase may have put there, what the     *)
(* reader may have, their lines, and what may come of them.                *)
Sect == {"strip", "load", "rebuild", "validate", "fkdefine", "stats", "triggers"}

Raw ==
  [strip |-> Seq(CleanConstraint), load |-> CleanLoad, rebuild |-> RawRebuild, validate |-> Seq(RawEdge),
   fkdefine |-> RawFk, stats |-> RawStats, triggers |-> CleanTriggers]

Taken ==
  [strip |-> Seq(CleanConstraint), load |-> WordLoad, rebuild |-> TakenRebuild, validate |-> Seq(ReadEdges),
   fkdefine |-> TakenFk, stats |-> TakenStats, triggers |-> CleanTriggers]

Told7(s, v) ==
  CASE s = "strip" -> StripLines(v)
    [] s = "load" -> LoadLines(v)
    [] s = "rebuild" -> RebuildLines(v)
    [] s = "validate" -> ValidateLines(v)
    [] s = "fkdefine" -> FkdefineLines(v)
    [] s = "stats" -> StatsLines(v)
    [] s = "triggers" -> TriggersLines(v)

Outcome(s, v) ==
  CASE s = "strip" -> {v}
    [] s = "load" -> LoadOut(v)
    [] s = "rebuild" -> RebuildOut(v)
    [] s = "validate" -> ValidateOut(v)
    [] s = "fkdefine" -> FkOut(v)
    [] s = "stats" -> StatsOut(v)
    [] s = "triggers" -> {v}

Result(s, m, v) ==
  \E w \in Outcome(s, v) : ReadLines(At(Header(s), m), Printed(Told7(s, v))) \in Near(s, Put(m, s, w))

LEMMA SectionRead ==
  ASSUME NEW m, IsSum(m), NEW s \in Sect, m[s] = Nothing[s], NEW v \in Raw[s]
  PROVE  Result(s, m, v)
<1>1. CASE s = "strip"
  <2>1. v \in Seq(CleanConstraint) /\ m.strip = <<>>
    BY <1>1 DEF Raw, Nothing
  <2>2. ReadLines(At(Header("strip"), m), Printed(StripLines(v))) = Then("strip", m, v)
    BY <2>1, StripRead
  <2>3. ReadLines(At(Header("strip"), m), Printed(StripLines(v))) \in Near("strip", Put(m, "strip", v))
    BY <2>2, ThenNear
  <2> QED
    BY <1>1, <2>3 DEF Result, Outcome, Told7
<1>2. CASE s = "load"
  <2>1. v \in CleanLoad /\ m.load = Nothing.load
    BY <1>2 DEF Raw
  <2>2. \E w \in LoadOut(v) : ReadLines(At(Header("load"), m), Printed(LoadLines(v))) = Then("load", m, w)
    BY <2>1, LoadRead
  <2>3. \E w \in LoadOut(v) : ReadLines(At(Header("load"), m), Printed(LoadLines(v))) \in Near("load", Put(m, "load", w))
    BY <2>2, ThenNear
  <2> QED
    BY <1>2, <2>3 DEF Result, Outcome, Told7
<1>3. CASE s = "rebuild"
  <2>1. v \in RawRebuild /\ m.rebuild = Nothing.rebuild
    BY <1>3 DEF Raw
  <2>2. \E w \in RebuildOut(v) :
          ReadLines(At(Header("rebuild"), m), Printed(RebuildLines(v))) \in Near("rebuild", Put(m, "rebuild", w))
    BY <2>1, RebuildRead
  <2> QED
    BY <1>3, <2>2 DEF Result, Outcome, Told7
<1>4. CASE s = "validate"
  <2>1. v \in Seq(RawEdge) /\ m.validate = <<>>
    BY <1>4 DEF Raw, Nothing
  <2>2. \E w \in ValidateOut(v) : ReadLines(At(Header("validate"), m), Printed(ValidateLines(v))) = Then("validate", m, w)
    BY <2>1, ValidateRead
  <2>3. \E w \in ValidateOut(v) :
          ReadLines(At(Header("validate"), m), Printed(ValidateLines(v))) \in Near("validate", Put(m, "validate", w))
    BY <2>2, ThenNear
  <2> QED
    BY <1>4, <2>3 DEF Result, Outcome, Told7
<1>5. CASE s = "fkdefine"
  <2>1. v \in RawFk /\ m.fkdefine = Nothing.fkdefine
    BY <1>5 DEF Raw
  <2>2. \E w \in FkOut(v) :
          ReadLines(At(Header("fkdefine"), m), Printed(FkdefineLines(v))) \in Near("fkdefine", Put(m, "fkdefine", w))
    BY <2>1, FkRead
  <2> QED
    BY <1>5, <2>2 DEF Result, Outcome, Told7
<1>6. CASE s = "stats"
  <2>1. v \in RawStats /\ m.stats = Nothing.stats
    BY <1>6 DEF Raw
  <2>2. \E w \in StatsOut(v) :
          ReadLines(At(Header("stats"), m), Printed(StatsLines(v))) \in Near("stats", Put(m, "stats", w))
    BY <2>1, StatsRead
  <2> QED
    BY <1>6, <2>2 DEF Result, Outcome, Told7
<1>7. CASE s = "triggers"
  <2>1. v \in CleanTriggers /\ m.triggers = Nothing.triggers
    BY <1>7 DEF Raw
  <2>2. ReadLines(At(Header("triggers"), m), Printed(TriggersLines(v))) = Then("triggers", m, v)
    BY <2>1, TriggersRead
  <2>3. ReadLines(At(Header("triggers"), m), Printed(TriggersLines(v))) \in Near("triggers", Put(m, "triggers", v))
    BY <2>2, ThenNear
  <2> QED
    BY <1>7, <2>3 DEF Result, Outcome, Told7
<1> QED
  BY <1>1, <1>2, <1>3, <1>4, <1>5, <1>6, <1>7 DEF Sect

(* What has been read once is read again as it is, but for the statements  *)
(* that are lost.                                                          *)
Again(s, v, w) ==
  /\ s # "rebuild" => w = v
  /\ s = "rebuild" => w = [v EXCEPT !.pending = Spelled(@)]

LEMMA OutcomeTaken ==
  ASSUME NEW s \in Sect, NEW v \in Raw[s], NEW w \in Outcome(s, v)
  PROVE  w \in Taken[s] /\ (v \in Taken[s] => Again(s, v, w))
<1>1. CASE s = "strip"
  BY <1>1 DEF Raw, Taken, Outcome, Again
<1>2. CASE s = "load"
  <2>1. v \in CleanLoad /\ w \in LoadOut(v) /\ Taken[s] = WordLoad
    BY <1>2 DEF Raw, Outcome, Taken
  <2>2. w \in WordLoad
    BY <2>1 DEF LoadOut
  <2>3. ASSUME v \in WordLoad PROVE w = v
    BY <2>1, <2>2, <2>3 DEF LoadOut, Kin, WordLoad
  <2> QED
    BY <1>2, <2>1, <2>2, <2>3 DEF Again
<1>3. CASE s = "rebuild"
  BY <1>3 DEF Taken, Outcome, Again, RebuildOut
<1>4. CASE s = "validate"
  BY <1>4 DEF Taken, Outcome, Again, ValidateOut
<1>5. CASE s = "fkdefine"
  BY <1>5 DEF Taken, Outcome, Again, FkOut
<1>6. CASE s = "stats"
  BY <1>6 DEF Taken, Outcome, Again, StatsOut
<1>7. CASE s = "triggers"
  BY <1>7 DEF Raw, Taken, Outcome, Again
<1> QED
  BY <1>1, <1>2, <1>3, <1>4, <1>5, <1>6, <1>7 DEF Sect

LEMMA TakenRaw ==
  ASSUME NEW s \in Sect
  PROVE  Taken[s] \subseteq Raw[s]
<1>1. TakenRebuild \subseteq RawRebuild
  <2>1. ReadPending \in SUBSET RawPending
    BY InkSpoken, StatedIs DEF ReadPending, RawPending
  <2>2. ReadFailed \in SUBSET RawFailed
    BY InkSpoken DEF ReadFailed, RawFailed
  <2>3. Seq(ReadPending) \subseteq Seq(RawPending) /\ Seq(ReadFailed) \subseteq Seq(RawFailed)
    BY <2>1, <2>2, SeqMonotonic
  <2> QED
    BY <2>3 DEF TakenRebuild, RawRebuild
<1>2. TakenFk \subseteq RawFk
  <2>1. ReadHeld \in SUBSET RawHeld
    BY HeldRaw
  <2>2. Seq(ReadHeld) \subseteq Seq(RawHeld) /\ Seq(Refs(RowMark)) \subseteq Seq(RawTriple)
    BY <2>1, RefsRaw, SeqMonotonic
  <2> QED
    BY <2>2 DEF TakenFk, RawFk
<1>3. TakenStats \subseteq RawStats
  <2>1. ReadUnrefreshed \in SUBSET RawUnrefreshed
    BY Alphabets, SpokenIs DEF RawUnrefreshed, ReadUnrefreshed
  <2>2. Seq(ReadUnrefreshed) \subseteq Seq(RawUnrefreshed)
    BY <2>1, SeqMonotonic
  <2> QED
    BY <2>2 DEF TakenStats, RawStats
<1>4. Seq(ReadEdges) \subseteq Seq(RawEdge) /\ WordLoad \subseteq CleanLoad
  BY ReadEdgesRaw, WordLoads, SeqMonotonic
<1> QED
  BY <1>1, <1>2, <1>3, <1>4 DEF Sect, Raw, Taken

(* [plan] and [graph] leave the summaries of the other phases alone.       *)
Bare(m) == Loose(m) /\ \A s \in Sect : m[s] = Nothing[s]

Early == Within("plan") \cup Within("graph")

Idle(hs, ph, pl) ==
  {At(h, m) : h \in Early, m \in {n \in Sums(hs, ph, pl) : Bare(n)}}

LEMMA SectIs ==
  /\ Section = Sect \cup {"graph"} /\ "graph" \notin Sect /\ "has" \notin Sect /\ "phase" \notin Sect
  /\ "planned" \notin Sect /\ "plan" \notin Sect /\ "phases" \notin Sect
  /\ Sect \subseteq Field9 /\ Sect \subseteq Known
  /\ "graph" \in Field9 /\ "has" \in Field9 /\ "phase" \in Field9 /\ "planned" \in Field9
BY DEF Section, Sect, Field9, Known

LEMMA BarePut ==
  ASSUME NEW m, Bare(m), NEW f \in {"graph", "has"}, NEW v, f = "graph" => v \in LooseGraph
  PROVE  Bare(Put(m, f, v))
<1>1. Loose(m) /\ IsSum(m) /\ \A s \in Sect : m[s] = Nothing[s]
  BY DEF Bare, Loose
<1>2. \A s \in Sect : Put(m, f, v)[s] = m[s]
  BY <1>1, SectIs, PutIs
<1>3. CASE f = "graph"
  BY <1>1, <1>2, <1>3, Kindred, LoosePut DEF Bare
<1>4. CASE f = "has"
  BY <1>1, <1>2, <1>4, LooseOther DEF Bare
<1> QED
  BY <1>3, <1>4

LEMMA IdleEntry ==
  ASSUME NEW m, Bare(m), NEW h \in Early, NEW key, NEW val \in Row
  PROVE  \/ ReadEntry(m, h, key, val) = m
         \/ \E v \in LooseGraph : ReadEntry(m, h, key, val) = Put(m, "graph", v)
<1>1. Loose(m)
  BY DEF Bare
<1>2. CASE h = Header("plan")
  <2>1. ReadEntry(m, h, key, val) = ReadPlan(m, key, val)
    <3>1. ReadEntry(m, Header("plan"), key, val) = ReadPlan(m, key, val)
      BY Dispatch
    <3> QED
      BY <1>2, <3>1
  <2> QED
    BY <1>1, <2>1, ReadPlanType
<1>3. CASE h = Header("graph")
  <2>2. ReadEntry(m, h, key, val) = ReadGraph(m, key, val)
    <3>1. ReadEntry(m, Header("graph"), key, val) = ReadGraph(m, key, val)
      BY Dispatch
    <3> QED
      BY <1>3, <3>1
  <2> QED
    BY <1>1, <2>2, ReadGraphType
<1>4. CASE h \in Astray
  BY <1>4, AstrayKeeps
<1> QED
  BY <1>2, <1>3, <1>4 DEF Within, Early

LEMMA IdleStays ==
  ASSUME NEW hs, NEW ph, NEW pl, NEW st \in Idle(hs, ph, pl), NEW l \in Plain
  PROVE  ReadLine(st, l) \in Idle(hs, ph, pl)
<1>1. PICK h \in Early, m \in Sums(hs, ph, pl) : Bare(m) /\ st = At(h, m)
  BY DEF Idle
<1>2. IsSum(m) /\ l \in Row
  BY <1>1 DEF Bare, Loose, Plain
<1>3. \A g \in Early : At(g, m) \in Idle(hs, ph, pl)
  BY <1>1 DEF Idle
<1>4. CASE Bracketed(l)
  <2>1. PICK g \in Astray : ReadLine(At(h, m), l) = At(g, m)
    BY <1>2, <1>4, BracketRead
  <2> QED
    BY <1>1, <1>3, <2>1 DEF Within, Early
<1>5. CASE ~Bracketed(l)
  <2>1. PICK key, val : key = Left(l, ":")[1] /\ val = Right(l, ":") /\ val \in Row
    BY <1>2, RowLeft
  <2>2. PICK n : n = ReadEntry(m, h, key, val)
    OBVIOUS
  <2>3. ReadLine(At(h, m), l) = At(h, m) \/ ReadLine(At(h, m), l) = At(h, n)
    BY <1>2, <1>5, <2>1, <2>2, UnbracketedRead
  <2>4. n = m \/ \E v \in LooseGraph : n = Put(m, "graph", v)
    BY <1>1, <2>1, <2>2, IdleEntry
  <2>5. Bare(n)
    BY <1>1, <2>4, BarePut
  <2>6. n \in Sums(hs, ph, pl)
    <3>1. h # Header("phases")
      <4>1. Header("plan") # Header("phases") /\ Header("graph") # Header("phases")
        BY HeaderIs
      <4>2. h \in Astray => h # Header("phases")
        BY DEF Astray, Known
      <4> QED
        BY <4>1, <4>2 DEF Within, Early
    <3> QED
      BY <1>1, <2>1, <2>2, <3>1, ReadEntryType
  <2>7. At(h, n) \in Idle(hs, ph, pl)
    BY <2>5, <2>6 DEF Idle
  <2> QED
    BY <1>1, <1>3, <2>3, <2>7
<1> QED
  BY <1>4, <1>5

Opens(d, s) == s \in d.has \cup {"plan", "phases"}

LEMMA PartSkipped ==
  ASSUME NEW d, NEW s, ~Opens(d, s), NEW lines, NEW st
  PROVE  ReadLines(st, Part(d, s, lines)) = st
<1>1. Part(d, s, lines) = <<>>
  BY DEF Part, Opens
<1> QED
  BY <1>1, ReadNone

LEMMA PartOpened ==
  ASSUME NEW d, NEW s \in Known, Opens(d, s), NEW lines \in Seq(Entry), NEW h, NEW m
  PROVE  ReadLines(At(h, m), Part(d, s, lines))
           = ReadLines(At(Header(s), Put(m, "has", m.has \cup ({s} \cap Section))), Printed(lines))
<1>1. s \in d.has \cup {"plan", "phases"}
  BY DEF Opens
<1> QED
  BY <1>1, PartRead

LEMMA IdlePart ==
  ASSUME NEW d, NEW s \in Known, Header(s) \in Early, NEW lines \in Seq(Entry), NEW h, NEW m, Bare(m)
  PROVE  \E g, n : ReadLines(At(h, m), Part(d, s, lines)) = At(g, n) /\ Bare(n)
<1>1. CASE ~Opens(d, s)
  <2>1. ReadLines(At(h, m), Part(d, s, lines)) = At(h, m)
    BY <1>1, PartSkipped
  <2> QED
    BY <2>1
<1>2. CASE Opens(d, s)
  <2>1. PICK n : n = Put(m, "has", m.has \cup ({s} \cap Section))
    OBVIOUS
  <2>2. Bare(n)
    BY <2>1, BarePut
  <2>3. PICK hs, ph, pl : hs = n.has /\ ph = n.phase /\ pl = n.planned
    OBVIOUS
  <2>4. n \in Sums(hs, ph, pl)
    BY <2>2, <2>3, SumsIs DEF Bare
  <2>5. At(Header(s), n) \in Idle(hs, ph, pl)
    BY <2>2, <2>4 DEF Idle
  <2>6. Printed(lines) \in Seq(Plain)
    BY PrintedType
  <2>7. ReadLines(At(Header(s), n), Printed(lines)) \in Idle(hs, ph, pl)
    BY <2>5, <2>6, IdleStays, TakeStays
  <2>8. PICK g, k : ReadLines(At(Header(s), n), Printed(lines)) = At(g, k) /\ Bare(k)
    BY <2>7 DEF Idle
  <2>9. ReadLines(At(h, m), Part(d, s, lines)) = ReadLines(At(Header(s), n), Printed(lines))
    <3>1. ReadLines(At(h, m), Part(d, s, lines))
            = ReadLines(At(Header(s), Put(m, "has", m.has \cup ({s} \cap Section))), Printed(lines))
      BY <1>2, PartOpened
    <3> QED
      BY <2>1, <3>1
  <2> QED
    BY <2>8, <2>9
<1> QED
  BY <1>1, <1>2

(* The sections T have been read, and made of d what reading may make.     *)
Through(d, T, m) ==
  /\ IsSum(m)
  /\ \A s \in Sect : IF s \in T \cap d.has THEN m[s] \in Outcome(s, d[s]) ELSE m[s] = Nothing[s]

Tracks(d, T, st) == \E h, m : st = At(h, m) /\ Through(d, T, m)

LEMMA PartTracks ==
  ASSUME NEW d, NEW T, NEW s \in Sect \ T, s \in d.has => d[s] \in Raw[s], Told7(s, d[s]) \in Seq(Entry),
         NEW st, Tracks(d, T, st)
  PROVE  Tracks(d, T \cup {s}, ReadLines(st, Part(d, s, Told7(s, d[s]))))
<1>1. PICK h, m : st = At(h, m) /\ Through(d, T, m)
  BY DEF Tracks
<1>2. s \in Known /\ s \notin {"plan", "phases"} /\ s \in Section /\ s # "has" /\ s \in Field9
  BY SectIs
<1>6. Opens(d, s) <=> s \in d.has
  BY <1>2 DEF Opens
<1>3. PICK lines \in Seq(Entry) : lines = Told7(s, d[s])
  OBVIOUS
<1>4. CASE s \notin d.has
  <2>1. ReadLines(At(h, m), Part(d, s, lines)) = At(h, m)
    BY <1>6, <1>4, PartSkipped
  <2>2. Through(d, T \cup {s}, m)
    BY <1>1, <1>4 DEF Through
  <2> QED
    BY <1>1, <1>3, <2>1, <2>2 DEF Tracks
<1>5. CASE s \in d.has
  <2>1. PICK n : n = Put(m, "has", m.has \cup ({s} \cap Section))
    OBVIOUS
  <2>2. IsSum(m)
    BY <1>1 DEF Through
  <2>3. IsSum(n) /\ \A f \in Sect : n[f] = m[f]
    BY <2>1, <2>2, SectIs, PutIs
  <2>4. n[s] = Nothing[s]
    BY <1>1, <2>3 DEF Through
  <2>5. PICK w \in Outcome(s, d[s]) : ReadLines(At(Header(s), n), Printed(lines)) \in Near(s, Put(n, s, w))
    BY <1>3, <1>5, <2>3, <2>4, SectionRead DEF Result
  <2>6. PICK k : k = Put(n, s, w)
    OBVIOUS
  <2>7. \E g : ReadLines(At(Header(s), n), Printed(lines)) = At(g, k)
    BY <2>5, <2>6, NearIs
  <2>8. IsSum(k) /\ k[s] = w /\ \A f \in Sect : f # s => k[f] = m[f]
    BY <1>2, <2>3, <2>6, SectIs, PutIs
  <2>9. Through(d, T \cup {s}, k)
    BY <1>1, <1>5, <2>5, <2>8 DEF Through
  <2>10. ReadLines(At(h, m), Part(d, s, lines)) = ReadLines(At(Header(s), n), Printed(lines))
    BY <1>2, <1>6, <1>5, <2>1, PartOpened
  <2> QED
    BY <1>1, <1>3, <2>7, <2>9, <2>10 DEF Tracks
<1> QED
  BY <1>4, <1>5

(* The manifest of d is read into a summary that has of every phase what   *)
(* reading makes of it, and nothing of a phase that d does not have.       *)
LEMMA RecordRead ==
  ASSUME NEW d, Loose(d), d.phase \in PhaseName, \A s \in Sect : s \in d.has => d[s] \in Raw[s]
  PROVE  Through(d, Sect, Read(Render(d)))
<1>1. PICK s0, s1, s2, s3, s4, s5, s6, s7, s8, s9 :
         /\ s0 = At(<<>>, Nothing)
         /\ s1 = ReadLines(s0, Part(d, "plan", PlanLines(d)))
         /\ s2 = ReadLines(s1, Part(d, "graph", GraphLines(d.graph)))
         /\ s3 = ReadLines(s2, Part(d, "strip", StripLines(d.strip)))
         /\ s4 = ReadLines(s3, Part(d, "load", LoadLines(d.load)))
         /\ s5 = ReadLines(s4, Part(d, "rebuild", RebuildLines(d.rebuild)))
         /\ s6 = ReadLines(s5, Part(d, "validate", ValidateLines(d.validate)))
         /\ s7 = ReadLines(s6, Part(d, "fkdefine", FkdefineLines(d.fkdefine)))
         /\ s8 = ReadLines(s7, Part(d, "stats", StatsLines(d.stats)))
         /\ s9 = ReadLines(s8, Part(d, "triggers", TriggersLines(d.triggers)))
         /\ Read(Render(d)) = ReadLines(s9, Part(d, "phases", <<Line("current", <<d.phase>>)>>)).m
  BY RenderRead
<1>2. Bare(Nothing)
  BY NothingIs DEF Bare
<1>3. PICK g1, m1 : s1 = At(g1, m1) /\ Bare(m1)
  <2>1. "plan" \in Known /\ Header("plan") \in Early
    BY SectIs DEF Known, Early, Within
  <2> QED
    BY <1>1, <1>2, <2>1, PartsEntries, IdlePart
<1>4. PICK g2, m2 : s2 = At(g2, m2) /\ Bare(m2)
  <2>1. "graph" \in Known /\ Header("graph") \in Early
    BY SectIs DEF Known, Section, Early, Within
  <2> QED
    BY <1>1, <1>3, <2>1, PartsEntries, IdlePart
<1>5. Tracks(d, {}, s2)
  BY <1>4 DEF Tracks, Through, Bare, Loose
<1>6. Tracks(d, {"strip"}, s3)
  <2>1. PICK s \in Sect : s = "strip"
    BY DEF Sect
  <2>2. Told7(s, d[s]) = StripLines(d.strip)
    BY <2>1 DEF Told7
  <2>9. PICK T : T = {}
    OBVIOUS
  <2>3. T = {} /\ T \cup {s} = {"strip"} /\ s \notin T
    BY <2>1, <2>9
  <2>4. Told7(s, d[s]) \in Seq(Entry)
    BY <2>2, PartsEntries
  <2>5. Tracks(d, T, s2) /\ s3 = ReadLines(s2, Part(d, s, Told7(s, d[s])))
    BY <1>1, <1>5, <2>1, <2>2, <2>3
  <2>6. Tracks(d, T \cup {s}, s3)
    BY <2>3, <2>4, <2>5, PartTracks
  <2> QED
    BY <2>3, <2>6
<1>7. Tracks(d, {"strip", "load"}, s4)
  <2>1. PICK s \in Sect : s = "load"
    BY DEF Sect
  <2>2. Told7(s, d[s]) = LoadLines(d.load)
    BY <2>1 DEF Told7
  <2>9. PICK T : T = {"strip"}
    OBVIOUS
  <2>3. T = {"strip"} /\ T \cup {s} = {"strip", "load"} /\ s \notin T
    BY <2>1, <2>9
  <2>4. Told7(s, d[s]) \in Seq(Entry)
    BY <2>2, PartsEntries
  <2>5. Tracks(d, T, s3) /\ s4 = ReadLines(s3, Part(d, s, Told7(s, d[s])))
    BY <1>1, <1>6, <2>1, <2>2, <2>3
  <2>6. Tracks(d, T \cup {s}, s4)
    BY <2>3, <2>4, <2>5, PartTracks
  <2> QED
    BY <2>3, <2>6
<1>8. Tracks(d, {"strip", "load", "rebuild"}, s5)
  <2>1. PICK s \in Sect : s = "rebuild"
    BY DEF Sect
  <2>2. Told7(s, d[s]) = RebuildLines(d.rebuild)
    BY <2>1 DEF Told7
  <2>9. PICK T : T = {"strip", "load"}
    OBVIOUS
  <2>3. T = {"strip", "load"} /\ T \cup {s} = {"strip", "load", "rebuild"} /\ s \notin T
    BY <2>1, <2>9
  <2>4. Told7(s, d[s]) \in Seq(Entry)
    BY <2>2, PartsEntries
  <2>5. Tracks(d, T, s4) /\ s5 = ReadLines(s4, Part(d, s, Told7(s, d[s])))
    BY <1>1, <1>7, <2>1, <2>2, <2>3
  <2>6. Tracks(d, T \cup {s}, s5)
    BY <2>3, <2>4, <2>5, PartTracks
  <2> QED
    BY <2>3, <2>6
<1>9. Tracks(d, {"strip", "load", "rebuild", "validate"}, s6)
  <2>1. PICK s \in Sect : s = "validate"
    BY DEF Sect
  <2>2. Told7(s, d[s]) = ValidateLines(d.validate)
    BY <2>1 DEF Told7
  <2>9. PICK T : T = {"strip", "load", "rebuild"}
    OBVIOUS
  <2>3. T = {"strip", "load", "rebuild"} /\ T \cup {s} = {"strip", "load", "rebuild", "validate"} /\ s \notin T
    BY <2>1, <2>9
  <2>4. Told7(s, d[s]) \in Seq(Entry)
    BY <2>2, PartsEntries
  <2>5. Tracks(d, T, s5) /\ s6 = ReadLines(s5, Part(d, s, Told7(s, d[s])))
    BY <1>1, <1>8, <2>1, <2>2, <2>3
  <2>6. Tracks(d, T \cup {s}, s6)
    BY <2>3, <2>4, <2>5, PartTracks
  <2> QED
    BY <2>3, <2>6
<1>10. Tracks(d, {"strip", "load", "rebuild", "validate", "fkdefine"}, s7)
  <2>1. PICK s \in Sect : s = "fkdefine"
    BY DEF Sect
  <2>2. Told7(s, d[s]) = FkdefineLines(d.fkdefine)
    BY <2>1 DEF Told7
  <2>9. PICK T : T = {"strip", "load", "rebuild", "validate"}
    OBVIOUS
  <2>3. T = {"strip", "load", "rebuild", "validate"} /\ T \cup {s} = {"strip", "load", "rebuild", "validate", "fkdefine"} /\ s \notin T
    BY <2>1, <2>9
  <2>4. Told7(s, d[s]) \in Seq(Entry)
    BY <2>2, PartsEntries
  <2>5. Tracks(d, T, s6) /\ s7 = ReadLines(s6, Part(d, s, Told7(s, d[s])))
    BY <1>1, <1>9, <2>1, <2>2, <2>3
  <2>6. Tracks(d, T \cup {s}, s7)
    BY <2>3, <2>4, <2>5, PartTracks
  <2> QED
    BY <2>3, <2>6
<1>11. Tracks(d, {"strip", "load", "rebuild", "validate", "fkdefine", "stats"}, s8)
  <2>1. PICK s \in Sect : s = "stats"
    BY DEF Sect
  <2>2. Told7(s, d[s]) = StatsLines(d.stats)
    BY <2>1 DEF Told7
  <2>9. PICK T : T = {"strip", "load", "rebuild", "validate", "fkdefine"}
    OBVIOUS
  <2>3. T = {"strip", "load", "rebuild", "validate", "fkdefine"} /\ T \cup {s} = {"strip", "load", "rebuild", "validate", "fkdefine", "stats"} /\ s \notin T
    BY <2>1, <2>9
  <2>4. Told7(s, d[s]) \in Seq(Entry)
    BY <2>2, PartsEntries
  <2>5. Tracks(d, T, s7) /\ s8 = ReadLines(s7, Part(d, s, Told7(s, d[s])))
    BY <1>1, <1>10, <2>1, <2>2, <2>3
  <2>6. Tracks(d, T \cup {s}, s8)
    BY <2>3, <2>4, <2>5, PartTracks
  <2> QED
    BY <2>3, <2>6
<1>12. Tracks(d, {"strip", "load", "rebuild", "validate", "fkdefine", "stats", "triggers"}, s9)
  <2>1. PICK s \in Sect : s = "triggers"
    BY DEF Sect
  <2>2. Told7(s, d[s]) = TriggersLines(d.triggers)
    BY <2>1 DEF Told7
  <2>9. PICK T : T = {"strip", "load", "rebuild", "validate", "fkdefine", "stats"}
    OBVIOUS
  <2>3. T = {"strip", "load", "rebuild", "validate", "fkdefine", "stats"} /\ T \cup {s} = {"strip", "load", "rebuild", "validate", "fkdefine", "stats", "triggers"} /\ s \notin T
    BY <2>1, <2>9
  <2>4. Told7(s, d[s]) \in Seq(Entry)
    BY <2>2, PartsEntries
  <2>5. Tracks(d, T, s8) /\ s9 = ReadLines(s8, Part(d, s, Told7(s, d[s])))
    BY <1>1, <1>11, <2>1, <2>2, <2>3
  <2>6. Tracks(d, T \cup {s}, s9)
    BY <2>3, <2>4, <2>5, PartTracks
  <2> QED
    BY <2>3, <2>6
<1>13. PICK h, m : s9 = At(h, m) /\ Through(d, Sect, m)
  BY <1>12 DEF Tracks, Sect
<1>14. PICK n : n = Put(m, "phase", d.phase)
  OBVIOUS
<1>15. Read(Render(d)) = n
  BY <1>1, <1>13, <1>14, PhasesPut, AtIs DEF Through
<1>16. IsSum(n) /\ \A s \in Sect : n[s] = m[s]
  BY <1>13, <1>14, SectIs, PutIs DEF Through
<1> QED
  BY <1>13, <1>15, <1>16 DEF Through

-----------------------------------------------------------------------------
(* What the phases hand over, read any number of times.                    *)

(* What the phases hand over is what the lemmas on reading ask for.        *)
LEMMA FreeSeq ==
  ASSUME NEW A, NEW c, NEW t \in Seq(A), c \notin ToSet(t)
  PROVE  t \in Seq(Free(A, c))
<1>1. Len(t) \in Nat /\ DOMAIN t = 1 .. Len(t) /\ \A i \in 1 .. Len(t) : t[i] \in A
  BY LenProperties, ElementOfSeq
<1>2. \A i \in 1 .. Len(t) : t[i] # c
  BY <1>1 DEF ToSet
<1>3. \A i \in 1 .. Len(t) : t[i] \in Free(A, c)
  BY <1>1, <1>2, FreeType
<1>4. t = [i \in 1 .. Len(t) |-> t[i]]
  BY <1>1
<1> QED
  BY <1>1, <1>3, <1>4, IsASeq

LEMMA TrimmedTight ==
  ASSUME NEW A, NEW t \in Seq(A), Trim(t) = t
  PROVE  Tight(t)
BY TrimType

LEMMA CellOf ==
  ASSUME NEW t \in Seq(Word), t # <<>>, Trim(t) = t, ToSet(t) \cap {"\t", "\n"} = {}
  PROVE  t \in Cell /\ t \in Ink
<1>1. t \in Text
  BY WordRow
<1>2. "\t" \notin ToSet(t) /\ "\n" \notin ToSet(t)
  OBVIOUS
<1>3. t \in Seq(Free(Token, "\n"))
  BY <1>1, <1>2, FreeSeq DEF Text
<1>4. t \in Seq(Plainly)
  BY <1>2, <1>3, FreeSeq DEF Plainly
<1>5. Tight(t)
  BY TrimmedTight
<1>6. t \in Cell
  BY <1>4, <1>5 DEF Cell, Inked
<1> QED
  BY <1>6, CellIs

LEMMA IdentifierIs ==
  ASSUME NEW t \in Identifier
  PROVE  t \in Cell /\ t \in Ink /\ t \in Spoken /\ t \in Snug(RowMark)
<1>1. t \in Cell /\ t \in Ink
  BY CellOf DEF Identifier
<1>2. t \in Seq(RowMark) /\ Tight(t)
  BY <1>1, InkIs, Alphabets
<1> QED
  BY <1>1, <1>2, InkSpoken DEF Snug

LEMMA OrdinaryIs ==
  ASSUME NEW t, Ordinary(t)
  PROVE  Arrow \notin ToSet(t) /\ Opening \notin ToSet(t) /\ Closing \notin ToSet(t) /\ Colons \notin ToSet(t)
BY Zenon DEF Ordinary, Arrow, Opening, Closing, Colons

LEMMA OrdinaryName ==
  ASSUME NEW t \in Identifier, Ordinary(t)
  PROVE  /\ t \in Snug(Curt) /\ t \in Snug(Free(Curt, Arrow)) /\ t \in Snug(Free(Curt, Opening))
         /\ t \in Snug(Free(Curt, Closing))
         /\ t \in Snug(Free(RowMark, Arrow)) /\ t \in Snug(Free(RowMark, Opening))
         /\ t \in Snug(Free(RowMark, Closing))
<1>1. t \in Seq(RowMark) /\ Tight(t)
  BY IdentifierIs, SnugIs
<1>2. t \in Seq(Curt)
  BY <1>1, OrdinaryIs, FreeSeq DEF Curt
<1>3. /\ t \in Seq(Free(Curt, Arrow)) /\ t \in Seq(Free(Curt, Opening)) /\ t \in Seq(Free(Curt, Closing))
      /\ t \in Seq(Free(RowMark, Arrow)) /\ t \in Seq(Free(RowMark, Opening))
      /\ t \in Seq(Free(RowMark, Closing))
  BY <1>1, <1>2, OrdinaryIs, FreeSeq
<1> QED
  BY <1>1, <1>2, <1>3 DEF Snug

LEMMA ReasonIs ==
  ASSUME NEW t \in Reason
  PROVE  t \in Spoken /\ (Legible(t) => t \in Cell /\ t \in Ink)
<1>1. t \in Prose /\ t # <<>> /\ t[1] \notin Blank
  BY ReasonProse DEF Reason
<1>2. t \in Seq(Word)
  BY DEF Reason, Statement
<1> QED
  BY <1>1, <1>2, CellOf DEF Spoken, Legible

LEMMA NumberIs == Number \subseteq Figure
<1> SUFFICES ASSUME NEW w \in Word \ Blank PROVE w \in Free(Plainly, " ")
  BY DEF Number, Figure
<1>1. w \in Token /\ w # "\n" /\ w # "\t" /\ w # " "
  BY DEF Token, Blank
<1> QED
  BY <1>1, FreeType DEF Plainly

LEMMA IdentifiersAre ==
  Identifier \subseteq Cell /\ Identifier \subseteq Ink /\ Identifier \subseteq Snug(RowMark)
BY IdentifierIs

(* What a phase has put in a section of the record.                        *)
Src ==
  [strip |-> Seq(ConstraintType), load |-> LoadType, rebuild |-> RebuildType,
   validate |-> {w.edges : w \in FkType},
   fkdefine |-> {[defined |-> w.defined, withheld |-> w.withheld] : w \in FkType},
   stats |-> StatType, triggers |-> TriggerType]

LEMMA ConstraintClean == Seq(ConstraintType) \subseteq Seq(CleanConstraint)
<1>1. ConstraintType \in SUBSET CleanConstraint
  BY IdentifiersAre DEF ConstraintType, CleanConstraint, KindCell
<1> QED
  BY <1>1, SeqMonotonic

LEMMA LoadClean == LoadType \subseteq CleanLoad
<1>1. [file : Identifier, rows : Number, failed : Number] \in SUBSET CleanFile
  BY IdentifiersAre, NumberIs DEF CleanFile
<1>2. Seq([file : Identifier, rows : Number, failed : Number]) \subseteq Seq(CleanFile)
  BY <1>1, SeqMonotonic
<1> QED
  BY <1>2, NumberIs DEF LoadType, CleanLoad

LEMMA RebuildRaw == RebuildType \subseteq RawRebuild
<1> DEFINE
  Ks == {<<"fk">>, <<"unique">>, <<"pk">>}
  Ps == [kind : Ks, cls : Identifier, name : Identifier, reason : Reason, readd : Statement]
  Fs == [name : Identifier, reason : Reason]
  Ws == [child : Identifier, parent : Identifier, name : Identifier, reason : Identifier]
<1>0. (\A t \in Reason : t \in Spoken) /\ (\A t \in Statement : t \in Prose)
  BY ReasonIs, StatementProse
<1>1. Ps \in SUBSET RawPending
  BY <1>0, IdentifiersAre DEF RawPending, KindCell
<1>2. Fs \in SUBSET RawFailed
  BY <1>0, IdentifiersAre DEF RawFailed
<1>3. Ws \in SUBSET CleanCascade
  BY IdentifiersAre DEF CleanCascade
<1>4. /\ Seq(Ps) \subseteq Seq(RawPending) /\ Seq(Fs) \subseteq Seq(RawFailed)
      /\ Seq(Ws) \subseteq Seq(CleanCascade) /\ Seq(Identifier) \subseteq Seq(Cell)
  BY <1>1, <1>2, <1>3, IdentifiersAre, SeqMonotonic
<1> QED
  BY <1>4, ConstraintClean DEF RebuildType, RawRebuild

LEMMA FkRaw ==
  ASSUME NEW w \in FkType
  PROVE  w.edges \in Seq(RawEdge) /\ [defined |-> w.defined, withheld |-> w.withheld] \in RawFk
<1> DEFINE
  Es == [child : Identifier, parent : Identifier, name : Identifier, status : Identifier]
  Ds == [child : Identifier, parent : Identifier, name : Identifier]
  Hs == [child : Identifier, parent : Identifier, name : Identifier, reason : Identifier,
         readd : Statement]
<1>1. /\ w.edges \in Seq(Es) /\ w.defined \in Seq(Ds) /\ w.withheld \in Seq(Hs)
      /\ \A e \in ToSet(w.edges) : Unfeigned(e)
  BY DEF FkType
<1>2. Ds \in SUBSET RawTriple
  BY IdentifiersAre DEF RawTriple
<1>3. Hs \in SUBSET RawHeld
  <2>1. \A t \in Statement : t \in Prose
    BY StatementProse
  <2> QED
    BY <2>1, IdentifiersAre DEF RawHeld
<1>4. w.defined \in Seq(RawTriple) /\ w.withheld \in Seq(RawHeld)
  BY <1>1, <1>2, <1>3, SeqMonotonic
<1>5. PICK p \in Seq(Es) : p = w.edges
  BY <1>1
<1>6. Len(p) \in Nat /\ DOMAIN p = 1 .. Len(p) /\ \A i \in 1 .. Len(p) : p[i] \in Es
  BY LenProperties, ElementOfSeq
<1>7. \A i \in 1 .. Len(p) : Unfeigned(p[i])
  BY <1>1, <1>5, <1>6 DEF ToSet
<1>8. \A i \in 1 .. Len(p) : p[i] \in RawEdge
  <2>1. Es \in SUBSET [child : Snug(RowMark), parent : Snug(RowMark), name : Snug(RowMark), status : Ink]
    BY IdentifiersAre
  <2> QED
    BY <1>6, <1>7, <2>1 DEF RawEdge
<1>9. p = [i \in 1 .. Len(p) |-> p[i]]
  BY <1>6
<1>10. p \in Seq(RawEdge)
  BY <1>6, <1>8, <1>9, IsASeq
<1> QED
  BY <1>4, <1>5, <1>10 DEF RawFk

LEMMA StatRaw == StatType \subseteq RawStats
<1>1. [cls : Identifier, reason : Reason] \in SUBSET RawUnrefreshed
  BY IdentifiersAre, ReasonIs DEF RawUnrefreshed
<1>2. Seq([cls : Identifier, reason : Reason]) \subseteq Seq(RawUnrefreshed)
  BY <1>1, SeqMonotonic
<1> QED
  BY <1>2, NumberIs DEF StatType, RawStats

LEMMA TriggerClean == TriggerType \subseteq CleanTriggers
BY IdentifiersAre, NumberIs DEF TriggerType, CleanTriggers

LEMMA SrcRaw ==
  ASSUME NEW s \in Sect
  PROVE  Src[s] \subseteq Raw[s]
<1>1. /\ Src["strip"] = Seq(ConstraintType) /\ Raw["strip"] = Seq(CleanConstraint)
      /\ Src["load"] = LoadType /\ Raw["load"] = CleanLoad
      /\ Src["rebuild"] = RebuildType /\ Raw["rebuild"] = RawRebuild
      /\ Src["stats"] = StatType /\ Raw["stats"] = RawStats
      /\ Src["triggers"] = TriggerType /\ Raw["triggers"] = CleanTriggers
  BY DEF Src, Raw
<1>2. /\ Src["validate"] = {w.edges : w \in FkType} /\ Raw["validate"] = Seq(RawEdge)
      /\ Src["fkdefine"] = {[defined |-> w.defined, withheld |-> w.withheld] : w \in FkType}
      /\ Raw["fkdefine"] = RawFk
  BY DEF Src, Raw
<1>3. Src["validate"] \subseteq Raw["validate"] /\ Src["fkdefine"] \subseteq Raw["fkdefine"]
  BY <1>2, FkRaw
<1> QED
  BY <1>1, <1>3, ConstraintClean, LoadClean, RebuildRaw, StatRaw, TriggerClean DEF Sect

(* A statement that was lost is written as "(none)" from then on.          *)
Spell == [x \in ReadPending |-> [x EXCEPT !.readd = OrNone(@)]]

LEMMA SpellIs ==
  /\ Spell \in [ReadPending -> ReadPending]
  /\ \A x \in ReadPending : Spell[Spell[x]] = Spell[x]
  /\ Respells(Spell, ReadPending) /\ Restates(Spell, ReadPending)
<1>1. NoneMarker \in Stated /\ NoneMarker # <<>>
  BY NoneIs, InkIs DEF Stated
<1>2. ASSUME NEW x \in ReadPending
      PROVE  /\ Spell[x] \in ReadPending /\ Spell[Spell[x]] = Spell[x]
             /\ [Spell[x] EXCEPT !.readd = <<>>] = [x EXCEPT !.readd = <<>>]
  <2>1. PICK a \in KindCell, b \in Cell, c \in Cell, r \in Cell, t \in Stated :
          x = [kind |-> a, cls |-> b, name |-> c, reason |-> r, readd |-> t]
    BY DEF ReadPending
  <2>2. PICK z \in Stated : z = OrNone(t) /\ OrNone(z) = z
    BY <1>1 DEF OrNone
  <2>3. Spell[x] = [kind |-> a, cls |-> b, name |-> c, reason |-> r, readd |-> z]
    BY <2>1, <2>2 DEF Spell
  <2>4. PICK y \in ReadPending : y = [kind |-> a, cls |-> b, name |-> c, reason |-> r, readd |-> z]
    BY DEF ReadPending
  <2>5. Spell[y] = y
    BY <2>2, <2>4 DEF Spell
  <2>6. [y EXCEPT !.readd = <<>>] = [x EXCEPT !.readd = <<>>]
    BY <2>1, <2>4
  <2> QED
    BY <2>3, <2>4, <2>5, <2>6
<1>3. Spell \in [ReadPending -> ReadPending]
  <2>1. \A x \in ReadPending : [x EXCEPT !.readd = OrNone(@)] \in ReadPending
    BY <1>2 DEF Spell
  <2> QED
    BY <2>1 DEF Spell
<1> QED
  BY <1>2, <1>3 DEF Respells, Restates, Spell

LEMMA SpelledIs ==
  ASSUME NEW p \in Seq(ReadPending)
  PROVE  /\ Spelled(p) \in Seq(ReadPending) /\ Spelled(Spelled(p)) = Spelled(p)
         /\ Unstated(Spelled(p)) = Unstated(p) /\ Alike(p, Spelled(p))
<1>1. PICK q \in Seq(ReadPending) :
        /\ q = Image(p, Spell) /\ q = Spelled(p) /\ Len(q) = Len(p) /\ Unstated(q) = Unstated(p)
        /\ \A i \in 1 .. Len(p) : q[i] = Spell[p[i]]
  BY SpellIs, ImageIs, SpelledImage, UnstatedImage
<1>2. PICK r \in Seq(ReadPending) :
        /\ r = Spelled(q) /\ Len(r) = Len(q) /\ \A i \in 1 .. Len(q) : r[i] = Spell[q[i]]
  BY SpellIs, ImageIs, SpelledImage, SMTT(20), ZenonT(30)
<1>3. \A i \in 1 .. Len(p) : p[i] \in ReadPending
  BY ElementOfSeq
<1>4. \A i \in 1 .. Len(p) : r[i] = q[i]
  BY <1>1, <1>2, <1>3, SpellIs
<1>5. r = q
  BY <1>1, <1>2, <1>4, SeqEqual
<1>6. p = <<>> <=> q = <<>>
  BY <1>1, EmptySeq
<1> QED
  BY <1>1, <1>2, <1>5, <1>6 DEF Alike

SpellOf(v) == [v EXCEPT !.pending = Spelled(@)]

LEMMA SpellOfIs ==
  ASSUME NEW v \in TakenRebuild
  PROVE  /\ SpellOf(v) \in TakenRebuild /\ SpellOf(SpellOf(v)) = SpellOf(v)
         /\ [SpellOf(v) EXCEPT !.pending = Unstated(@)] = [v EXCEPT !.pending = Unstated(@)]
         /\ Alike(v.pending, SpellOf(v).pending) /\ SpellOf(v).failed = v.failed
<1>1. PICK a \in Seq(CleanConstraint), p \in Seq(ReadPending), b \in Seq(Cell), c \in Seq(ReadFailed),
           e \in Seq(CleanCascade) : v = Bundle(a, p, b, c, e)
  BY DEF TakenRebuild, Bundle
<1>2. PICK q \in Seq(ReadPending) :
        q = Spelled(p) /\ Spelled(q) = q /\ Unstated(q) = Unstated(p) /\ Alike(p, q)
  BY SpelledIs
<1>3. PICK z : z = Unstated(p) /\ z = Unstated(q)
  BY <1>2
<1>4. v.pending = p /\ v.failed = c
  BY <1>1 DEF Bundle
<1>5. PICK w : w = Bundle(a, q, b, c, e)
  OBVIOUS
<1>6. w.pending = q /\ w.failed = c /\ w \in TakenRebuild
  BY <1>5 DEF Bundle, TakenRebuild
<1>7. SpellOf(v) = w
  <2>1. SpellOf(v) = [v EXCEPT !.pending = q]
    BY <1>2, <1>4 DEF SpellOf
  <2> QED
    BY <1>1, <1>5, <2>1 DEF Bundle
<1>8. SpellOf(w) = w
  <2>1. SpellOf(w) = [w EXCEPT !.pending = q]
    BY <1>2, <1>6 DEF SpellOf
  <2> QED
    BY <1>5, <2>1 DEF Bundle
<1>9. [w EXCEPT !.pending = Unstated(@)] = [v EXCEPT !.pending = Unstated(@)]
  <2>1. [w EXCEPT !.pending = Unstated(@)] = [w EXCEPT !.pending = z]
    BY <1>3, <1>6
  <2>2. [v EXCEPT !.pending = Unstated(@)] = [v EXCEPT !.pending = z]
    BY <1>3, <1>4
  <2> QED
    BY <1>1, <1>5, <2>1, <2>2, SMTT(20), ZenonT(30) DEF Bundle
<1> QED
  BY <1>2, <1>4, <1>6, <1>7, <1>8, <1>9

(* What the record has of section s where a phase made k.                  *)
Kept(s, k, w) ==
  w = k \/ (w \in Taken[s] /\ \E u \in Outcome(s, k) : w = u \/ Again(s, u, w))

LEMMA KeptRaw ==
  ASSUME NEW s \in Sect, NEW k \in Raw[s], NEW v, Kept(s, k, v)
  PROVE  v \in Raw[s]
BY TakenRaw DEF Kept

LEMMA KeptRead ==
  ASSUME NEW s \in Sect, NEW k \in Raw[s], NEW v, Kept(s, k, v), NEW w \in Outcome(s, v)
  PROVE  Kept(s, k, w) /\ w \in Taken[s]
<1>1. v \in Raw[s]
  BY KeptRaw
<1>2. w \in Taken[s] /\ (v \in Taken[s] => Again(s, v, w))
  BY <1>1, OutcomeTaken
<1>3. CASE v = k
  BY <1>2, <1>3 DEF Kept
<1>4. ASSUME v \in Taken[s], NEW u \in Outcome(s, k), v = u \/ Again(s, u, v) PROVE Kept(s, k, w)
  <2>1. Again(s, v, w)
    BY <1>2, <1>4
  <2>2. CASE v = u
    BY <1>2, <1>4, <2>1, <2>2 DEF Kept
  <2>3. CASE Again(s, u, v)
    <3>1. u \in Taken[s]
      BY <1>4, OutcomeTaken
    <3>2. s # "rebuild" => w = u
      BY <2>1, <2>3 DEF Again
    <3>3. CASE s = "rebuild"
      <4>1. u \in TakenRebuild
        BY <3>1, <3>3 DEF Taken
      <4>2. w = SpellOf(v) /\ v = SpellOf(u)
        BY <2>1, <2>3, <3>3 DEF Again, SpellOf
      <4>3. w = SpellOf(u)
        BY <4>1, <4>2, SpellOfIs
      <4>4. Again(s, u, w)
        BY <3>3, <4>3 DEF Again, SpellOf
      <4> QED
        BY <1>2, <1>4, <4>4 DEF Kept
    <3> QED
      BY <1>2, <1>4, <3>2, <3>3 DEF Kept
  <2> QED
    BY <1>4, <2>2, <2>3
<1> QED
  BY <1>2, <1>3, <1>4 DEF Kept

(* What that comes to, section by section.                                 *)
LEMMA KeptSame ==
  ASSUME NEW s \in {"strip", "triggers"}, NEW k, NEW w, Kept(s, k, w)
  PROVE  w = k
<1>1. \A u \in Outcome(s, k) : u = k
  BY DEF Outcome
<1>2. \A u : Again(s, u, w) => w = u
  BY DEF Again
<1> QED
  BY <1>1, <1>2 DEF Kept

(* A section other than [rebuild] is what came of the first reading.       *)
LEMMA KeptOnce ==
  ASSUME NEW s \in Sect \ {"rebuild"}, NEW k, NEW w, Kept(s, k, w)
  PROVE  w = k \/ w \in Outcome(s, k)
BY DEF Kept, Again

LEMMA KeptLoad ==
  ASSUME NEW k, NEW w, Kept("load", k, w)
  PROVE  w.rows = k.rows /\ w.failed = k.failed
<1>1. w = k \/ w \in Outcome("load", k)
  BY KeptOnce DEF Sect
<1> QED
  BY <1>1 DEF Outcome, LoadOut

LEMMA KeptRebuild ==
  ASSUME NEW k \in RawRebuild, NEW w, Kept("rebuild", k, w)
  PROVE  /\ Sure(k) => [w EXCEPT !.pending = Unstated(@)] = [k EXCEPT !.pending = Unstated(@)]
         /\ Alike(k.pending, w.pending)
         /\ k.pending = <<>> => Alike(k.failed, w.failed)
<1>1. CASE w = k
  BY <1>1 DEF Alike
<1>2. ASSUME NEW u \in RebuildOut(k), w = u \/ Again("rebuild", u, w)
      PROVE  /\ Sure(k) => [w EXCEPT !.pending = Unstated(@)] = [k EXCEPT !.pending = Unstated(@)]
             /\ Alike(k.pending, w.pending)
             /\ k.pending = <<>> => Alike(k.failed, w.failed)
  <2>1. /\ u \in TakenRebuild /\ Alike(k.pending, u.pending)
        /\ k.pending = <<>> => Alike(k.failed, u.failed)
        /\ Sure(k) => [u EXCEPT !.pending = Unstated(@)] = [k EXCEPT !.pending = Unstated(@)]
    BY DEF RebuildOut
  <2>2. CASE w = u
    BY <2>1, <2>2
  <2>3. CASE Again("rebuild", u, w)
    <3>1. w = SpellOf(u)
      BY <2>3 DEF Again, SpellOf
    <3>2. /\ [w EXCEPT !.pending = Unstated(@)] = [u EXCEPT !.pending = Unstated(@)]
          /\ Alike(u.pending, w.pending) /\ w.failed = u.failed
      BY <2>1, <3>1, SpellOfIs
    <3>3. Alike(k.pending, w.pending)
      BY <2>1, <3>2 DEF Alike
    <3> QED
      BY <2>1, <3>2, <3>3
  <2> QED
    BY <1>2, <2>2, <2>3
<1>3. Outcome("rebuild", k) = RebuildOut(k)
  BY DEF Outcome
<1> QED
  BY <1>1, <1>2, <1>3 DEF Kept

LEMMA KeptValidate ==
  ASSUME NEW k, NEW w, Kept("validate", k, w)
  PROVE  (k \in Seq(ReadEdges) => w = k) /\ (Violated(w) => Violated(k))
<1>1. w = k \/ w \in Outcome("validate", k)
  BY KeptOnce DEF Sect
<1> QED
  BY <1>1 DEF Outcome, ValidateOut

LEMMA KeptFk ==
  ASSUME NEW k, NEW w, Kept("fkdefine", k, w)
  PROVE  /\ Alike(k.withheld, w.withheld)
         /\ k.defined \in Seq(Refs(RowMark)) => w.defined = k.defined
         /\ k.withheld \in Seq(SoundHeld) => Unstated(w.withheld) = Unstated(k.withheld)
<1>1. w = k \/ w \in FkOut(k)
  <2>1. w = k \/ w \in Outcome("fkdefine", k)
    BY KeptOnce DEF Sect
  <2> QED
    BY <2>1 DEF Outcome
<1>2. CASE w = k
  BY <1>2 DEF Alike
<1>3. CASE w \in FkOut(k)
  BY <1>3 DEF FkOut
<1> QED
  BY <1>1, <1>2, <1>3

LEMMA KeptStats ==
  ASSUME NEW k, NEW w, Kept("stats", k, w)
  PROVE  (k \in TakenStats => w = k) /\ Alike(k.failed, w.failed)
<1>1. w = k \/ w \in StatsOut(k)
  <2>1. w = k \/ w \in Outcome("stats", k)
    BY KeptOnce DEF Sect
  <2> QED
    BY <2>1 DEF Outcome
<1> QED
  BY <1>1 DEF StatsOut, Alike

(* When a record is ordinary enough to come back whole.                    *)
LEMMA EachIn ==
  ASSUME NEW A, NEW B, NEW p \in Seq(A), \A x \in ToSet(p) : x \in A => x \in B
  PROVE  p \in Seq(B)
<1>1. Len(p) \in Nat /\ DOMAIN p = 1 .. Len(p) /\ \A i \in 1 .. Len(p) : p[i] \in A
  BY LenProperties, ElementOfSeq
<1>2. \A i \in 1 .. Len(p) : p[i] \in B
  BY <1>1 DEF ToSet
<1>3. p = [i \in 1 .. Len(p) |-> p[i]]
  BY <1>1
<1> QED
  BY <1>1, <1>2, <1>3, IsASeq

LEMMA NamesIn ==
  ASSUME NEW A, NEW p \in Seq(A), NEW q \in Seq(A)
  PROVE  /\ \A x \in ToSet(p) : {x.child, x.parent, x.name} \subseteq EdgeNames(p)
         /\ \A x \in ToSet(p) : {x.child, x.parent, x.name} \subseteq EdgeNames(p \o q)
         /\ \A x \in ToSet(q) : {x.child, x.parent, x.name} \subseteq EdgeNames(p \o q)
<1>1. PICK c \in Seq(A) : c = Cat(p, q)
  BY CatType
<1>2. /\ Len(c) = Len(p) + Len(q) /\ Len(p) \in Nat /\ Len(q) \in Nat
      /\ \A i \in 1 .. Len(p) + Len(q) : c[i] = IF i <= Len(p) THEN p[i] ELSE q[i - Len(p)]
  BY <1>1, CatType, LenProperties
<1>3. DOMAIN p = 1 .. Len(p) /\ DOMAIN q = 1 .. Len(q) /\ DOMAIN c = 1 .. Len(c)
  BY LenProperties
<1>4. ASSUME NEW x \in ToSet(p) PROVE x \in ToSet(c)
  <2>1. PICK i \in 1 .. Len(p) : p[i] = x
    BY <1>3 DEF ToSet
  <2>2. i \in 1 .. Len(c) /\ c[i] = x
    BY <1>2, <2>1
  <2> QED
    BY <1>3, <2>2 DEF ToSet
<1>5. ASSUME NEW x \in ToSet(q) PROVE x \in ToSet(c)
  <2>1. PICK i \in 1 .. Len(q) : q[i] = x
    BY <1>3 DEF ToSet
  <2>2. PICK j \in 1 .. Len(c) : j = Len(p) + i
    BY <1>2
  <2>3. c[j] = x
    BY <1>2, <2>1, <2>2
  <2> QED
    BY <1>3, <2>3 DEF ToSet
<1>6. p \o q = c
  BY <1>1 DEF Cat
<1>7. /\ \A x \in ToSet(p) : {x.child, x.parent, x.name} \subseteq EdgeNames(p)
      /\ \A x \in ToSet(c) : {x.child, x.parent, x.name} \subseteq EdgeNames(c)
  BY DEF EdgeNames
<1> QED
  BY <1>4, <1>5, <1>6, <1>7

LEMMA SureIs ==
  ASSUME NEW k \in RebuildType,
         \A c \in ToSet(k.pending) : Harmless(c.readd) /\ Legible(c.reason),
         \A f \in ToSet(k.failed) : Legible(f.reason)
  PROVE  Sure(k)
<1> DEFINE
  Ps == [kind : KindCell, cls : Identifier, name : Identifier, reason : Reason, readd : Statement]
  Fs == [name : Identifier, reason : Reason]
<1>1. k.pending \in Seq(Ps) /\ k.failed \in Seq(Fs)
  BY DEF RebuildType, KindCell
<1>2. ASSUME NEW x \in ToSet(k.pending), x \in Ps PROVE x \in SoundPending
  <2>1. x.reason \in Cell /\ Harmless(x.readd)
    BY <1>2, ReasonIs
  <2>2. x \in RawPending
    BY <1>2, IdentifiersAre, ReasonIs, StatementProse DEF RawPending
  <2> QED
    BY <2>1, <2>2 DEF SoundPending
<1>3. ASSUME NEW x \in ToSet(k.failed), x \in Fs PROVE x \in ReadFailed
  <2>1. x.reason \in Cell
    BY <1>3, ReasonIs
  <2> QED
    BY <1>3, <2>1, IdentifiersAre DEF ReadFailed
<1> HIDE DEF Ps, Fs
<1>4. k.pending \in Seq(SoundPending)
  BY <1>1, <1>2, EachIn
<1>5. k.failed \in Seq(ReadFailed)
  BY <1>1, <1>3, EachIn
<1> QED
  BY <1>4, <1>5 DEF Sure

LEMMA EdgesOrdinary ==
  ASSUME NEW w \in FkType, \A n \in EdgeNames(w.edges \o w.defined) : Ordinary(n)
  PROVE  w.edges \in Seq(ReadEdges) /\ w.defined \in Seq(Refs(RowMark))
<1> DEFINE
  Es == [child : Identifier, parent : Identifier, name : Identifier, status : Identifier]
  Ds == [child : Identifier, parent : Identifier, name : Identifier]
<1>1. w.edges \in Seq(Es) /\ w.defined \in Seq(Ds)
  BY DEF FkType
<1>2. PICK p \in Seq(Es \cup Ds), q \in Seq(Es \cup Ds) : p = w.edges /\ q = w.defined
  <2>1. Es \in SUBSET (Es \cup Ds) /\ Ds \in SUBSET (Es \cup Ds)
    OBVIOUS
  <2> HIDE DEF Es, Ds
  <2>2. PICK U : U = Es \cup Ds
    OBVIOUS
  <2>3. Seq(Es) \subseteq Seq(U) /\ Seq(Ds) \subseteq Seq(U)
    BY <2>1, <2>2, SeqMonotonic
  <2> QED
    BY <1>1, <2>2, <2>3
<1>3. ASSUME NEW x, x \in ToSet(p) \/ x \in ToSet(q)
      PROVE  Ordinary(x.child) /\ Ordinary(x.parent) /\ Ordinary(x.name)
  <2>1. {x.child, x.parent, x.name} \subseteq EdgeNames(p \o q)
    BY <1>2, <1>3, NamesIn
  <2> QED
    BY <1>2, <2>1
<1>4. ASSUME NEW x \in ToSet(p), x \in Es PROVE x \in ReadEdges
  <2>1. Ordinary(x.child) /\ Ordinary(x.parent) /\ Ordinary(x.name)
    BY <1>3
  <2>2. PICK a \in Identifier, b \in Identifier, c \in Identifier, s \in Identifier :
          x = [child |-> a, parent |-> b, name |-> c, status |-> s]
    BY <1>4
  <2>3. Ordinary(a) /\ Ordinary(b) /\ Ordinary(c)
    BY <2>1, <2>2
  <2>4. a \in Snug(Free(Curt, Arrow)) /\ b \in Snug(Free(Curt, Opening)) /\ c \in Snug(Free(Curt, Closing))
    BY <2>3, OrdinaryName
  <2> QED
    BY <2>2, <2>4, IdentifierIs DEF ReadEdges
<1>5. ASSUME NEW x \in ToSet(q), x \in Ds PROVE x \in Refs(RowMark)
  <2>1. Ordinary(x.child) /\ Ordinary(x.parent) /\ Ordinary(x.name)
    BY <1>3
  <2>2. PICK a \in Identifier, b \in Identifier, c \in Identifier :
          x = [child |-> a, parent |-> b, name |-> c]
    BY <1>5
  <2>3. Ordinary(a) /\ Ordinary(b) /\ Ordinary(c)
    BY <2>1, <2>2
  <2>4. /\ a \in Snug(Free(RowMark, Arrow)) /\ b \in Snug(Free(RowMark, Opening))
        /\ c \in Snug(Free(RowMark, Closing))
    BY <2>3, OrdinaryName
  <2> QED
    BY <2>2, <2>4 DEF Refs
<1> HIDE DEF Es, Ds
<1>6. w.edges \in Seq(ReadEdges)
  BY <1>1, <1>2, <1>4, EachIn
<1>7. w.defined \in Seq(Refs(RowMark))
  BY <1>1, <1>2, <1>5, EachIn
<1> QED
  BY <1>6, <1>7

LEMMA HeldsOrdinary ==
  ASSUME NEW w \in FkType, \A n \in EdgeNames(w.withheld) : Ordinary(n),
         \A h \in ToSet(w.withheld) : Harmless(h.readd)
  PROVE  w.withheld \in Seq(SoundHeld)
<1> DEFINE
  Hs == [child : Identifier, parent : Identifier, name : Identifier, reason : Identifier,
         readd : Statement]
<1>1. PICK p \in Seq(Hs) : p = w.withheld
  BY DEF FkType
<1>2. ASSUME NEW x \in ToSet(p), x \in Hs PROVE x \in SoundHeld
  <2>1. {x.child, x.parent, x.name} \subseteq EdgeNames(p)
    BY NamesIn
  <2>2. Ordinary(x.child) /\ Ordinary(x.parent) /\ Ordinary(x.name) /\ Harmless(x.readd)
    BY <1>1, <2>1
  <2>3. PICK a \in Identifier, b \in Identifier, c \in Identifier, r \in Identifier, s \in Statement :
          x = [child |-> a, parent |-> b, name |-> c, reason |-> r, readd |-> s]
    BY <1>2
  <2>4. Ordinary(a) /\ Ordinary(b) /\ Ordinary(c)
    BY <2>2, <2>3
  <2>5. a \in Snug(Free(Curt, Arrow)) /\ b \in Snug(Free(Curt, Opening)) /\ c \in Snug(Free(Curt, Closing))
    BY <2>4, OrdinaryName
  <2>6. Tri(x) \in Refs(Curt)
    BY <2>3, <2>5 DEF Tri, Refs
  <2>7. x \in RawHeld
    BY <2>3, IdentifierIs, StatementProse DEF RawHeld
  <2> QED
    BY <2>2, <2>6, <2>7 DEF SoundHeld
<1> HIDE DEF Hs
<1> QED
  BY <1>1, <1>2, EachIn

LEMMA StatsOrdinary ==
  ASSUME NEW k \in StatType, \A f \in ToSet(k.failed) : Ordinary(f.cls) /\ Legible(f.reason)
  PROVE  k \in TakenStats
<1> DEFINE Fs == [cls : Identifier, reason : Reason]
<1>1. PICK u \in Number, p \in Seq(Fs) : k = [updated |-> u, failed |-> p]
  BY DEF StatType
<1>2. ASSUME NEW x \in ToSet(p), x \in Fs PROVE x \in ReadUnrefreshed
  <2>1. Ordinary(x.cls) /\ Legible(x.reason)
    BY <1>1
  <2>2. PICK a \in Identifier, r \in Reason : x = [cls |-> a, reason |-> r]
    BY <1>2
  <2>3. a \in Snug(Curt) /\ r \in Ink
    BY <2>1, <2>2, OrdinaryName, ReasonIs
  <2> QED
    BY <2>2, <2>3 DEF ReadUnrefreshed
<1> HIDE DEF Fs
<1>3. p \in Seq(ReadUnrefreshed)
  BY <1>2, EachIn
<1> QED
  BY <1>1, <1>3, NumberIs DEF TakenStats

-----------------------------------------------------------------------------
(* The invariant.                                                          *)

(* What the phases have handed over so far.                                *)
Matched(k) ==
  \E w \in FkType :
    k.validate = w.edges /\ k.fkdefine = [defined |-> w.defined, withheld |-> w.withheld]

Record(k) ==
  /\ IsSum(k)
  /\ \A s \in Sect : IF s \in k.has THEN k[s] \in Src[s] ELSE k[s] = Nothing[s]
  /\ Matched(k)

(* m has the sections of k, as they are or as they were read.              *)
Agrees(k, m) ==
  /\ m.has = k.has /\ m.phase = k.phase
  /\ \A s \in Sect : IF s \in k.has THEN Kept(s, k[s], m[s]) ELSE m[s] = Nothing[s]

KInv ==
  /\ Record(known)
  /\ Agrees(known, mem)
  /\ mem.has \ {"graph"} \subseteq Owed(Resumed(mem.phase))
  /\ \A s \in restored \ {"graph"} : s \in Owed(write) /\ s \in mem.has /\ mem[s] \in Taken[s]
  /\ \E d : Held(d) /\ file = Render(d) /\ Agrees(known, d) /\ (mem = d \/ mem = Read(file))

LEMMA NothingMatched == Matched(Nothing)
<1>1. PICK w : w = [edges |-> <<>>, defined |-> <<>>, withheld |-> <<>>]
  OBVIOUS
<1>2. w.edges = <<>> /\ ToSet(w.edges) = {}
  BY <1>1 DEF ToSet
<1>3. w \in FkType
  BY <1>1, <1>2 DEF FkType
<1> QED
  BY <1>1, <1>3 DEF Matched, Nothing

LEMMA InitKept == Init => KInv
<1> SUFFICES ASSUME Init PROVE KInv
  OBVIOUS
<1>1. mem = Nothing /\ known = Nothing /\ file = Render(Nothing) /\ restored = {}
  BY DEF Init
<1>2. Held(Nothing) /\ Nothing.phase = "discovered" /\ Nothing.has = {} /\ IsSum(Nothing)
  BY NothingIs DEF Held, Nothing, Reached, Loose
<1>3. Record(Nothing)
  BY <1>2, NothingMatched DEF Record
<1>4. Agrees(Nothing, Nothing)
  BY <1>2 DEF Agrees
<1> QED
  BY <1>1, <1>2, <1>3, <1>4 DEF KInv

(* A run has no more than it owes.                                         *)
LEMMA NoMore ==
  ASSUME IInv, KInv
  PROVE  mem.has \ {"graph"} \subseteq Owed(write)
<1>1. Follows(mem.phase, write) /\ mem.has \ {"graph"} \subseteq Owed(Resumed(mem.phase))
  BY DEF IInv, KInv
<1>2. CASE mem.phase = "defined"
  BY <1>1, <1>2, Owing DEF Resumed
<1>3. CASE mem.phase # "defined"
  BY <1>1, <1>3 DEF Resumed, Follows
<1> QED
  BY <1>2, <1>3

(* The sections S are new, and the same in the record and in the manifest. *)
Gains(m, n, S) ==
  /\ \A s \in Sect : s \in n.has <=> s \in m.has \/ s \in S
  /\ \A s \in Sect : s \notin S => n[s] = m[s]

LEMMA WrittenKept ==
  ASSUME IInv, KInv, NEW n, NEW S, Held(n), Written(n), Record(known)', n.has = known'.has,
         n.phase = known'.phase, Gains(mem, n, S), Gains(known, known', S),
         \A s \in S : n[s] = known'[s],
         S \cap Owed(write) = {}, Owed(write) \subseteq Owed(After(write)),
         n.has \ {"graph"} \subseteq Owed(Resumed(n.phase))
  PROVE  KInv'
<1>1. mem' = n /\ file' = Render(n) /\ write' = After(write) /\ restored' = restored
  BY DEF Written
<1>2. PICK k : k = known'
  OBVIOUS
<1>3. Agrees(known, mem)
  BY DEF KInv
<1>4. Agrees(k, n)
  <2>1. ASSUME NEW s \in Sect PROVE IF s \in k.has THEN Kept(s, k[s], n[s]) ELSE n[s] = Nothing[s]
    <3>1. CASE s \in S
      <4>1. n[s] = k[s] /\ s \in k.has
        BY <1>2, <3>1 DEF Gains
      <4> QED
        BY <4>1 DEF Kept
    <3>2. CASE s \notin S
      <4>1. n[s] = mem[s] /\ k[s] = known[s] /\ (s \in k.has <=> s \in known.has)
        BY <1>2, <3>2 DEF Gains
      <4> QED
        BY <1>3, <4>1 DEF Agrees
    <3> QED
      BY <3>1, <3>2
  <2> QED
    BY <1>2, <2>1 DEF Agrees
<1>5. ASSUME NEW s \in restored \ {"graph"}
      PROVE  s \in Owed(After(write)) /\ s \in n.has /\ n[s] \in Taken[s]
  <2>1. s \in Owed(write) /\ s \in mem.has /\ mem[s] \in Taken[s]
    BY DEF KInv
  <2>2. s \in Sect /\ s \notin S
    BY <2>1, SectIs DEF Owed
  <2> QED
    BY <2>1, <2>2 DEF Gains
<1>6. Agrees(known, mem)' /\ (mem.has \ {"graph"} \subseteq Owed(Resumed(mem.phase)))'
  BY <1>1, <1>2, <1>4
<1>7. (\A s \in restored \ {"graph"} : s \in Owed(write) /\ s \in mem.has /\ mem[s] \in Taken[s])'
  BY <1>1, <1>5
<1>8. (\E d : Held(d) /\ file = Render(d) /\ Agrees(known, d) /\ (mem = d \/ mem = Read(file)))'
  <2>1. Held(n) /\ file' = Render(n) /\ Agrees(known', n) /\ mem' = n
    BY <1>1, <1>2, <1>4
  <2> QED
    BY <2>1
<1> QED
  BY <1>6, <1>7, <1>8 DEF KInv

(* What the end of a phase makes of the summaries and of the record.       *)
Handed(m, ph, s, v) == [m EXCEPT !.phase = ph, !.has = @ \cup {s}, ![s] = v]

LEMMA HandedIs ==
  ASSUME NEW m, IsSum(m), NEW ph, NEW s \in Sect, NEW v, NEW n,
         n = Handed(m, ph, s, v) \/ n = Worked(m, ph, s, v)
  PROVE  /\ IsSum(n) /\ n.phase = ph /\ n.has = m.has \cup {s} /\ n[s] = v
         /\ Gains(m, n, {s})
<1>1. PICK a : a = Put(m, "phase", ph)
  OBVIOUS
<1>2. IsSum(a) /\ a.phase = ph /\ a.has = m.has /\ \A x \in Sect : a[x] = m[x]
  BY <1>1, PutIs, SectIs
<1>3. ASSUME NEW t, NEW c, c = Put(a, "planned", t)
      PROVE  IsSum(c) /\ c.phase = ph /\ c.has = m.has /\ \A x \in Sect : c[x] = m[x]
  BY <1>2, <1>3, PutIs, SectIs
<1>4. ASSUME NEW b, b = a \/ b = Put(a, "planned", TRUE), n = Put(Put(b, "has", m.has \cup {s}), s, v)
      PROVE  /\ IsSum(n) /\ n.phase = ph /\ n.has = m.has \cup {s} /\ n[s] = v
             /\ Gains(m, n, {s})
  <2>1. IsSum(b) /\ b.phase = ph /\ b.has = m.has /\ \A x \in Sect : b[x] = m[x]
    <3>1. CASE b = a
      BY <1>2, <3>1
    <3>2. CASE b = Put(a, "planned", TRUE)
      BY <1>3, <3>2
    <3> QED
      BY <1>4, <3>1, <3>2
  <2>2. PICK h : h = m.has \cup {s}
    OBVIOUS
  <2>3. PICK c : c = Put(b, "has", h)
    OBVIOUS
  <2>4. IsSum(c) /\ c.phase = ph /\ c.has = h /\ \A x \in Sect : c[x] = m[x]
    BY <2>1, <2>3, PutIs, SectIs
  <2>5. n = Put(c, s, v)
    BY <1>4, <2>2, <2>3
  <2>6. IsSum(n) /\ n.phase = ph /\ n.has = h /\ n[s] = v /\ \A x \in Sect : x # s => n[x] = m[x]
    BY <2>4, <2>5, PutIs, SectIs
  <2> QED
    BY <2>2, <2>6 DEF Gains
<1>5. CASE n = Handed(m, ph, s, v)
  <2>1. n = [[a EXCEPT !["has"] = @ \cup {s}] EXCEPT ![s] = v]
    BY <1>1, <1>5 DEF Handed, Put
  <2>2. [a EXCEPT !["has"] = @ \cup {s}] = Put(a, "has", m.has \cup {s})
    BY <1>2 DEF Put
  <2>3. n = Put(Put(a, "has", m.has \cup {s}), s, v)
    BY <2>1, <2>2 DEF Put
  <2> QED
    BY <1>4, <2>3
<1>6. CASE n = Worked(m, ph, s, v)
  <2>1. PICK c : c = Put(a, "planned", TRUE)
    OBVIOUS
  <2>2. c.has = m.has
    BY <1>3, <2>1
  <2>3. n = [[c EXCEPT !["has"] = @ \cup {s}] EXCEPT ![s] = v]
    BY <1>1, <1>6, <2>1 DEF Worked, Put
  <2>4. [c EXCEPT !["has"] = @ \cup {s}] = Put(c, "has", m.has \cup {s})
    BY <2>2 DEF Put
  <2>5. n = Put(Put(c, "has", m.has \cup {s}), s, v)
    BY <2>3, <2>4 DEF Put
  <2> QED
    BY <1>4, <2>1, <2>5
<1> QED
  BY <1>5, <1>6

LEMMA WorkedIs ==
  ASSUME NEW m, IsSum(m), NEW ph, NEW s \in Sect, NEW v, NEW n, n = Worked(m, ph, s, v), NEW S, S = {s}
  PROVE  n.phase = ph /\ n.has = m.has \cup {s} /\ n[s] = v /\ Gains(m, n, S)
<1>1. n.phase = ph /\ n.has = m.has \cup {s} /\ n[s] = v /\ Gains(m, n, {s})
  BY HandedIs
<1> QED
  BY <1>1

LEMMA RecordedIs ==
  ASSUME NEW m, IsSum(m), NEW ph, NEW s \in Sect, NEW v, NEW n, n = Handed(m, ph, s, v), NEW S, S = {s}
  PROVE  /\ IsSum(n) /\ n.phase = ph /\ n.has = m.has \cup {s} /\ n[s] = v
         /\ Gains(m, n, S)
<1>1. /\ IsSum(n) /\ n.phase = ph /\ n.has = m.has \cup {s} /\ n[s] = v /\ Gains(m, n, {s})
  BY HandedIs
<1> QED
  BY <1>1

LEMMA MatchedStays ==
  ASSUME NEW k, NEW n, Matched(k), n.validate = k.validate, n.fkdefine = k.fkdefine
  PROVE  Matched(n)
BY DEF Matched

(* The end of a phase that makes one summary.                              *)
Makes(ph, s) == s \notin Owed(ph) /\ Owed(After(ph)) = Owed(ph) \cup {s}

LEMMA AfterKept ==
  ASSUME IInv, KInv, NEW phase \in Reached \ {"discovered", "defined"},
         NEW s \in Sect \ {"validate", "fkdefine"}, NEW v \in Src[s], v \in Kinds[s],
         Makes(phase, s), WriteAfter(phase, s, v)
  PROVE  KInv'
<1>1. write = phase /\ Held(mem) /\ Record(known) /\ mem.has = known.has
  BY DEF WriteAfter, IInv, KInv, Agrees
<1>0. PICK S : S = {s}
  OBVIOUS
<1>2. PICK n : n = Worked(mem, phase, s, v)
  OBVIOUS
<1>3. PICK k : k = Handed(known, phase, s, v)
  OBVIOUS
<1>4. known' = k /\ Written(n)
  BY <1>2, <1>3 DEF WriteAfter, Worked, Handed
<1>5. s \in Section /\ s \in Sect /\ IsSum(mem) /\ IsSum(known)
  BY <1>1, SectIs DEF Held, Loose, Record
<1>6. Held(n)
  BY <1>1, <1>2, <1>5, HeldWork
<1>7. n.phase = phase /\ n.has = mem.has \cup {s} /\ n[s] = v /\ Gains(mem, n, S)
  BY <1>0, <1>2, <1>5, WorkedIs
<1>8. IsSum(k) /\ k.phase = phase /\ k.has = known.has \cup {s} /\ k[s] = v /\ Gains(known, k, S)
  BY <1>0, <1>3, <1>5, RecordedIs
<1>9. Record(k)
  <2>1. k.validate = known.validate /\ k.fkdefine = known.fkdefine
    BY <1>0, <1>8 DEF Gains, Sect
  <2>2. Matched(k)
    BY <1>1, <2>1, MatchedStays DEF Record
  <2>3. ASSUME NEW x \in Sect PROVE IF x \in k.has THEN k[x] \in Src[x] ELSE k[x] = Nothing[x]
    <3>1. CASE x = s
      BY <1>8, <3>1
    <3>2. CASE x # s
      <4>1. k[x] = known[x] /\ (x \in k.has <=> x \in known.has)
        BY <1>0, <1>8, <3>2 DEF Gains
      <4> QED
        BY <1>1, <4>1 DEF Record
    <3> QED
      BY <3>1, <3>2
  <2> QED
    BY <1>8, <2>2, <2>3 DEF Record
<1>10. Resumed(phase) = After(phase) /\ mem.has \ {"graph"} \subseteq Owed(write)
  BY NoMore DEF Resumed
<1>11. n.has \ {"graph"} \subseteq Owed(Resumed(n.phase))
  BY <1>1, <1>7, <1>10 DEF Makes
<1>12. S \cap Owed(write) = {} /\ Owed(write) \subseteq Owed(After(write))
  BY <1>0, <1>1 DEF Makes
<1>13. n.has = known'.has /\ n.phase = known'.phase /\ \A x \in S : n[x] = known'[x]
  BY <1>0, <1>1, <1>4, <1>7, <1>8
<1>14. Record(known)' /\ Gains(known, known', S)
  BY <1>4, <1>8, <1>9
<1> QED
  BY <1>4, <1>6, <1>7, <1>11, <1>12, <1>13, <1>14, WrittenKept

(* The end of FK_DEFINE, which makes two.                                  *)
FkSum(m, ph, h, e, f, n) ==
  /\ IsSum(n) /\ n.phase = ph /\ n.has = h /\ n.validate = e /\ n.fkdefine = f
  /\ \A x \in Sect \ {"validate", "fkdefine"} : n[x] = m[x]

LEMMA FkSumIs ==
  ASSUME NEW m, IsSum(m), NEW ph, NEW h, NEW e, NEW f, NEW n,
         \E a, b, c : /\ a = Put(m, "phase", ph) /\ (b = a \/ \E t : b = Put(a, "planned", t))
                      /\ c = Put(Put(b, "has", h), "validate", e) /\ n = Put(c, "fkdefine", f)
  PROVE  FkSum(m, ph, h, e, f, n)
<1>1. PICK a, b, c : /\ a = Put(m, "phase", ph) /\ (b = a \/ \E t : b = Put(a, "planned", t))
                     /\ c = Put(Put(b, "has", h), "validate", e) /\ n = Put(c, "fkdefine", f)
  OBVIOUS
<1>2. IsSum(a) /\ a.phase = ph /\ \A x \in Sect : a[x] = m[x]
  BY <1>1, PutIs, SectIs
<1>3. ASSUME NEW t, b = Put(a, "planned", t)
      PROVE  IsSum(b) /\ b.phase = ph /\ \A x \in Sect : b[x] = m[x]
  BY <1>2, <1>3, PutIs, SectIs
<1>4. IsSum(b) /\ b.phase = ph /\ \A x \in Sect : b[x] = m[x]
  BY <1>1, <1>2, <1>3
<1>5. PICK g : g = Put(b, "has", h)
  OBVIOUS
<1>6. IsSum(g) /\ g.phase = ph /\ g.has = h /\ \A x \in Sect : g[x] = m[x]
  BY <1>4, <1>5, PutIs, SectIs
<1>7. "validate" \in Sect /\ "fkdefine" \in Sect
  BY DEF Sect
<1>8. IsSum(c) /\ c.phase = ph /\ c.has = h /\ c.validate = e /\ \A x \in Sect \ {"validate"} : c[x] = m[x]
  <2>1. c = Put(g, "validate", e)
    BY <1>1, <1>5
  <2> QED
    BY <1>6, <1>7, <2>1, PutIs, SectIs
<1>9. n = Put(c, "fkdefine", f)
  BY <1>1
<1>10. /\ IsSum(n) /\ n.phase = ph /\ n.has = h /\ n.validate = e /\ n.fkdefine = f
       /\ \A x \in Sect \ {"validate", "fkdefine"} : n[x] = m[x]
  BY <1>7, <1>8, <1>9, PutIs, SectIs
<1> QED
  BY <1>10 DEF FkSum

LEMMA FkSumGrown ==
  ASSUME NEW m, NEW ph, NEW e, NEW f, NEW n, FkSum(m, ph, m.has \cup {"validate", "fkdefine"}, e, f, n)
  PROVE  Gains(m, n, {"validate", "fkdefine"})
BY DEF FkSum, Gains

LEMMA FkKept ==
  ASSUME IInv, KInv, WriteFkDefined
  PROVE  KInv'
<1>0. /\ Held(mem) /\ IsSum(mem) /\ Record(known) /\ IsSum(known) /\ mem.has = known.has
      /\ mem.has \subseteq Section
  BY DEF IInv, KInv, Agrees, Held, Loose, Record
<1>1. PICK w, f :
        /\ w \in FkWorks
        /\ f = [defined |-> w.defined, withheld |-> w.withheld]
        /\ Written([mem EXCEPT !.phase = "fk_defined", !.planned = TRUE,
                               !.has = @ \cup {"validate", "fkdefine"}, !.validate = w.edges,
                               !.fkdefine = f])
        /\ known' = [known EXCEPT !.phase = "fk_defined", !.planned = TRUE,
                                  !.has = @ \cup {"validate", "fkdefine"}, !.validate = w.edges,
                                  !.fkdefine = f]
        /\ write = "fk_defined"
  BY DEF WriteFkDefined
<1>2. w.edges \in Kinds["validate"] /\ f \in Kinds["fkdefine"] /\ w \in FkType
  BY <1>1, WorksLoose, Kindred, ManifestTextAssumption
<1>3. PICK h \in SUBSET Section : h = mem.has \cup {"validate", "fkdefine"}
  BY <1>0, Kindred
<1>4. PICK a : a = Put(mem, "phase", "fk_defined")
  OBVIOUS
<1>5. Held(a) /\ a.has = mem.has
  BY <1>0, <1>4, HeldOther DEF Reached
<1>6. PICK b : b = Put(a, "planned", TRUE)
  OBVIOUS
<1>7. Held(b) /\ b.has = mem.has
  BY <1>5, <1>6, HeldOther
<1>8. PICK g : g = Put(b, "has", h)
  OBVIOUS
<1>9. Held(g)
  BY <1>7, <1>8, HeldOther
<1>10. PICK c : c = Put(g, "validate", w.edges)
  OBVIOUS
<1>11. Held(c)
  BY <1>2, <1>9, <1>10, Kindred, HeldPut
<1>12. PICK n : n = Put(c, "fkdefine", f)
  OBVIOUS
<1>13. Held(n)
  BY <1>2, <1>11, <1>12, Kindred, HeldPut
<1>14. n = [mem EXCEPT !.phase = "fk_defined", !.planned = TRUE,
                       !.has = @ \cup {"validate", "fkdefine"}, !.validate = w.edges, !.fkdefine = f]
  BY <1>3, <1>4, <1>6, <1>8, <1>10, <1>12 DEF Put
<1>15. FkSum(mem, "fk_defined", h, w.edges, f, n)
  <2>1. PICK t : t = TRUE
    OBVIOUS
  <2>2. /\ a = Put(mem, "phase", "fk_defined") /\ b = Put(a, "planned", t)
        /\ c = Put(Put(b, "has", h), "validate", w.edges) /\ n = Put(c, "fkdefine", f)
    BY <1>4, <1>6, <1>8, <1>10, <1>12, <2>1
  <2> QED
    BY <1>0, <2>2, FkSumIs
<1>16. FkSum(known, "fk_defined", h, w.edges, f, known')
  <2>1. PICK t : t = TRUE
    OBVIOUS
  <2>2. PICK a2 : a2 = Put(known, "phase", "fk_defined")
    OBVIOUS
  <2>3. PICK b2 : b2 = Put(a2, "planned", t)
    OBVIOUS
  <2>4. PICK c2 : c2 = Put(Put(b2, "has", h), "validate", w.edges)
    OBVIOUS
  <2>5. PICK k : k = Put(c2, "fkdefine", f)
    OBVIOUS
  <2>6. FkSum(known, "fk_defined", h, w.edges, f, k)
    BY <1>0, <2>2, <2>3, <2>4, <2>5, FkSumIs
  <2>7. h = known.has \cup {"validate", "fkdefine"}
    BY <1>0, <1>3
  <2>8. known' = k
    BY <1>1, <2>1, <2>2, <2>3, <2>4, <2>5, <2>7 DEF Put
  <2> QED
    BY <2>6, <2>8
<1>17. PICK k : k = known'
  OBVIOUS
<1>18. PICK S : S = {"validate", "fkdefine"}
  OBVIOUS
<1>19. Gains(mem, n, S) /\ Gains(known, k, S)
  <2>1. h = known.has \cup {"validate", "fkdefine"}
    BY <1>0, <1>3
  <2> QED
    BY <1>3, <1>15, <1>16, <1>17, <1>18, <2>1, FkSumGrown
<1>20. /\ IsSum(k) /\ k.phase = "fk_defined" /\ k.has = h /\ k.validate = w.edges /\ k.fkdefine = f
       /\ n.phase = "fk_defined" /\ n.has = h /\ n.validate = w.edges /\ n.fkdefine = f
  BY <1>15, <1>16, <1>17 DEF FkSum
<1>21. Record(k)
  <2>1. Matched(k)
    BY <1>1, <1>2, <1>20 DEF Matched
  <2>2. w.edges \in Src["validate"] /\ f \in Src["fkdefine"]
    BY <1>1, <1>2 DEF Src
  <2>3. ASSUME NEW x \in Sect PROVE IF x \in k.has THEN k[x] \in Src[x] ELSE k[x] = Nothing[x]
    <3>1. CASE x = "validate"
      BY <1>3, <1>20, <2>2, <3>1
    <3>2. CASE x = "fkdefine"
      BY <1>3, <1>20, <2>2, <3>2
    <3>3. CASE x \notin S
      <4>1. k[x] = known[x] /\ (x \in k.has <=> x \in known.has)
        BY <1>19, <3>3 DEF Gains
      <4> QED
        BY <1>0, <4>1 DEF Record
    <3> QED
      BY <1>18, <3>1, <3>2, <3>3
  <2> QED
    BY <1>20, <2>1, <2>3 DEF Record
<1>22. Written(n)
  BY <1>1, <1>14
<1>23. /\ After(write) = "stats_updated" /\ Resumed("fk_defined") = "stats_updated"
  BY <1>1, Afters DEF Resumed
<1>24. S \cap Owed(write) = {} /\ Owed(write) \subseteq Owed(After(write))
  BY <1>1, <1>18, <1>23, Owing
<1>25. n.has \ {"graph"} \subseteq Owed(Resumed(n.phase))
  BY <1>1, <1>3, <1>20, <1>23, NoMore, Owing
<1>26. Record(known)' /\ n.has = known'.has /\ n.phase = known'.phase /\ Gains(known, known', S)
  BY <1>17, <1>19, <1>20, <1>21
<1>27. \A s \in S : n[s] = known'[s]
  BY <1>17, <1>18, <1>20
<1> QED
  BY <1>13, <1>19, <1>22, <1>24, <1>25, <1>26, <1>27, WrittenKept

(* A resumed run takes the record from the manifest.                       *)
LEMMA ResumeKept ==
  ASSUME IInv, KInv, Resume
  PROVE  KInv'
<1>1. PICK d : /\ Held(d) /\ file = Render(d) /\ Agrees(known, d)
  BY DEF KInv
<1>2. PICK found : found = Read(file)
  OBVIOUS
<1>3. /\ mem' = found /\ write' = Resumed(found.phase) /\ file' = file /\ known' = known
      /\ restored' = found.has
  BY <1>2 DEF Resume
<1>4. found \in Sums(d.has, d.phase, FALSE)
  BY <1>1, <1>2, ReadRender DEF Held, Reached, PhaseName
<1>5. Held(found) /\ found.has = d.has /\ found.phase = d.phase
  BY <1>1, <1>4, SumsHeld
<1>6. Record(known) /\ Agrees(known, mem)
  BY DEF KInv
<1>7. ASSUME NEW s \in Sect, s \in known.has
      PROVE  known[s] \in Raw[s] /\ Kept(s, known[s], d[s]) /\ d[s] \in Raw[s]
  <2>1. known[s] \in Raw[s]
    BY <1>6, <1>7, SrcRaw DEF Record
  <2>2. Kept(s, known[s], d[s])
    BY <1>1, <1>7 DEF Agrees
  <2> QED
    BY <2>1, <2>2, KeptRaw
<1>8. Through(d, Sect, found)
  <2>1. d.has = known.has
    BY <1>1 DEF Agrees
  <2>2. \A s \in Sect : s \in d.has => d[s] \in Raw[s]
    BY <1>7, <2>1
  <2>3. Loose(d) /\ d.phase \in PhaseName
    BY <1>1 DEF Held, Reached, PhaseName
  <2> QED
    BY <1>1, <1>2, <2>2, <2>3, RecordRead
<1>9. ASSUME NEW s \in Sect
      PROVE  IF s \in known.has THEN Kept(s, known[s], found[s]) /\ found[s] \in Taken[s]
             ELSE found[s] = Nothing[s]
  <2>1. d.has = known.has
    BY <1>1 DEF Agrees
  <2>2. CASE s \in known.has
    <3>1. found[s] \in Outcome(s, d[s])
      BY <1>8, <2>1, <2>2 DEF Through
    <3> QED
      BY <1>7, <2>2, <3>1, KeptRead
  <2>3. CASE s \notin known.has
    BY <1>8, <2>1, <2>3 DEF Through
  <2> QED
    BY <2>2, <2>3
<1>10. d.has = known.has /\ d.phase = known.phase /\ mem.has = known.has /\ mem.phase = known.phase
  BY <1>1, <1>6 DEF Agrees
<1>11. Agrees(known, found)
  BY <1>5, <1>9, <1>10 DEF Agrees
<1>12. found.has \ {"graph"} \subseteq Owed(Resumed(found.phase))
  BY <1>5, <1>10 DEF KInv
<1>13. ASSUME NEW s \in found.has \ {"graph"}
       PROVE  s \in Owed(Resumed(found.phase)) /\ found[s] \in Taken[s]
  <2>1. s \in Sect /\ s \in known.has
    BY <1>5, <1>10, SectIs DEF Held
  <2> QED
    BY <1>9, <1>12, <2>1
<1>14. Record(known)' /\ Agrees(known, mem)' /\ (mem.has \ {"graph"} \subseteq Owed(Resumed(mem.phase)))'
  BY <1>3, <1>6, <1>11, <1>12
<1>15. (\A s \in restored \ {"graph"} : s \in Owed(write) /\ s \in mem.has /\ mem[s] \in Taken[s])'
  BY <1>3, <1>13
<1>16. (\E e : Held(e) /\ file = Render(e) /\ Agrees(known, e) /\ (mem = e \/ mem = Read(file)))'
  BY <1>1, <1>2, <1>3
<1> QED
  BY <1>14, <1>15, <1>16 DEF KInv

(* A write that makes no record of a phase.                                *)
LEMMA PlainKept ==
  ASSUME IInv, KInv, NEW n, NEW k, Held(n), Written(n), known' = k, IsSum(k),
         n.has = k.has, n.phase = k.phase, n.has \cap Sect = mem.has \cap Sect,
         \A s \in Sect : n[s] = mem[s] /\ k[s] = known[s],
         Owed(write) \subseteq Owed(After(write)), Owed(write) \subseteq Owed(Resumed(n.phase)) \cup {"graph"}
  PROVE  KInv'
<1>1. Record(known) /\ mem.has = known.has
  BY DEF KInv, Agrees
<1>2. PICK S : S = {}
  OBVIOUS
<1>3. Gains(mem, n, S)
  BY <1>2 DEF Gains
<1>4. Gains(known, k, S)
  BY <1>1, <1>2 DEF Gains
<1>5. "validate" \in Sect /\ "fkdefine" \in Sect
  BY DEF Sect
<1>6. Matched(k)
  BY <1>1, <1>5, MatchedStays DEF Record
<1>7. Record(k)
  <2>1. ASSUME NEW x \in Sect PROVE IF x \in k.has THEN k[x] \in Src[x] ELSE k[x] = Nothing[x]
    <3>1. k[x] = known[x] /\ (x \in k.has <=> x \in known.has)
      BY <1>1
    <3> QED
      BY <1>1, <3>1 DEF Record
  <2> QED
    BY <1>6, <2>1 DEF Record
<1>8. n.has \ {"graph"} \subseteq Owed(Resumed(n.phase))
  <2>1. mem.has \ {"graph"} \subseteq Owed(write) /\ n.has \subseteq Section
    BY NoMore DEF Held
  <2>2. ASSUME NEW x \in n.has \ {"graph"} PROVE x \in Owed(Resumed(n.phase))
    <3>1. x \in Sect
      BY <2>1, SectIs
    <3> QED
      BY <2>1, <3>1
  <2> QED
    BY <2>2
<1>9. Record(known)' /\ Gains(known, known', S) /\ n.has = known'.has /\ n.phase = known'.phase
  BY <1>4, <1>7
<1>10. S \cap Owed(write) = {} /\ \A s \in S : n[s] = known'[s]
  BY <1>2
<1> QED
  BY <1>3, <1>8, <1>9, <1>10, WrittenKept

LEMMA NextKept == IInv /\ KInv /\ [Next]_vars => KInv'
<1> SUFFICES ASSUME IInv, KInv, [Next]_vars PROVE KInv'
  OBVIOUS
<1>0. /\ Held(mem) /\ IsSum(mem) /\ Follows(mem.phase, write) /\ mem.phase \in Reached
      /\ Record(known) /\ IsSum(known) /\ mem.has = known.has /\ mem.phase = known.phase
  BY DEF IInv, KInv, Agrees, Held, Loose, Record
<1>1. CASE WriteDefined
  <2>1. PICK n : n = Put(mem, "phase", "defined")
    OBVIOUS
  <2>2. PICK k : k = Put(known, "phase", "defined")
    OBVIOUS
  <2>3. Held(n) /\ n.phase = "defined" /\ n.has = mem.has
    BY <1>0, <2>1, HeldOther DEF Reached
  <2>4. IsSum(k) /\ k.phase = "defined" /\ k.has = known.has /\ \A s \in Sect : k[s] = known[s]
    BY <1>0, <2>2, PutIs, SectIs
  <2>5. \A s \in Sect : n[s] = mem[s]
    BY <1>0, <2>1, PutIs, SectIs
  <2>6. Written(n) /\ known' = k /\ write = "defined"
    BY <1>1, <2>1, <2>2 DEF WriteDefined, Put
  <2>7. After(write) = "graph" /\ Owed(write) = {}
    BY <2>6, Afters, Owing
  <2> QED
    BY <1>0, <2>3, <2>4, <2>5, <2>6, <2>7, PlainKept
<1>2. CASE WriteGraph
  <2>0. write = "graph" /\ After(write) = "plan" /\ mem.phase = "defined" /\ Owed(write) = {}
    <3>1. write = "graph"
      BY <1>2 DEF WriteGraph
    <3> QED
      BY <1>0, <3>1, Afters, Owing DEF Follows, Reached
  <2>1. CASE Written([mem EXCEPT !.planned = FALSE]) /\ known' = known
    <3>1. PICK f : f = FALSE
      OBVIOUS
    <3>2. PICK n : n = Put(mem, "planned", f)
      OBVIOUS
    <3>3. Held(n) /\ n.phase = mem.phase /\ n.has = mem.has
      BY <1>0, <3>1, <3>2, HeldOther
    <3>4. \A s \in Sect : n[s] = mem[s]
      BY <1>0, <3>2, PutIs, SectIs
    <3>5. Written(n)
      BY <2>1, <3>1, <3>2 DEF Put
    <3> QED
      BY <1>0, <2>0, <2>1, <3>3, <3>4, <3>5, PlainKept
  <2>2. ASSUME NEW g \in Graphs, Written([mem EXCEPT !.has = @ \cup {"graph"}, !.graph = g]),
               known' = [known EXCEPT !.has = @ \cup {"graph"}, !.graph = g]
        PROVE  KInv'
    <3>1. PICK h \in SUBSET Section : h = mem.has \cup {"graph"}
      BY <1>0, Kindred DEF Held
    <3>2. PICK a : a = Put(mem, "has", h)
      OBVIOUS
    <3>3. Held(a) /\ a.phase = mem.phase /\ a.has = h /\ IsSum(a) /\ \A s \in Sect : a[s] = mem[s]
      BY <1>0, <3>2, HeldOther, PutIs, SectIs
    <3>4. PICK n : n = Put(a, "graph", g)
      OBVIOUS
    <3>5. g \in Kinds["graph"]
      BY WorksLoose, Kindred
    <3>6. Held(n) /\ n.phase = a.phase /\ n.has = a.has
      BY <3>3, <3>4, <3>5, Kindred, HeldPut
    <3>7. \A s \in Sect : n[s] = mem[s]
      BY <3>3, <3>4, PutIs, SectIs
    <3>8. PICK b : b = Put(known, "has", h)
      OBVIOUS
    <3>9. IsSum(b) /\ b.phase = known.phase /\ b.has = h /\ \A s \in Sect : b[s] = known[s]
      BY <1>0, <3>8, PutIs, SectIs
    <3>10. PICK k : k = Put(b, "graph", g)
      OBVIOUS
    <3>11. IsSum(k) /\ k.phase = known.phase /\ k.has = h /\ \A s \in Sect : k[s] = known[s]
      BY <3>9, <3>10, PutIs, SectIs
    <3>12. Written(n) /\ known' = k
      <4>1. n = [mem EXCEPT !.has = @ \cup {"graph"}, !.graph = g]
        BY <3>1, <3>2, <3>4 DEF Put
      <4>2. k = [known EXCEPT !.has = @ \cup {"graph"}, !.graph = g]
        BY <1>0, <3>1, <3>8, <3>10 DEF Put
      <4> QED
        BY <2>2, <4>1, <4>2
    <3>13. n.has \cap Sect = mem.has \cap Sect
      BY <3>1, <3>3, <3>6, SectIs
    <3>14. n.has = k.has /\ n.phase = k.phase
      BY <1>0, <3>3, <3>6, <3>11
    <3> QED
      BY <2>0, <3>6, <3>7, <3>11, <3>12, <3>13, <3>14, PlainKept
  <2> QED
    BY <1>2, <2>1, <2>2 DEF WriteGraph
<1>3. CASE WritePlan
  <2>0. write = "plan" /\ After(write) = "stripped" /\ mem.phase = "defined"
    <3>1. write = "plan"
      BY <1>3 DEF WritePlan
    <3> QED
      BY <1>0, <3>1, Afters DEF Follows, Reached
  <2>1. PICK t : t = TRUE
    OBVIOUS
  <2>2. PICK n : n = Put(mem, "planned", t)
    OBVIOUS
  <2>3. Held(n) /\ n.phase = mem.phase /\ n.has = mem.has
    BY <1>0, <2>1, <2>2, HeldOther
  <2>4. \A s \in Sect : n[s] = mem[s]
    BY <1>0, <2>2, PutIs, SectIs
  <2>5. PICK k : k = Put(known, "planned", t)
    OBVIOUS
  <2>6. IsSum(k) /\ k.phase = known.phase /\ k.has = known.has /\ \A s \in Sect : k[s] = known[s]
    BY <1>0, <2>5, PutIs, SectIs
  <2>7. Written(n) /\ known' = k
    BY <1>3, <2>1, <2>2, <2>5 DEF WritePlan, Put
  <2>8. Owed(write) \subseteq Owed(After(write)) /\ Owed(write) \subseteq Owed(Resumed(n.phase)) \cup {"graph"}
    BY <2>0, Owing
  <2> QED
    BY <1>0, <2>3, <2>4, <2>6, <2>7, <2>8, PlainKept
<1>4. ASSUME NEW s \in Strips, WriteAfter("stripped", "strip", s) PROVE KInv'
  <2>1. s \in Kinds["strip"] /\ s \in Src["strip"]
    BY WorksLoose, Kindred, ManifestTextAssumption DEF Src
  <2>2. Makes("stripped", "strip")
    BY Afters, Owing DEF Makes
  <2> QED
    BY <1>4, <2>1, <2>2, AfterKept DEF Reached, Sect
<1>5. ASSUME NEW l \in Loads, WriteAfter("loaded", "load", l) PROVE KInv'
  <2>1. l \in Kinds["load"] /\ l \in Src["load"]
    BY WorksLoose, Kindred, ManifestTextAssumption DEF Src
  <2>2. Makes("loaded", "load")
    BY Afters, Owing DEF Makes
  <2> QED
    BY <1>5, <2>1, <2>2, AfterKept DEF Reached, Sect
<1>6. ASSUME NEW r \in Rebuilds, WriteAfter("rebuilt", "rebuild", r) PROVE KInv'
  <2>1. r \in Kinds["rebuild"] /\ r \in Src["rebuild"]
    BY WorksLoose, Kindred, ManifestTextAssumption DEF Src
  <2>2. Makes("rebuilt", "rebuild")
    BY Afters, Owing DEF Makes
  <2> QED
    BY <1>6, <2>1, <2>2, AfterKept DEF Reached, Sect
<1>7. CASE WriteFkDefined
  BY <1>7, FkKept
<1>8. ASSUME NEW s \in StatWorks, WriteAfter("stats_updated", "stats", s) PROVE KInv'
  <2>1. s \in Kinds["stats"] /\ s \in Src["stats"]
    BY WorksLoose, Kindred, ManifestTextAssumption DEF Src
  <2>2. Makes("stats_updated", "stats")
    BY Afters, Owing DEF Makes
  <2> QED
    BY <1>8, <2>1, <2>2, AfterKept DEF Reached, Sect
<1>9. ASSUME NEW t \in TriggerWorks, WriteAfter("done", "triggers", t) PROVE KInv'
  <2>1. t \in Kinds["triggers"] /\ t \in Src["triggers"]
    BY WorksLoose, Kindred, ManifestTextAssumption DEF Src
  <2>2. Makes("done", "triggers")
    BY Afters, Owing DEF Makes, Section
  <2> QED
    BY <1>9, <2>1, <2>2, AfterKept DEF Reached, Sect
<1>10. CASE Resume
  BY <1>10, ResumeKept
<1>11. CASE UNCHANGED vars
  BY <1>11 DEF KInv, vars
<1> QED
  BY <1>1, <1>2, <1>3, <1>4, <1>5, <1>6, <1>7, <1>8, <1>9, <1>10, <1>11 DEF Next, End

-----------------------------------------------------------------------------
(* What follows from it.                                                   *)

(* What a run holds of each phase came of what the phase has handed over.  *)
LEMMA AllKept ==
  ASSUME KInv, NEW s \in Sect
  PROVE  /\ Kept(s, known[s], mem[s])
         /\ s \in known.has => known[s] \in Src[s] /\ known[s] \in Raw[s]
         /\ s \notin known.has => mem[s] = known[s]
<1>1. Record(known) /\ Agrees(known, mem)
  BY DEF KInv
<1>2. CASE s \in known.has
  BY <1>1, <1>2, SrcRaw DEF Record, Agrees
<1>3. CASE s \notin known.has
  BY <1>1, <1>3 DEF Record, Agrees, Kept
<1> QED
  BY <1>2, <1>3

LEMMA RebuildSurvives ==
  ASSUME KInv, \A c \in ToSet(known.rebuild.pending) : Harmless(c.readd) /\ Legible(c.reason),
         \A f \in ToSet(known.rebuild.failed) : Legible(f.reason)
  PROVE  [mem.rebuild EXCEPT !.pending = Unstated(@)]
           = [known.rebuild EXCEPT !.pending = Unstated(@)]
<1>1. PICK s \in Sect : s = "rebuild"
  BY DEF Sect
<1>2. CASE s \in known.has
  <2>1. known.rebuild \in RebuildType /\ known.rebuild \in RawRebuild /\ Kept("rebuild", known.rebuild, mem.rebuild)
    BY <1>1, <1>2, AllKept DEF Src, Raw
  <2>2. Sure(known.rebuild)
    BY <2>1, SureIs
  <2> QED
    BY <2>1, <2>2, KeptRebuild
<1>3. CASE s \notin known.has
  BY <1>1, <1>3, AllKept
<1> QED
  BY <1>2, <1>3

LEMMA EdgesSurvive ==
  ASSUME KInv, NEW e, e = known.validate \o known.fkdefine.defined, \A n \in EdgeNames(e) : Ordinary(n)
  PROVE  mem.validate = known.validate /\ mem.fkdefine.defined = known.fkdefine.defined
<1>1. PICK w \in FkType :
        known.validate = w.edges /\ known.fkdefine = [defined |-> w.defined, withheld |-> w.withheld]
  BY DEF KInv, Record, Matched
<1>2. known.fkdefine.defined = w.defined
  BY <1>1
<1>3. e = w.edges \o w.defined
  BY <1>1, <1>2
<1>4. w.edges \in Seq(ReadEdges) /\ w.defined \in Seq(Refs(RowMark))
  BY <1>3, EdgesOrdinary
<1>5. Kept("validate", known.validate, mem.validate) /\ Kept("fkdefine", known.fkdefine, mem.fkdefine)
  BY AllKept DEF Sect
<1> QED
  BY <1>1, <1>2, <1>4, <1>5, KeptValidate, KeptFk

LEMMA WithheldSurvive ==
  ASSUME KInv, \A n \in EdgeNames(known.fkdefine.withheld) : Ordinary(n),
         \A w \in ToSet(known.fkdefine.withheld) : Harmless(w.readd)
  PROVE  Unstated(mem.fkdefine.withheld) = Unstated(known.fkdefine.withheld)
<1>1. PICK w \in FkType :
        known.validate = w.edges /\ known.fkdefine = [defined |-> w.defined, withheld |-> w.withheld]
  BY DEF KInv, Record, Matched
<1>2. known.fkdefine.withheld = w.withheld
  BY <1>1
<1>3. w.withheld \in Seq(SoundHeld)
  BY <1>2, HeldsOrdinary
<1>4. Kept("fkdefine", known.fkdefine, mem.fkdefine)
  BY AllKept DEF Sect
<1> QED
  BY <1>2, <1>3, <1>4, KeptFk

LEMMA StatsSurvive ==
  ASSUME KInv, \A f \in ToSet(known.stats.failed) : Ordinary(f.cls) /\ Legible(f.reason)
  PROVE  mem.stats = known.stats
<1>1. PICK s \in Sect : s = "stats"
  BY DEF Sect
<1>2. CASE s \in known.has
  <2>1. known.stats \in StatType /\ Kept("stats", known.stats, mem.stats)
    BY <1>1, <1>2, AllKept DEF Src
  <2> QED
    BY <2>1, StatsOrdinary, KeptStats
<1>3. CASE s \notin known.has
  BY <1>1, <1>3, AllKept
<1> QED
  BY <1>2, <1>3

LEMMA RecordHolds == KInv => RecordSurvives
<1> SUFFICES ASSUME KInv PROVE RecordSurvives
  OBVIOUS
<1>1. mem.has = known.has
  BY DEF KInv, Agrees
<1>2. /\ Kept("strip", known.strip, mem.strip) /\ Kept("load", known.load, mem.load)
      /\ Kept("triggers", known.triggers, mem.triggers)
  BY AllKept DEF Sect
<1>3. mem.strip = known.strip /\ mem.triggers = known.triggers
  BY <1>2, KeptSame
<1>4. mem.load.rows = known.load.rows /\ mem.load.failed = known.load.failed
  BY <1>2, KeptLoad
<1>5. PICK e : e = known.validate \o known.fkdefine.defined
  OBVIOUS
<1>6. (\A n \in EdgeNames(e) : Ordinary(n)) =>
        /\ mem.validate = known.validate
        /\ mem.fkdefine.defined = known.fkdefine.defined
  BY <1>5, EdgesSurvive
<1>7. (\A n \in EdgeNames(known.validate \o known.fkdefine.defined) : Ordinary(n)) =>
        /\ mem.validate = known.validate
        /\ mem.fkdefine.defined = known.fkdefine.defined
  BY <1>5, <1>6, Zenon
<1> QED
  BY <1>1, <1>3, <1>4, <1>7, RebuildSurvives, WithheldSurvive, StatsSurvive DEF RecordSurvives

LEMMA VerdictHolds == IInv /\ KInv => VerdictSurvives
<1> SUFFICES ASSUME IInv, KInv, known.phase = "done" PROVE Unresolved(mem) <=> Unresolved(known)
  BY DEF VerdictSurvives
<1>1. known.has = mem.has /\ mem.phase = "done"
  BY DEF KInv, Agrees
<1>2. Section \subseteq known.has
  BY <1>1, Afters, Owing DEF IInv, Follows
<1>3. /\ Kept("rebuild", known.rebuild, mem.rebuild) /\ known.rebuild \in RawRebuild
      /\ Kept("validate", known.validate, mem.validate)
      /\ Kept("fkdefine", known.fkdefine, mem.fkdefine)
      /\ Kept("stats", known.stats, mem.stats)
      /\ Kept("triggers", known.triggers, mem.triggers)
  <2>1. \A s \in Sect : Kept(s, known[s], mem[s]) /\ known[s] \in Raw[s]
    BY <1>2, AllKept, SectIs
  <2> QED
    BY <2>1 DEF Sect, Raw
<1>4. /\ Alike(known.rebuild.pending, mem.rebuild.pending)
      /\ known.rebuild.pending = <<>> => Alike(known.rebuild.failed, mem.rebuild.failed)
  BY <1>3, KeptRebuild
<1>5. Alike(known.fkdefine.withheld, mem.fkdefine.withheld)
  BY <1>3, KeptFk
<1>6. Alike(known.stats.failed, mem.stats.failed)
  BY <1>3, KeptStats
<1>7. mem.triggers = known.triggers
  BY <1>3, KeptSame
<1>8. Violated(mem.validate) => Violated(known.validate)
  BY <1>3, KeptValidate
<1>9. Violated(known.validate) => known.fkdefine.withheld # <<>>
  <2>1. PICK w \in FkType :
          known.validate = w.edges /\ known.fkdefine = [defined |-> w.defined, withheld |-> w.withheld]
    BY DEF KInv, Record, Matched
  <2>2. Violated(w.edges) => w.withheld # <<>>
    BY DEF FkType, Violated
  <2> QED
    BY <2>1, <2>2
<1>10. \A m : Unresolved(m) <=>
         \/ m.rebuild.pending # <<>> \/ m.rebuild.failed # <<>> \/ m.fkdefine.withheld # <<>>
         \/ m.stats.failed # <<>> \/ m.triggers.failed # <<"0">> \/ Violated(m.validate)
  BY DEF Unresolved, Violated
<1> QED
  BY <1>4, <1>5, <1>6, <1>7, <1>8, <1>9, <1>10 DEF Alike

LEMMA LosesHolds == IInv /\ KInv => LosesOnce
<1> DEFINE Spelt(m) == [m EXCEPT !.rebuild = SpellOf(@)]
<1> SUFFICES ASSUME IInv, KInv, NEW s \in restored \ {"graph"}, NEW found, found = Read(file)
             PROVE  Spelt(found)[s] = Spelt(mem)[s]
  BY DEF LosesOnce, SpellOf
<1>1. PICK d : Held(d) /\ file = Render(d) /\ Agrees(known, d) /\ (mem = d \/ mem = found)
  BY DEF KInv
<1>2. CASE mem = found
  BY <1>2
<1>3. CASE mem = d
  <2>1. s \in mem.has /\ mem[s] \in Taken[s] /\ s \in Sect
    BY SectIs DEF KInv, Owed
  <2>2. ASSUME NEW x \in Sect, x \in d.has PROVE d[x] \in Raw[x]
    <3>1. known[x] \in Raw[x] /\ Kept(x, known[x], d[x])
      BY <1>1, <2>2, AllKept DEF Agrees
    <3> QED
      BY <3>1, KeptRaw
  <2>3. Through(d, Sect, found)
    BY <1>1, <2>2, RecordRead DEF Held, Reached, PhaseName
  <2>4. found[s] \in Outcome(s, d[s]) /\ d[s] \in Taken[s]
    BY <1>3, <2>1, <2>3 DEF Through
  <2>5. Again(s, d[s], found[s])
    BY <1>3, <2>1, <2>2, <2>4, OutcomeTaken
  <2>6. IsSum(found) /\ IsSum(mem)
    BY <2>3 DEF Through, IInv, Held, Loose
  <2>7. \A m : IsSum(m) => Spelt(m).rebuild = SpellOf(m.rebuild) /\ (s # "rebuild" => Spelt(m)[s] = m[s])
    <3>1. ASSUME NEW m, IsSum(m) PROVE Spelt(m).rebuild = SpellOf(m.rebuild) /\ (s # "rebuild" => Spelt(m)[s] = m[s])
      <4>1. Spelt(m) = Put(m, "rebuild", SpellOf(m.rebuild))
        BY DEF Put
      <4> QED
        BY <2>1, <3>1, <4>1, PutIs, SectIs DEF Sect
    <3> QED
      BY <3>1
  <2> HIDE DEF Spelt
  <2>8. CASE s # "rebuild"
    BY <1>3, <2>5, <2>6, <2>7, <2>8 DEF Again
  <2>9. CASE s = "rebuild"
    <3>1. found.rebuild = SpellOf(mem.rebuild) /\ mem.rebuild \in TakenRebuild
      BY <1>3, <2>1, <2>5, <2>9 DEF Again, SpellOf, Taken
    <3>2. SpellOf(found.rebuild) = SpellOf(mem.rebuild)
      BY <3>1, SpellOfIs
    <3> QED
      BY <2>6, <2>7, <2>9, <3>2
  <2> QED
    BY <2>8, <2>9
<1> QED
  BY <1>1, <1>2, <1>3

(* What a run holds, and what its manifest says, of a phase that has ended *)
(* is what the phase made or what reading made of that.                    *)
THEOREM Lasting == Spec => []KInv
BY InitKept, NextKept, Inductive, PTL DEF Spec

(* Which constraint of which class, every row count and every reason come  *)
(* back as the phases made them, after any number of resumes (l.666 to     *)
(* l.735 of import_db.cpp take them from the manifest), as far as          *)
(* RecordSurvives says so: not the repair statements, and not the records  *)
(* of a section with a name, a reason or a statement that the parser       *)
(* breaks up (Ordinary, Legible, Harmless).                                *)
THEOREM RecordLasts == Spec => []RecordSurvives
BY Lasting, RecordHolds, PTL

(* A repeated command exits as the whole import would have, whatever the   *)
(* names, the reasons and the statements are.                              *)
THEOREM VerdictLasts == Spec => []VerdictSurvives
BY Lasting, Inductive, VerdictHolds, PTL

(* What a manifest cannot hold is lost when it is first read, and no more  *)
(* of it later.                                                            *)
THEOREM LossIsOnce == Spec => []LosesOnce
BY Lasting, Inductive, LosesHolds, PTL

-----------------------------------------------------------------------------
(* The graph: lists of names, as they are written and read.                *)

(* What begins and ends with ink.                                          *)
Solid(A) == {t \in Seq(A) : Inked(t)}

LEMMA SolidIs ==
  ASSUME NEW A, NEW t \in Solid(A)
  PROVE  t \in Seq(A) /\ t # <<>> /\ Tight(t) /\ t[1] \notin Blank /\ t[Len(t)] \notin Blank /\ Trim(t) = t
<1>1. t \in Seq(A) /\ t # <<>> /\ Tight(t)
  BY DEF Solid, Inked
<1> QED
  BY <1>1, TrimTight DEF Tight

LEMMA JoinSolid ==
  ASSUME NEW A, NEW sep \in Seq(A)
  PROVE  \A p \in Seq(Solid(A)) : p # <<>> => Join(p, sep) \in Solid(A)
<1>I. PICK I : I = Solid(A)
  OBVIOUS
<1> DEFINE ok == {p \in Seq(I) : p # <<>> => Join(p, sep) \in I}
<1>0. Seq(I) \subseteq Seq(Seq(A))
  <2>1. I \subseteq Seq(A)
    BY <1>I DEF Solid
  <2> QED
    BY <2>1, SeqMonotonic
<1>1. <<>> \in ok
  BY EmptySeq
<1>2. ASSUME NEW p \in Seq(I), p \in ok, NEW x \in I PROVE Add(p, x) \in ok
  <2>0. Add(p, x) \in Seq(I)
    BY AddType
  <2>1. x \in Seq(A) /\ x # <<>> /\ x[Len(x)] \notin Blank
    BY <1>I, SolidIs
  <2>2. p \in Seq(Seq(A))
    BY <1>0
  <2>3. CASE p = <<>>
    <3>1. Join(Add(p, x), sep) = x
      BY <2>1, <2>2, <2>3, JoinAdd
    <3> QED
      BY <2>0, <3>1
  <2>4. CASE p # <<>>
    <3>1. PICK j \in I : j = Join(p, sep)
      BY <1>2, <2>4
    <3>2. j \in Seq(A) /\ j # <<>> /\ j[1] \notin Blank
      BY <1>I, SolidIs
    <3>3. PICK t \in Seq(A) : t = Cat(sep, x)
      BY <2>1, CatType
    <3>4. t # <<>> /\ t[Len(t)] \notin Blank
      BY <2>1, <3>3, CatEnds
    <3>5. Join(Add(p, x), sep) = Cat(j, t)
      BY <2>1, <2>2, <2>4, <3>1, <3>3, JoinAdd
    <3>6. Inked(Cat(j, t)) /\ Cat(j, t) \in Seq(A)
      BY <3>2, <3>4, CatInked, CatType
    <3> QED
      BY <1>I, <2>0, <3>5, <3>6 DEF Solid
  <2> QED
    BY <2>3, <2>4
<1> HIDE DEF ok
<1>3. Seq(I) \subseteq ok
  BY <1>1, <1>2, SeqAdd
<1> QED
  BY <1>I, <1>3 DEF ok

(* The names that a list may hold: nothing in them ends an item, a level   *)
(* or a class of a cycle, and none of them alone says that there is none.  *)
Comma == ","
Bar == "|"
Tidy ==
  {t \in Cell : /\ Comma \notin ToSet(t) /\ Bar \notin ToSet(t) /\ Arrow \notin ToSet(t)
                /\ t \notin {NoneMarker, Placeholder}}

LEMMA PlainlyMarks ==
  /\ Comma \in Plainly /\ Bar \in Plainly /\ Arrow \in Plainly /\ " " \in Plainly
  /\ " " \in Free(Plainly, Comma) /\ " " \in Free(Plainly, Bar)
  /\ "(none)" \in Plainly /\ "(placeholder)" \in Plainly
  /\ Comma \in Free(Plainly, Bar)
<1>1. \A k \in {Comma, Bar, Arrow, " ", "(none)", "(placeholder)"} : k \in Token /\ k # "\n" /\ k # "\t"
  BY DEF Token, Mark, Comma, Bar, Arrow
<1>2. \A k \in {Comma, Bar, Arrow, " ", "(none)", "(placeholder)"} : k \in Plainly
  BY <1>1, FreeType DEF Plainly
<1>3. " " # Comma /\ " " # Bar /\ Comma # Bar
  BY DEF Comma, Bar
<1> QED
  BY <1>2, <1>3, FreeType

LEMMA TidyIs ==
  ASSUME NEW t \in Tidy
  PROVE  /\ t \in Cell /\ t \in Seq(Plainly) /\ t \in Solid(Plainly) /\ t # <<>> /\ Tight(t)
         /\ t \in Seq(Free(Plainly, Comma)) /\ t \in Seq(Free(Plainly, Bar)) /\ t \in Seq(Free(Plainly, Arrow))
         /\ t # NoneMarker /\ t # Placeholder
<1>1. t \in Seq(Plainly) /\ Inked(t)
  BY DEF Tidy, Cell
<1> QED
  BY <1>1, FreeSeq DEF Tidy, Solid, Inked

LEMMA TidySeqs ==
  /\ Seq(Tidy) \subseteq Seq(Cell) /\ Seq(Tidy) \subseteq Seq(Solid(Plainly))
  /\ Seq(Tidy) \subseteq Seq(Seq(Plainly))
  /\ Seq(Tidy) \subseteq Seq(Seq(Free(Plainly, Comma)))
  /\ Seq(Tidy) \subseteq Seq(Seq(Free(Plainly, Bar)))
  /\ Seq(Tidy) \subseteq Seq(Seq(Free(Plainly, Arrow)))
<1>1. /\ Tidy \subseteq Cell /\ Tidy \subseteq Solid(Plainly) /\ Tidy \subseteq Seq(Plainly)
      /\ Tidy \subseteq Seq(Free(Plainly, Comma)) /\ Tidy \subseteq Seq(Free(Plainly, Bar))
      /\ Tidy \subseteq Seq(Free(Plainly, Arrow))
  BY TidyIs
<1> QED
  BY <1>1, SeqMonotonic

(* The separator of a list.                                                *)
LEMMA CommaSep ==
  \E sep \in Seq(Plainly) :
    /\ sep = <<",", " ">> /\ Len(sep) = 2
    /\ \E post \in Blanks(Free(Plainly, Comma)), pre \in Blanks(Free(Plainly, Comma)) :
         pre = <<>> /\ sep = Cat(Add(pre, Comma), post)
<1>1. PICK A : A = Plainly
  OBVIOUS
<1>2. PICK c \in A, b \in A : c = Comma /\ b = " "
  BY <1>1, PlainlyMarks
<1>3. PICK sep \in Seq(A) : sep = <<c, b>> /\ sep = Add(<<c>>, b)
  BY PairIs
<1>4. b \in Free(A, Comma) \cap Blank
  BY <1>1, <1>2, PlainlyMarks DEF Blank
<1>5. PICK post \in Blanks(Free(A, Comma)) : post = <<b>>
  BY <1>4, One DEF Blanks
<1>6. PICK pre \in Blanks(Free(A, Comma)) : pre = <<>>
  BY BlanksType
<1>7. <<c>> \in Seq(A) /\ Add(pre, c) = <<c>>
  BY <1>6, One
<1>8. sep = Cat(Add(pre, c), post)
  BY <1>3, <1>5, <1>7, AddIs
<1>9. Len(sep) = 2
  BY <1>3
<1>10. sep = <<",", " ">>
  BY <1>2, <1>3 DEF Comma
<1> QED
  BY <1>1, <1>2, <1>5, <1>6, <1>8, <1>9, <1>10

LEMMA FilledEmpty == Filled(<< <<>> >>) = <<>>
<1>1. PICK e : e = <<>>
  OBVIOUS
<1>2. PICK S : S = {e}
  OBVIOUS
<1>3. <<>> \in Seq(S) /\ e \in S
  BY <1>2, EmptySeq
<1>4. Add(<<>>, e) = <<e>>
  BY <1>3, One
<1>5. Filled(Add(<<>>, e)) = Cat(Filled(<<>>), Fill(e))
  BY <1>3, FilledAdd
<1>6. Cat(<<>>, <<>>) = <<>>
  BY <1>3, CatNone
<1> QED
  BY <1>1, <1>4, <1>5, <1>6, FilledNone DEF Fill

(* A list of tidy names is printed as it can be read.                      *)
LEMMA ListText ==
  ASSUME NEW p \in Seq(Tidy)
  PROVE  /\ JoinList(p) \in Seq(Plainly) /\ JoinList(p) \in Seq(Free(Plainly, Bar)) /\ Tight(JoinList(p))
         /\ p # <<>> => JoinList(p) \in Solid(Plainly)
         /\ p = <<>> => JoinList(p) = <<>>
         /\ JoinList(p) # NoneMarker /\ JoinList(p) # Placeholder
<1>1. PICK sep \in Seq(Plainly) : sep = <<",", " ">> /\ Len(sep) = 2
  BY CommaSep
<1>2. JoinList(p) = Join(p, sep)
  BY <1>1 DEF JoinList
<1>3. Join(p, sep) \in Seq(Plainly)
  BY TidySeqs, JoinType
<1>4. Join(p, sep) \in Seq(Free(Plainly, Bar))
  <2>1. PICK c \in Free(Plainly, Bar), b \in Free(Plainly, Bar) : c = Comma /\ b = " "
    BY PlainlyMarks
  <2>2. sep \in Seq(Free(Plainly, Bar))
    BY <1>1, <2>1, PairIs DEF Comma
  <2> QED
    BY <2>2, TidySeqs, JoinType
<1>5. p # <<>> => Join(p, sep) \in Solid(Plainly)
  BY TidySeqs, JoinSolid
<1>6. p = <<>> => Join(p, sep) = <<>>
  BY JoinNone
<1>7. Tight(Join(p, sep))
  BY <1>5, <1>6, SolidIs DEF Tight
<1>8. Join(p, sep) # NoneMarker /\ Join(p, sep) # Placeholder
  <2>1. CASE p = <<>>
    BY <1>6, <2>1 DEF NoneMarker, Placeholder
  <2>2. CASE p # <<>>
    <3>1. PICK q \in Seq(Tidy), x \in Tidy : p = Add(q, x)
      BY <2>2, SeqLast
    <3>2. q \in Seq(Seq(Plainly)) /\ x \in Seq(Plainly)
      BY TidySeqs, TidyIs
    <3>3. CASE q = <<>>
      <4>1. Join(p, sep) = x
        BY <3>1, <3>2, <3>3, JoinAdd
      <4> QED
        BY <4>1, TidyIs
    <3>4. CASE q # <<>>
      <4>1. PICK j \in Seq(Plainly) : j = Join(q, sep)
        BY <3>2, JoinType
      <4>2. PICK t \in Seq(Plainly) : t = Cat(sep, x) /\ Len(t) = Len(sep) + Len(x)
        BY <3>2, CatType
      <4>3. Join(p, sep) = Cat(j, t)
        BY <3>1, <3>2, <3>4, <4>1, <4>2, JoinAdd
      <4>4. Len(Cat(j, t)) = Len(j) + Len(t)
        BY CatType
      <4>5. Len(j) \in Nat /\ Len(x) \in Nat
        BY <3>2, LenProperties
      <4>6. PICK a \in Nat, b \in Nat, n \in Nat : a = Len(j) /\ b = Len(x) /\ n = Len(sep)
        BY <1>1, <4>5
      <4>7. Len(Cat(j, t)) = a + (n + b) /\ n = 2
        BY <1>1, <4>2, <4>4, <4>6
      <4>8. Len(Cat(j, t)) # 1
        BY <4>7
      <4>9. \A w : <<w>> # Cat(j, t)
        BY <4>8
      <4> QED
        BY <4>3, <4>9 DEF NoneMarker, Placeholder
    <3> QED
      BY <3>3, <3>4
  <2> QED
    BY <2>1, <2>2
<1> QED
  BY <1>2, <1>3, <1>4, <1>5, <1>6, <1>7, <1>8

LEMMA ListParsed ==
  ASSUME NEW p \in Seq(Tidy)
  PROVE  ParseList(JoinList(p)) = p
<1>1. PICK t \in Seq(Plainly) : t = JoinList(p) /\ Trim(t) = t /\ t # NoneMarker
  BY ListText, TrimTight
<1>2. ParseList(t) = Filled(Trimmed(Split(t, ",")))
  BY <1>1 DEF ParseList
<1>3. CASE p = <<>>
  <2>1. t = <<>>
    BY <1>1, <1>3, ListText
  <2>2. Split(t, ",") = << <<>> >>
    BY <2>1, SplitNone
  <2>3. <<>> \in Seq(Plainly) /\ Trim(<<>>) = <<>>
    BY <1>1, <2>1, EmptySeq
  <2>4. Trimmed(<< <<>> >>) = << <<>> >>
    BY <2>3, TrimmedOne
  <2> QED
    BY <1>1, <1>2, <1>3, <2>2, <2>4, FilledEmpty
<1>4. CASE p # <<>>
  <2>1. PICK sep \in Seq(Plainly), post \in Blanks(Free(Plainly, Comma)), pre \in Blanks(Free(Plainly, Comma)) :
           sep = <<",", " ">> /\ pre = <<>> /\ sep = Cat(Add(pre, Comma), post)
    BY CommaSep
  <2>2. t = Join(p, sep)
    BY <1>1, <2>1 DEF JoinList
  <2>3. p \in Seq(Seq(Free(Plainly, Comma))) /\ p \in Seq(Seq(Plainly)) /\ Comma \in Plainly
    BY TidySeqs, PlainlyMarks
  <2>4. Trimmed(Split(Cat(pre, Join(p, sep)), Comma)) = Trimmed(p)
    <3>1. PICK A, c : A = Plainly /\ c = Comma
      OBVIOUS
    <3>2. c \in A /\ pre \in Blanks(Free(A, c)) /\ post \in Blanks(Free(A, c)) /\ sep \in Seq(A)
          /\ sep = Cat(Add(pre, c), post) /\ p \in Seq(Seq(Free(A, c)))
      BY <2>1, <2>3, <3>1
    <3>3. \A lead \in Blanks(Free(A, c)) : \A q \in Seq(Seq(Free(A, c))) :
             q # <<>> => Trimmed(Split(Cat(lead, Join(q, sep)), c)) = Trimmed(q)
      BY <3>2, JoinParts
    <3> QED
      BY <1>4, <3>1, <3>2, <3>3
  <2>5. Cat(pre, t) = t
    BY <2>1, CatNone
  <2>6. Trimmed(p) = p
    <3>1. \A i \in 1 .. Len(p) : Tight(p[i])
      BY ElementOfSeq, TidyIs
    <3> QED
      BY <2>3, <3>1, TrimmedSame
  <2>7. p \in Seq(Tidy \ {<<>>})
    <3>1. Tidy \ {<<>>} = Tidy
      BY TidyIs
    <3> QED
      BY <3>1
  <2>8. Filled(p) = p
    BY <2>7, FilledSame
  <2> QED
    BY <1>1, <1>2, <2>2, <2>4, <2>5, <2>6, <2>8 DEF Comma
<1> QED
  BY <1>3, <1>4

(* A field that begins with the word for what it holds.                    *)
Tag(k, r) == <<k>> \o r
TagMark == {"cs=", "part=", "pk=", "uk=", "fk=", "partn=", "ser=", "cc=", "ppk=", "cpk="}

LEMMA TagIs ==
  ASSUME NEW k \in TagMark, NEW r \in Seq(Plainly), Tight(r)
  PROVE  Tag(k, r) \in Cell /\ Tag(k, r)[1] = k /\ Tail(Tag(k, r)) = r
<1>1. k \in Token /\ k # "\n" /\ k # "\t" /\ k \notin Blank
  BY DEF TagMark, Token, Mark, Blank
<1>2. k \in Plainly
  BY <1>1, FreeType DEF Plainly
<1>3. PICK o \in Seq(Plainly) : o = <<k>> /\ Len(o) = 1 /\ o[1] = k /\ o # <<>>
  BY <1>2, One
<1>4. Tag(k, r) = Cat(o, r)
  BY <1>3 DEF Tag, Cat
<1>5. Cat(o, r) \in Seq(Plainly) /\ Cat(o, r)[1] = k
  BY <1>3, CatType, CatEnds
<1>6. Tail(Cat(o, r)) = r
  BY <1>2, <1>3, TailCat
<1>7. Inked(Cat(o, r))
  <2>1. CASE r = <<>>
    <3>1. Cat(o, r) = o
      BY <2>1, <1>3, CatNone
    <3> QED
      BY <1>1, <1>3, <3>1 DEF Inked, Tight
  <2>2. CASE r # <<>>
    <3>1. r[Len(r)] \notin Blank
      BY <2>2 DEF Tight
    <3> QED
      BY <1>1, <1>3, <2>2, <3>1, CatInked
  <2> QED
    BY <2>1, <2>2
<1> QED
  BY <1>4, <1>5, <1>6, <1>7 DEF Cell

(* The value of the only field with this key.                              *)
LEMMA FieldIs ==
  ASSUME NEW f \in Seq(Cell), NEW from \in Nat \ {0}, NEW key, NEW i \in from .. Len(f), f[i][1] = key,
         \A j \in from .. Len(f) : f[j][1] = key => j = i
  PROVE  FieldVal(f, from, key) = Tail(f[i])
<1>1. PICK found : found = {j \in from .. Len(f) : f[j] # <<>> /\ f[j][1] = key}
  OBVIOUS
<1>2. i \in 1 .. Len(f) /\ i \in Nat
  BY LenProperties
<1>3. f[i] # <<>>
  BY <1>2, ElementOfSeq, CellIs
<1>4. found = {i}
  BY <1>1, <1>3
<1>5. Min(found) = i
  BY <1>2, <1>4, MinIs
<1> QED
  BY <1>1, <1>4, <1>5 DEF FieldVal

(* Fields that are all on one line.                                        *)
LEMMA FieldsLine ==
  ASSUME NEW p \in Seq(Cell), p # <<>>
  PROVE  \E t \in Row : t = Fields(p) /\ Trim(t) = t /\ Split(t, "\t") = p
<1>1. PICK q \in Seq(Cell), x \in Cell : p = Add(q, x)
  BY SeqLast
<1>2. Fields(p) \in Row /\ Fields(p) # <<>> /\ Fields(p)[1] \notin Blank /\ Split(Fields(p), "\t") = p
  BY FieldsCells
<1>3. PICK I : I = Solid(Plainly)
  OBVIOUS
<1>4. p \in Seq(I)
  BY <1>3 DEF Solid, Cell
<1>5. p \in Seq(Solid(RowMark)) /\ <<"\t">> \in Seq(RowMark)
  <2>1. Plainly \subseteq RowMark
    BY FreeType DEF Plainly, RowMark
  <2>2. Seq(Plainly) \subseteq Seq(RowMark)
    BY <2>1, SeqMonotonic
  <2>3. Cell \subseteq Solid(RowMark)
    BY <2>2 DEF Cell, Solid
  <2>4. p \in Seq(Solid(RowMark))
    BY <2>3, SeqMonotonic
  <2>5. <<"\t">> \in Row
    BY Separators
  <2> QED
    BY <2>4, <2>5, Alphabets
<1>6. Join(p, <<"\t">>) \in Solid(RowMark)
  BY <1>5, JoinSolid
<1>7. Trim(Fields(p)) = Fields(p)
  BY <1>6, SolidIs DEF Fields
<1> QED
  BY <1>2, <1>7

-----------------------------------------------------------------------------
(* [graph]: the classes, the keys, the rest, and then all of it.           *)

(* The fields that hold a list, and those of one token.                    *)
LEMMA ListTag ==
  ASSUME NEW k \in TagMark, NEW p \in Seq(Tidy)
  PROVE  /\ Tag(k, JoinList(p)) \in Cell /\ Tag(k, JoinList(p))[1] = k
         /\ ParseList(Tail(Tag(k, JoinList(p)))) = p
<1>1. JoinList(p) \in Seq(Plainly) /\ Tight(JoinList(p))
  BY ListText
<1>2. /\ Tag(k, JoinList(p)) \in Cell /\ Tag(k, JoinList(p))[1] = k
      /\ Tail(Tag(k, JoinList(p))) = JoinList(p)
  BY <1>1, TagIs
<1> QED
  BY <1>2, ListParsed

LEMMA FlagTag ==
  ASSUME NEW k \in TagMark, NEW b \in {"0", "1"}
  PROVE  /\ Tag(k, <<b>>) \in Cell /\ Tag(k, <<b>>)[1] = k /\ Tail(Tag(k, <<b>>)) = <<b>>
         /\ Tag(k, <<b>>) = <<k, b>>
<1>1. b \in Plainly /\ b \notin Blank
  <2>1. b \in Token /\ b # "\n" /\ b # "\t" /\ b \notin Blank
    BY DEF Token, Mark, Blank
  <2> QED
    BY <2>1, FreeType DEF Plainly
<1>2. <<b>> \in Seq(Plainly) /\ Tight(<<b>>)
  BY <1>1, One DEF Tight
<1>3. k \in Plainly
  <2>1. k \in Token /\ k # "\n" /\ k # "\t"
    BY DEF TagMark, Token, Mark
  <2> QED
    BY <2>1, FreeType DEF Plainly
<1>4. Tag(k, <<b>>) = <<k, b>>
  <2>1. PICK o \in Seq(Plainly), q \in Seq(Plainly) : o = <<k>> /\ q = <<b>>
    BY <1>1, <1>3, One
  <2>2. Tag(k, q) = Cat(o, q)
    BY <2>1 DEF Tag, Cat
  <2>3. Add(o, b) = Cat(o, q)
    BY <1>1, <2>1, AddIs
  <2>4. <<k, b>> = Add(o, b)
    BY <1>1, <1>3, <2>1, PairIs
  <2> QED
    BY <2>1, <2>2, <2>3, <2>4
<1> QED
  BY <1>2, <1>4, TagIs

(* [graph]: the classes.                                                   *)
CleanNode ==
  [name : Cell, cs : {"0", "1"}, part : {"0", "1"}, pk : Cell \cup {<<>>}, unique : Seq(Tidy),
   fk : Seq(Tidy), partitions : Seq(Tidy), serials : Seq(Tidy)]

NodeFields(n, f) ==
  /\ f \in Seq(Cell) /\ Len(f) = 8 /\ f # <<>>
  /\ f[1] = n.name /\ f[2] = Tag("cs=", <<n.cs>>) /\ f[3] = Tag("part=", <<n.part>>)
  /\ f[4] = Tag("pk=", n.pk) /\ f[5] = Tag("uk=", JoinList(n.unique)) /\ f[6] = Tag("fk=", JoinList(n.fk))
  /\ f[7] = Tag("partn=", JoinList(n.partitions)) /\ f[8] = Tag("ser=", JoinList(n.serials))

LEMMA NodeFieldsAre ==
  ASSUME NEW n \in CleanNode
  PROVE  \E f : NodeFields(n, f) /\ NodeLine(n) = Line("gnode", Fields(f))
<1>1. n.name \in Cell /\ n.cs \in {"0", "1"} /\ n.part \in {"0", "1"} /\ n.unique \in Seq(Tidy)
      /\ n.fk \in Seq(Tidy) /\ n.partitions \in Seq(Tidy) /\ n.serials \in Seq(Tidy)
  BY DEF CleanNode
<1>2. n.pk \in Seq(Plainly) /\ Tight(n.pk)
  <2>1. n.pk \in Cell \/ n.pk = <<>>
    BY DEF CleanNode
  <2>2. n.pk \in Cell => n.pk \in Seq(Plainly) /\ Tight(n.pk)
    BY CellIs
  <2>3. n.pk = <<>> => n.pk \in Seq(Plainly) /\ Tight(n.pk)
    BY EmptySeq DEF Tight
  <2> QED
    BY <2>1, <2>2, <2>3
<1>3. {"cs=", "part=", "pk=", "uk=", "fk=", "partn=", "ser="} \subseteq TagMark
  BY DEF TagMark
<1>4. PICK a, b, c, d, e, g, h :
        /\ a = Tag("cs=", <<n.cs>>) /\ b = Tag("part=", <<n.part>>) /\ c = Tag("pk=", n.pk)
        /\ d = Tag("uk=", JoinList(n.unique)) /\ e = Tag("fk=", JoinList(n.fk))
        /\ g = Tag("partn=", JoinList(n.partitions)) /\ h = Tag("ser=", JoinList(n.serials))
  OBVIOUS
<1>5. a \in Cell /\ b \in Cell /\ a = <<"cs=", n.cs>> /\ b = <<"part=", n.part>>
  BY <1>1, <1>3, <1>4, FlagTag
<1>6. c \in Cell
  BY <1>2, <1>3, <1>4, TagIs
<1>7. d \in Cell /\ e \in Cell /\ g \in Cell /\ h \in Cell
  BY <1>1, <1>3, <1>4, ListTag
<1>0. PICK x : x = n.name /\ x \in Cell
  BY <1>1
<1>8. PICK f \in Seq(Cell) :
        /\ f = <<x, a, b, c, d, e, g, h>> /\ Len(f) = 8 /\ f # <<>>
        /\ f[1] = x /\ f[2] = a /\ f[3] = b /\ f[4] = c
        /\ f[5] = d /\ f[6] = e /\ f[7] = g /\ f[8] = h
  <2>1. a \in Cell /\ b \in Cell /\ c \in Cell /\ d \in Cell /\ e \in Cell /\ g \in Cell /\ h \in Cell
    BY <1>5, <1>6, <1>7
  <2>2. <<x, a, b, c, d, e, g, h>> \in Seq(Cell)
    BY <1>0, <2>1
  <2>3. PICK f \in Seq(Cell) : f = <<x, a, b, c, d, e, g, h>>
    BY <2>2
  <2>4. Len(f) = 8 /\ f # <<>>
    BY <2>3
  <2>5. f[1] = x /\ f[2] = a /\ f[3] = b /\ f[4] = c
    BY <2>3
  <2>6. f[5] = d /\ f[6] = e /\ f[7] = g /\ f[8] = h
    BY <2>3
  <2> QED
    BY <2>3, <2>4, <2>5, <2>6
<1>9. NodeFields(n, f)
  BY <1>0, <1>4, <1>8 DEF NodeFields
<1>10. c = <<"pk=">> \o n.pk /\ d = <<"uk=">> \o JoinList(n.unique) /\ e = <<"fk=">> \o JoinList(n.fk)
       /\ g = <<"partn=">> \o JoinList(n.partitions) /\ h = <<"ser=">> \o JoinList(n.serials)
  BY <1>4 DEF Tag
<1>11. NodeLine(n) = Line("gnode", Fields(f))
  BY <1>0, <1>5, <1>8, <1>10 DEF NodeLine
<1> QED
  BY <1>9, <1>11

LEMMA NodeFieldVals ==
  ASSUME NEW n \in CleanNode, NEW f, NodeFields(n, f)
  PROVE  /\ FieldVal(f, 2, "cs=") = <<n.cs>> /\ FieldVal(f, 2, "part=") = <<n.part>>
         /\ FieldVal(f, 2, "pk=") = n.pk
         /\ ParseList(FieldVal(f, 2, "uk=")) = n.unique /\ ParseList(FieldVal(f, 2, "fk=")) = n.fk
         /\ ParseList(FieldVal(f, 2, "partn=")) = n.partitions
         /\ ParseList(FieldVal(f, 2, "ser=")) = n.serials
<1>1. n.cs \in {"0", "1"} /\ n.part \in {"0", "1"} /\ n.unique \in Seq(Tidy)
      /\ n.fk \in Seq(Tidy) /\ n.partitions \in Seq(Tidy) /\ n.serials \in Seq(Tidy)
  BY DEF CleanNode
<1>2. n.pk \in Seq(Plainly) /\ Tight(n.pk)
  <2>1. n.pk \in Cell \/ n.pk = <<>>
    BY DEF CleanNode
  <2>2. n.pk \in Cell => n.pk \in Seq(Plainly) /\ Tight(n.pk)
    BY CellIs
  <2>3. n.pk = <<>> => n.pk \in Seq(Plainly) /\ Tight(n.pk)
    BY EmptySeq DEF Tight
  <2> QED
    BY <2>1, <2>2, <2>3
<1>3. {"cs=", "part=", "pk=", "uk=", "fk=", "partn=", "ser="} \subseteq TagMark
  BY DEF TagMark
<1>4. f[2][1] = "cs=" /\ f[3][1] = "part=" /\ Tail(f[2]) = <<n.cs>> /\ Tail(f[3]) = <<n.part>>
  <2>1. f[2] = Tag("cs=", <<n.cs>>) /\ f[3] = Tag("part=", <<n.part>>)
    BY DEF NodeFields
  <2>2. Tag("cs=", <<n.cs>>)[1] = "cs=" /\ Tail(Tag("cs=", <<n.cs>>)) = <<n.cs>>
    BY <1>1, <1>3, FlagTag
  <2>3. Tag("part=", <<n.part>>)[1] = "part=" /\ Tail(Tag("part=", <<n.part>>)) = <<n.part>>
    BY <1>1, <1>3, FlagTag
  <2> QED
    BY <2>1, <2>2, <2>3
<1>5. f[4][1] = "pk=" /\ Tail(f[4]) = n.pk
  BY <1>2, <1>3, TagIs DEF NodeFields
<1>6. f[5][1] = "uk=" /\ f[6][1] = "fk=" /\ ParseList(Tail(f[5])) = n.unique /\ ParseList(Tail(f[6])) = n.fk
  BY <1>1, <1>3, ListTag DEF NodeFields
<1>7. f[7][1] = "partn=" /\ f[8][1] = "ser=" /\ ParseList(Tail(f[7])) = n.partitions
      /\ ParseList(Tail(f[8])) = n.serials
  BY <1>1, <1>3, ListTag DEF NodeFields
<1>8. f \in Seq(Cell) /\ 2 .. Len(f) = {2, 3, 4, 5, 6, 7, 8} /\ 2 \in Nat \ {0}
  BY DEF NodeFields
<1>9. \A j \in 2 .. Len(f) : j \in {2, 3, 4, 5, 6, 7, 8}
  BY <1>8
<1>10. ASSUME NEW i \in 2 .. Len(f), NEW key, f[i][1] = key, \A j \in 2 .. Len(f) : f[j][1] = key => j = i
       PROVE  FieldVal(f, 2, key) = Tail(f[i])
  BY <1>8, <1>10, FieldIs
<1>11. FieldVal(f, 2, "cs=") = Tail(f[2])
  <2>1. \A j \in 2 .. Len(f) : f[j][1] = "cs=" => j = 2
    BY <1>4, <1>5, <1>6, <1>7, <1>9
  <2> QED
    BY <1>4, <1>5, <1>6, <1>7, <1>8, <1>10, <2>1
<1>12. FieldVal(f, 2, "part=") = Tail(f[3])
  <2>1. \A j \in 2 .. Len(f) : f[j][1] = "part=" => j = 3
    BY <1>4, <1>5, <1>6, <1>7, <1>9
  <2> QED
    BY <1>4, <1>5, <1>6, <1>7, <1>8, <1>10, <2>1
<1>13. FieldVal(f, 2, "pk=") = Tail(f[4])
  <2>1. \A j \in 2 .. Len(f) : f[j][1] = "pk=" => j = 4
    BY <1>4, <1>5, <1>6, <1>7, <1>9
  <2> QED
    BY <1>4, <1>5, <1>6, <1>7, <1>8, <1>10, <2>1
<1>14. FieldVal(f, 2, "uk=") = Tail(f[5])
  <2>1. \A j \in 2 .. Len(f) : f[j][1] = "uk=" => j = 5
    BY <1>4, <1>5, <1>6, <1>7, <1>9
  <2> QED
    BY <1>4, <1>5, <1>6, <1>7, <1>8, <1>10, <2>1
<1>15. FieldVal(f, 2, "fk=") = Tail(f[6])
  <2>1. \A j \in 2 .. Len(f) : f[j][1] = "fk=" => j = 6
    BY <1>4, <1>5, <1>6, <1>7, <1>9
  <2> QED
    BY <1>4, <1>5, <1>6, <1>7, <1>8, <1>10, <2>1
<1>16. FieldVal(f, 2, "partn=") = Tail(f[7])
  <2>1. \A j \in 2 .. Len(f) : f[j][1] = "partn=" => j = 7
    BY <1>4, <1>5, <1>6, <1>7, <1>9
  <2> QED
    BY <1>4, <1>5, <1>6, <1>7, <1>8, <1>10, <2>1
<1>17. FieldVal(f, 2, "ser=") = Tail(f[8])
  <2>1. \A j \in 2 .. Len(f) : f[j][1] = "ser=" => j = 8
    BY <1>4, <1>5, <1>6, <1>7, <1>9
  <2> QED
    BY <1>4, <1>5, <1>6, <1>7, <1>8, <1>10, <2>1
<1> QED
  BY <1>4, <1>5, <1>6, <1>7, <1>11, <1>12, <1>13, <1>14, <1>15, <1>16, <1>17

LEMMA NodeText ==
  ASSUME NEW n \in CleanNode
  PROVE  \E t \in Row : /\ NodeLine(n) = Line("gnode", t) /\ Trim(t) = t
                        /\ Trim(Split(t, "\t")[1]) # <<>> /\ ReadNode(t) = n
<1>1. PICK f : NodeFields(n, f) /\ NodeLine(n) = Line("gnode", Fields(f))
  BY NodeFieldsAre
<1>2. f \in Seq(Cell) /\ f # <<>> /\ f[1] = n.name /\ n.name \in Cell
  BY <1>1 DEF NodeFields, CleanNode
<1>3. PICK t \in Row : t = Fields(f) /\ Trim(t) = t /\ Split(t, "\t") = f
  BY <1>2, FieldsLine
<1>4. Trim(f[1]) = n.name /\ n.name # <<>>
  BY <1>2, CellIs
<1>5. (IF FieldVal(f, 2, "cs=") = <<"0">> THEN "0" ELSE "1") = n.cs
      /\ (IF FieldVal(f, 2, "part=") = <<"1">> THEN "1" ELSE "0") = n.part
  <2>1. FieldVal(f, 2, "cs=") = <<n.cs>> /\ FieldVal(f, 2, "part=") = <<n.part>>
    BY <1>1, NodeFieldVals
  <2>2. n.cs \in {"0", "1"} /\ n.part \in {"0", "1"}
    BY DEF CleanNode
  <2>3. <<"0">> # <<"1">>
    OBVIOUS
  <2> QED
    BY <2>1, <2>2, <2>3
<1>6. ReadNode(t) = [name |-> n.name, cs |-> n.cs, part |-> n.part, pk |-> n.pk, unique |-> n.unique,
                     fk |-> n.fk, partitions |-> n.partitions, serials |-> n.serials]
  BY <1>1, <1>3, <1>4, <1>5, NodeFieldVals DEF ReadNode
<1>7. n = [name |-> n.name, cs |-> n.cs, part |-> n.part, pk |-> n.pk, unique |-> n.unique,
           fk |-> n.fk, partitions |-> n.partitions, serials |-> n.serials]
  BY DEF CleanNode
<1> QED
  BY <1>1, <1>3, <1>4, <1>6, <1>7

(* [graph]: the foreign keys.                                              *)
CleanEdge ==
  [child : Cell, parent : Cell, name : Cell, cols : Seq(Tidy), parentPk : Seq(Tidy), childPk : Seq(Tidy)]

EdgeFields(e, f) ==
  /\ f \in Seq(Cell) /\ Len(f) = 6 /\ f # <<>>
  /\ f[1] = e.child /\ f[2] = e.parent /\ f[3] = e.name
  /\ f[4] = Tag("cc=", JoinList(e.cols)) /\ f[5] = Tag("ppk=", JoinList(e.parentPk))
  /\ f[6] = Tag("cpk=", JoinList(e.childPk))

LEMMA EdgeFieldsAre ==
  ASSUME NEW e \in CleanEdge
  PROVE  \E f : EdgeFields(e, f) /\ EdgeLine(e) = Line("gfk", Fields(f))
<1>1. e.child \in Cell /\ e.parent \in Cell /\ e.name \in Cell /\ e.cols \in Seq(Tidy)
      /\ e.parentPk \in Seq(Tidy) /\ e.childPk \in Seq(Tidy)
  BY DEF CleanEdge
<1>2. {"cc=", "ppk=", "cpk="} \subseteq TagMark
  BY DEF TagMark
<1>3. PICK c, p, n : c = e.child /\ p = e.parent /\ n = e.name
  OBVIOUS
<1>4. PICK a, b, d :
        /\ a = Tag("cc=", JoinList(e.cols)) /\ b = Tag("ppk=", JoinList(e.parentPk))
        /\ d = Tag("cpk=", JoinList(e.childPk))
  OBVIOUS
<1>5. a \in Cell /\ b \in Cell /\ d \in Cell
  BY <1>1, <1>2, <1>4, ListTag
<1>6. PICK f \in Seq(Cell) :
        /\ f = <<c, p, n, a, b, d>> /\ Len(f) = 6 /\ f # <<>>
        /\ f[1] = c /\ f[2] = p /\ f[3] = n /\ f[4] = a /\ f[5] = b /\ f[6] = d
  <2>1. c \in Cell /\ p \in Cell /\ n \in Cell
    BY <1>1, <1>3
  <2>2. <<c, p, n, a, b, d>> \in Seq(Cell)
    BY <1>5, <2>1
  <2>3. PICK f \in Seq(Cell) : f = <<c, p, n, a, b, d>>
    BY <2>2
  <2>4. Len(f) = 6 /\ f # <<>>
    BY <2>3
  <2>5. f[1] = c /\ f[2] = p /\ f[3] = n /\ f[4] = a /\ f[5] = b /\ f[6] = d
    BY <2>3
  <2> QED
    BY <2>3, <2>4, <2>5
<1>7. EdgeFields(e, f)
  BY <1>3, <1>4, <1>6 DEF EdgeFields
<1>8. a = <<"cc=">> \o JoinList(e.cols) /\ b = <<"ppk=">> \o JoinList(e.parentPk)
      /\ d = <<"cpk=">> \o JoinList(e.childPk)
  BY <1>4 DEF Tag
<1>9. EdgeLine(e) = Line("gfk", Fields(f))
  BY <1>3, <1>6, <1>8 DEF EdgeLine
<1> QED
  BY <1>7, <1>9

LEMMA EdgeFieldVals ==
  ASSUME NEW e \in CleanEdge, NEW f, EdgeFields(e, f)
  PROVE  /\ ParseList(FieldVal(f, 4, "cc=")) = e.cols
         /\ ParseList(FieldVal(f, 4, "ppk=")) = e.parentPk
         /\ ParseList(FieldVal(f, 4, "cpk=")) = e.childPk
<1>1. e.cols \in Seq(Tidy) /\ e.parentPk \in Seq(Tidy) /\ e.childPk \in Seq(Tidy)
  BY DEF CleanEdge
<1>2. {"cc=", "ppk=", "cpk="} \subseteq TagMark
  BY DEF TagMark
<1>3. f[4][1] = "cc=" /\ f[5][1] = "ppk=" /\ f[6][1] = "cpk="
      /\ ParseList(Tail(f[4])) = e.cols /\ ParseList(Tail(f[5])) = e.parentPk
      /\ ParseList(Tail(f[6])) = e.childPk
  BY <1>1, <1>2, ListTag DEF EdgeFields
<1>4. 4 .. Len(f) = {4, 5, 6}
  BY DEF EdgeFields
<1>5. \A j \in 4 .. Len(f) : j \in {4, 5, 6}
  BY <1>4
<1>6. ASSUME NEW i \in 4 .. Len(f), NEW key, f[i][1] = key, \A j \in 4 .. Len(f) : f[j][1] = key => j = i
      PROVE  FieldVal(f, 4, key) = Tail(f[i])
  <2>1. f \in Seq(Cell) /\ 4 \in Nat \ {0}
    BY DEF EdgeFields
  <2>2. PICK from \in Nat \ {0} : from = 4
    BY <2>1
  <2>3. i \in from .. Len(f) /\ \A j \in from .. Len(f) : f[j][1] = key => j = i
    BY <1>6, <2>2
  <2>4. FieldVal(f, from, key) = Tail(f[i])
    BY <1>6, <2>1, <2>3, FieldIs
  <2> QED
    BY <2>2, <2>4
<1>7. FieldVal(f, 4, "cc=") = Tail(f[4])
  <2>1. \A j \in 4 .. Len(f) : f[j][1] = "cc=" => j = 4
    BY <1>3, <1>5
  <2> QED
    BY <1>3, <1>4, <1>6, <2>1
<1>8. FieldVal(f, 4, "ppk=") = Tail(f[5])
  <2>1. \A j \in 4 .. Len(f) : f[j][1] = "ppk=" => j = 5
    BY <1>3, <1>5
  <2> QED
    BY <1>3, <1>4, <1>6, <2>1
<1>9. FieldVal(f, 4, "cpk=") = Tail(f[6])
  <2>1. \A j \in 4 .. Len(f) : f[j][1] = "cpk=" => j = 6
    BY <1>3, <1>5
  <2> QED
    BY <1>3, <1>4, <1>6, <2>1
<1> QED
  BY <1>3, <1>7, <1>8, <1>9

LEMMA EdgeText ==
  ASSUME NEW e \in CleanEdge
  PROVE  \E t \in Row : /\ EdgeLine(e) = Line("gfk", t) /\ Trim(t) = t
                        /\ Len(Split(t, "\t")) >= 3 /\ ReadEdge(t) = e
<1>1. PICK f : EdgeFields(e, f) /\ EdgeLine(e) = Line("gfk", Fields(f))
  BY EdgeFieldsAre
<1>2. f \in Seq(Cell) /\ f # <<>> /\ Len(f) = 6 /\ f[1] = e.child /\ f[2] = e.parent /\ f[3] = e.name
      /\ e.child \in Cell /\ e.parent \in Cell /\ e.name \in Cell
  BY <1>1 DEF EdgeFields, CleanEdge
<1>3. PICK t \in Row : t = Fields(f) /\ Trim(t) = t /\ Split(t, "\t") = f
  BY <1>2, FieldsLine
<1>4. Trim(f[1]) = e.child /\ Trim(f[2]) = e.parent /\ Trim(f[3]) = e.name
  BY <1>2, CellIs
<1>5. ReadEdge(t) = [child |-> e.child, parent |-> e.parent, name |-> e.name, cols |-> e.cols,
                     parentPk |-> e.parentPk, childPk |-> e.childPk]
  BY <1>1, <1>3, <1>4, EdgeFieldVals DEF ReadEdge
<1>6. e = [child |-> e.child, parent |-> e.parent, name |-> e.name, cols |-> e.cols,
           parentPk |-> e.parentPk, childPk |-> e.childPk]
  BY DEF CleanEdge
<1>7. Len(Split(t, "\t")) >= 3
  <2>1. Len(Split(t, "\t")) = 6
    BY <1>2, <1>3
  <2>2. 6 >= 3 /\ 2 >= 2
    OBVIOUS
  <2> QED
    BY <2>1, <2>2
<1> QED
  BY <1>1, <1>3, <1>5, <1>6, <1>7

(* [graph]: superclasses.                                                  *)
CleanSuper == [child : Cell, super : Cell]

LEMMA SuperText ==
  ASSUME NEW s \in CleanSuper
  PROVE  \E t \in Row : /\ SuperLine(s) = Line("ginh", t) /\ Trim(t) = t
                        /\ Len(Split(t, "\t")) >= 2
                        /\ [child |-> Trim(Split(t, "\t")[1]), super |-> Trim(Split(t, "\t")[2])] = s
<1>1. PICK c \in Cell, u \in Cell : c = s.child /\ u = s.super
  BY DEF CleanSuper
<1>2. PICK f \in Seq(Cell) : f = <<c, u>> /\ Len(f) = 2 /\ f[1] = c /\ f[2] = u /\ f # <<>>
  <2>1. <<c, u>> \in Seq(Cell)
    BY PairIs
  <2>2. 6 >= 3 /\ 2 >= 2
    OBVIOUS
  <2> QED
    BY <2>1, <2>2
<1>3. PICK t \in Row : t = Fields(f) /\ Trim(t) = t /\ Split(t, "\t") = f
  BY <1>2, FieldsLine
<1>4. Trim(f[1]) = c /\ Trim(f[2]) = u
  BY <1>2, CellIs
<1>5. s = [child |-> c, super |-> u]
  BY <1>1 DEF CleanSuper
<1>6. SuperLine(s) = Line("ginh", t)
  BY <1>1, <1>2, <1>3 DEF SuperLine
<1>7. Len(Split(t, "\t")) >= 2
  <2>1. Len(Split(t, "\t")) = 2
    BY <1>2, <1>3
  <2>2. 6 >= 3 /\ 2 >= 2
    OBVIOUS
  <2> QED
    BY <2>1, <2>2
<1>8. Trim(Split(t, "\t")[1]) = c /\ Trim(Split(t, "\t")[2]) = u
  BY <1>2, <1>3, <1>4
<1> QED
  BY <1>3, <1>5, <1>6, <1>7, <1>8

(* [graph]: cycles.                                                        *)
CleanCycle == Seq(Tidy) \ {<<>>}

LEMMA CycleText ==
  ASSUME NEW c \in CleanCycle
  PROVE  \E t \in Row : CycleLine(c) = Line("cycle", t) /\ Trim(t) = t /\ ReadCycle(t) = c
<1>1. c \in Seq(Tidy) /\ c # <<>>
  BY DEF CleanCycle
<1>2. PICK A : A = Plainly
  OBVIOUS
<1>3. Arrow \in A /\ c \in Seq(Seq(Free(A, Arrow))) /\ c \in Seq(Solid(A)) /\ c \in Seq(Seq(A))
  BY <1>1, <1>2, TidySeqs, PlainlyMarks
<1>4. PICK sep \in Seq(A) : sep = <<Arrow>>
  BY <1>3, One
<1>5. PICK t \in Solid(A) : t = Join(c, sep)
  BY <1>1, <1>3, <1>4, JoinSolid
<1>6. t \in Seq(A) /\ Trim(t) = t
  BY <1>5, SolidIs
<1>7. t \in Row
  BY <1>2, <1>6, PlainlyIs
<1>8. Split(t, Arrow) = c
  BY <1>1, <1>3, <1>4, <1>5, JoinExact
<1>9. Trimmed(c) = c
  <2>1. \A i \in 1 .. Len(c) : Tight(c[i])
    BY <1>1, ElementOfSeq, TidyIs
  <2> QED
    BY <1>3, <2>1, TrimmedSame
<1>10. CycleLine(c) = Line("cycle", t)
  BY <1>4, <1>5 DEF CycleLine, Arrow
<1>11. ReadCycle(t) = c
  BY <1>8, <1>9 DEF ReadCycle, Arrow
<1> QED
  BY <1>6, <1>7, <1>10, <1>11

(* [graph]: the classes that are left out.                                 *)
LEMMA SkippedText ==
  ASSUME NEW p \in Seq(Tidy)
  PROVE  \E t \in Row : t = OrNone(JoinList(p)) /\ Trim(t) = t /\ ParseList(t) = p
<1>1. CASE p = <<>>
  <2>1. OrNone(JoinList(p)) = NoneMarker
    BY <1>1, ListText DEF OrNone
  <2>2. NoneMarker \in Row /\ Trim(NoneMarker) = NoneMarker
    BY NoneIs, InkIs
  <2>3. ParseList(NoneMarker) = <<>>
    BY <2>2 DEF ParseList
  <2> QED
    BY <1>1, <2>1, <2>2, <2>3
<1>2. CASE p # <<>>
  <2>1. PICK t \in Solid(Plainly) : t = JoinList(p)
    BY <1>2, ListText
  <2>2. t \in Seq(Plainly) /\ t # <<>> /\ Trim(t) = t
    BY SolidIs
  <2>3. t \in Row
    BY <2>2, PlainlyIs
  <2>4. OrNone(t) = t
    BY <2>2 DEF OrNone
  <2> QED
    BY <2>1, <2>2, <2>3, <2>4, ListParsed
<1> QED
  BY <1>1, <1>2

(* A graph, part by part.                                                  *)
Six(n, e, s, c, k, l) ==
  [nodes |-> n, edges |-> e, supers |-> s, cycles |-> c, skipped |-> k, levels |-> l]

(* What the lines of [graph] add.                                          *)
GraphTakes(m, key, val, u, v) ==
  ReadEntry(Put(m, "graph", u), Header("graph"), key, val) = Put(m, "graph", v)

LEMMA GraphTake ==
  ASSUME NEW m, IsSum(m), NEW n, NEW e, NEW s, NEW c, NEW k, NEW l, NEW val
  PROVE  /\ Trim(Split(val, "\t")[1]) # <<>> =>
              GraphTakes(m, "gnode", val, Six(n, e, s, c, k, l), Six(Add(n, ReadNode(val)), e, s, c, k, l))
         /\ Len(Split(val, "\t")) >= 3 =>
              GraphTakes(m, "gfk", val, Six(n, e, s, c, k, l), Six(n, Add(e, ReadEdge(val)), s, c, k, l))
         /\ Len(Split(val, "\t")) >= 2 =>
              \A x : x = [child |-> Trim(Split(val, "\t")[1]), super |-> Trim(Split(val, "\t")[2])] =>
                GraphTakes(m, "ginh", val, Six(n, e, s, c, k, l), Six(n, e, Add(s, x), c, k, l))
         /\ GraphTakes(m, "cycle", val, Six(n, e, s, c, k, l), Six(n, e, s, Add(c, ReadCycle(val)), k, l))
         /\ GraphTakes(m, "skipped_classes", val, Six(n, e, s, c, k, l), Six(n, e, s, c, ParseList(val), l))
         /\ GraphTakes(m, "cycles", val, Six(n, e, s, c, k, l), Six(n, e, s, c, k, l))
<1>9. PICK z : z = Put(m, "graph", Six(n, e, s, c, k, l))
  OBVIOUS
<1>0. PICK u : u = Six(n, e, s, c, k, l)
  OBVIOUS
<1>1. z.graph = u /\ \A v : Put(z, "graph", v) = Put(m, "graph", v)
  BY <1>0, <1>9, PutIs DEF Field9
<1>2. \A key : ReadEntry(z, Header("graph"), key, val) = ReadGraph(z, key, val)
  BY Dispatch
<1>3. ASSUME Trim(Split(val, "\t")[1]) # <<>>
      PROVE  ReadGraph(z, "gnode", val) = Put(m, "graph", Six(Add(n, ReadNode(val)), e, s, c, k, l))
  <2>1. PICK x : x = ReadNode(val)
    OBVIOUS
  <2>2. ReadGraph(z, "gnode", val) = [z EXCEPT !.graph.nodes = Append(@, x)]
    BY <1>3, <2>1 DEF ReadGraph
  <2>3. [z EXCEPT !.graph.nodes = Append(@, x)] = Put(z, "graph", [u EXCEPT !.nodes = Append(@, x)])
    BY <1>1 DEF Put
  <2>4. [u EXCEPT !.nodes = Append(@, x)] = Six(Add(n, ReadNode(val)), e, s, c, k, l)
    BY <1>0, <2>1 DEF Six, Add
  <2> QED
    BY <1>1, <2>2, <2>3, <2>4
<1>4. ASSUME Len(Split(val, "\t")) >= 3
      PROVE  ReadGraph(z, "gfk", val) = Put(m, "graph", Six(n, Add(e, ReadEdge(val)), s, c, k, l))
  <2>1. PICK x : x = ReadEdge(val)
    OBVIOUS
  <2>2. ReadGraph(z, "gfk", val) = [z EXCEPT !.graph.edges = Append(@, x)]
    BY <1>4, <2>1 DEF ReadGraph
  <2>3. [z EXCEPT !.graph.edges = Append(@, x)] = Put(z, "graph", [u EXCEPT !.edges = Append(@, x)])
    BY <1>1 DEF Put
  <2>4. [u EXCEPT !.edges = Append(@, x)] = Six(n, Add(e, ReadEdge(val)), s, c, k, l)
    BY <1>0, <2>1 DEF Six, Add
  <2> QED
    BY <1>1, <2>2, <2>3, <2>4
<1>5. ASSUME Len(Split(val, "\t")) >= 2
      PROVE  ReadGraph(z, "ginh", val) = Put(m, "graph", Six(n, e, Add(s, [child |-> Trim(Split(val, "\t")[1]), super |-> Trim(Split(val, "\t")[2])]), c, k, l))
  <2>1. PICK x : x = [child |-> Trim(Split(val, "\t")[1]), super |-> Trim(Split(val, "\t")[2])]
    OBVIOUS
  <2>2. ReadGraph(z, "ginh", val) = [z EXCEPT !.graph.supers = Append(@, x)]
    BY <1>5, <2>1 DEF ReadGraph
  <2>3. [z EXCEPT !.graph.supers = Append(@, x)] = Put(z, "graph", [u EXCEPT !.supers = Append(@, x)])
    BY <1>1 DEF Put
  <2>4. [u EXCEPT !.supers = Append(@, x)] = Six(n, e, Add(s, x), c, k, l)
    BY <1>0 DEF Six, Add
  <2>5. [u EXCEPT !.supers = Append(@, x)] = Six(n, e, Add(s, [child |-> Trim(Split(val, "\t")[1]), super |-> Trim(Split(val, "\t")[2])]), c, k, l)
    BY <2>1, <2>4
  <2> QED
    BY <1>1, <2>2, <2>3, <2>5
<1>6. ASSUME TRUE
      PROVE  ReadGraph(z, "cycle", val) = Put(m, "graph", Six(n, e, s, Add(c, ReadCycle(val)), k, l))
  <2>1. PICK x : x = ReadCycle(val)
    OBVIOUS
  <2>2. ReadGraph(z, "cycle", val) = [z EXCEPT !.graph.cycles = Append(@, x)]
    BY <1>6, <2>1 DEF ReadGraph
  <2>3. [z EXCEPT !.graph.cycles = Append(@, x)] = Put(z, "graph", [u EXCEPT !.cycles = Append(@, x)])
    BY <1>1 DEF Put
  <2>4. [u EXCEPT !.cycles = Append(@, x)] = Six(n, e, s, Add(c, ReadCycle(val)), k, l)
    BY <1>0, <2>1 DEF Six, Add
  <2> QED
    BY <1>1, <2>2, <2>3, <2>4
<1>7. ASSUME TRUE
      PROVE  ReadGraph(z, "skipped_classes", val) = Put(m, "graph", Six(n, e, s, c, ParseList(val), l))
  <2>1. PICK x : x = ParseList(val)
    OBVIOUS
  <2>2. ReadGraph(z, "skipped_classes", val) = [z EXCEPT !.graph.skipped = x]
    BY <1>7, <2>1 DEF ReadGraph
  <2>3. [z EXCEPT !.graph.skipped = x] = Put(z, "graph", [u EXCEPT !.skipped = x])
    BY <1>1 DEF Put
  <2>4. [u EXCEPT !.skipped = x] = Six(n, e, s, c, ParseList(val), l)
    BY <1>0, <2>1 DEF Six
  <2> QED
    BY <1>1, <2>2, <2>3, <2>4
<1>8. ReadGraph(z, "cycles", val) = z
  BY DEF ReadGraph
<1>10. \A key, v : ReadGraph(z, key, val) = Put(m, "graph", v)
                     => GraphTakes(m, key, val, Six(n, e, s, c, k, l), v)
  BY <1>2, <1>9 DEF GraphTakes
<1>11. Trim(Split(val, "\t")[1]) # <<>> =>
         GraphTakes(m, "gnode", val, Six(n, e, s, c, k, l), Six(Add(n, ReadNode(val)), e, s, c, k, l))
  BY <1>3, <1>10
<1>12. Len(Split(val, "\t")) >= 3 =>
         GraphTakes(m, "gfk", val, Six(n, e, s, c, k, l), Six(n, Add(e, ReadEdge(val)), s, c, k, l))
  BY <1>4, <1>10
<1>13. ASSUME Len(Split(val, "\t")) >= 2,
              NEW x, x = [child |-> Trim(Split(val, "\t")[1]), super |-> Trim(Split(val, "\t")[2])]
       PROVE  GraphTakes(m, "ginh", val, Six(n, e, s, c, k, l), Six(n, e, Add(s, x), c, k, l))
  BY <1>5, <1>10, <1>13
<1>14. GraphTakes(m, "cycle", val, Six(n, e, s, c, k, l), Six(n, e, s, Add(c, ReadCycle(val)), k, l))
  BY <1>6, <1>10
<1>15. GraphTakes(m, "skipped_classes", val, Six(n, e, s, c, k, l), Six(n, e, s, c, ParseList(val), l))
  BY <1>7, <1>10
<1>16. GraphTakes(m, "cycles", val, Six(n, e, s, c, k, l), Six(n, e, s, c, k, l))
  BY <1>8, <1>9, <1>10
<1> QED
  BY <1>11, <1>12, <1>13, <1>14, <1>15, <1>16

(* A list of lines that are all read as they are.                          *)
Whole(m, s, R, F, key, W) ==
  \A x \in R : \E t \in Row :
    /\ F[x] = Line(key, t)
    /\ \A y \in Seq(R) : ReadEntry(Put(m, s, W[y]), Header(s), key, Trim(t)) = Put(m, s, W[Add(y, x)])

WholeTo(m, s, F, W, p) == ReadLines(Then(s, m, W[<<>>]), Printed(Image(p, F))) = Then(s, m, W[p])

LEMMA WholeRead ==
  ASSUME NEW m, IsSum(m), NEW s \in Field9, NEW S, NEW R \in SUBSET S, NEW F \in [S -> Entry],
         NEW key \in Keys, NEW W, Whole(m, s, R, F, key, W), NEW p \in Seq(R)
  PROVE  WholeTo(m, s, F, W, p)
<1>0. PICK G : G = [q \in Seq(R) |-> {Then(s, m, W[q])}]
  OBVIOUS
<1>1. \A q \in Seq(R) : G[q] = {Then(s, m, W[q])}
  BY <1>0
<1>2. ASSUME NEW q \in Seq(R), NEW x \in R, NEW st \in G[q]
      PROVE  ReadLines(st, Split(F[x], "\n")) \in G[Add(q, x)]
  <2>1. PICK t \in Row :
          /\ F[x] = Line(key, t)
          /\ \A y \in Seq(R) : ReadEntry(Put(m, s, W[y]), Header(s), key, Trim(t)) = Put(m, s, W[Add(y, x)])
    BY DEF Whole
  <2>2. Add(q, x) \in Seq(R)
    BY AddType
  <2>3. PICK a, b : a = Put(m, s, W[q]) /\ b = Put(m, s, W[Add(q, x)]) /\ IsSum(b)
    BY PutIs
  <2>4. b = ReadEntry(a, Header(s), key, Trim(t))
    BY <2>1, <2>3
  <2>5. ReadLines(At(Header(s), a), Split(Line(key, t), "\n")) = At(Header(s), b)
    BY <2>3, <2>4, RowRead
  <2>6. st = At(Header(s), a) /\ G[Add(q, x)] = {At(Header(s), b)}
    BY <1>1, <2>2, <2>3 DEF Then
  <2> QED
    BY <2>1, <2>5, <2>6
<1>3. Itemwise(R, F, G)
  BY <1>2 DEF Itemwise
<1>4. TakesItems(R, F, G)
  BY <1>3, TakeItems
<1>5. Then(s, m, W[<<>>]) \in G[<<>>]
  BY <1>1, EmptySeq
<1>6. PICK z : z = Then(s, m, W[<<>>])
  OBVIOUS
<1>7. ReadLines(z, Printed(Image(p, F))) \in G[p]
  BY <1>4, <1>5, <1>6 DEF TakesItems
<1> QED
  BY <1>1, <1>6, <1>7 DEF WholeTo

LEMMA CleanRows ==
  /\ Cell \subseteq Row /\ Seq(Cell) \subseteq Seq(Row) /\ Tidy \subseteq Row /\ Seq(Tidy) \subseteq Seq(Row) /\ <<>> \in Row
<1>1. Cell \subseteq Row /\ Tidy \subseteq Row
  BY CellIs, TidyIs
<1> QED
  BY <1>1, SeqMonotonic, RowNone

(* The lists of [graph].                                                   *)
LEMMA NodesRead ==
  ASSUME NEW m, IsSum(m), NEW p \in Seq(CleanNode), NEW n, NEW e, NEW s, NEW c, NEW k, NEW l
  PROVE  ReadLines(Then("graph", m, Six(<<>>, e, s, c, k, l)), Printed(LinesOf(p, NodeLine)))
           = Then("graph", m, Six(p, e, s, c, k, l))
<1>1. CleanNode \in SUBSET LooseNode /\ p \in Seq(LooseNode)
  <2>1. CleanNode \subseteq LooseNode
    BY CleanRows DEF CleanNode, LooseNode
  <2> QED
    BY <2>1, SeqMonotonic
<1>2. PICK S, R, F : S = LooseNode /\ R = CleanNode /\ F = NodeF
  OBVIOUS
<1>3. R \in SUBSET S /\ F \in [S -> Entry] /\ "graph" \in Field9 /\ "gnode" \in Keys
  BY <1>1, <1>2, LineTypes DEF Field9, Keys, Key
<1>4. PICK W : W = [y \in Seq(R) |-> Six(y, e, s, c, k, l)]
  OBVIOUS
<1>5. ASSUME NEW x \in R
      PROVE  \E t \in Row :
               /\ F[x] = Line("gnode", t)
               /\ \A y \in Seq(R) :
                    ReadEntry(Put(m, "graph", W[y]), Header("graph"), "gnode", Trim(t)) = Put(m, "graph", W[Add(y, x)])
  <2>1. PICK t \in Row : NodeLine(x) = Line("gnode", t) /\ Trim(t) = t /\ Trim(Split(t, "\t")[1]) # <<>> /\ ReadNode(t) = x
    BY <1>2, NodeText
  <2>2. F[x] = Line("gnode", t)
    BY <1>2, <1>3, <2>1 DEF NodeF
  <2>3. ASSUME NEW y \in Seq(R)
        PROVE  ReadEntry(Put(m, "graph", W[y]), Header("graph"), "gnode", Trim(t)) = Put(m, "graph", W[Add(y, x)])
    <3>1. W[y] = Six(y, e, s, c, k, l) /\ W[Add(y, x)] = Six(Add(y, x), e, s, c, k, l)
      BY <1>4, AddType
    <3>2. GraphTakes(m, "gnode", t, Six(y, e, s, c, k, l), Six(Add(y, x), e, s, c, k, l))
      BY <2>1, GraphTake
    <3> QED
      BY <2>1, <3>1, <3>2 DEF GraphTakes
  <2> QED
    BY <2>2, <2>3
<1>6. ReadLines(Then("graph", m, W[<<>>]), Printed(Image(p, F))) = Then("graph", m, W[p])
  <2>1. Whole(m, "graph", R, F, "gnode", W)
    BY <1>5 DEF Whole
  <2>2. p \in Seq(R)
    BY <1>2
  <2>3. WholeTo(m, "graph", F, W, p)
    BY <1>3, <2>1, <2>2, WholeRead
  <2> QED
    BY <2>3 DEF WholeTo
<1>7. W[<<>>] = Six(<<>>, e, s, c, k, l) /\ W[p] = Six(p, e, s, c, k, l)
  BY <1>2, <1>4, EmptySeq
<1>8. LinesOf(p, NodeLine) = Image(p, F)
  BY <1>1, <1>2, LinesAre
<1> QED
  BY <1>6, <1>7, <1>8

LEMMA EdgesRead ==
  ASSUME NEW m, IsSum(m), NEW p \in Seq(CleanEdge), NEW n, NEW e, NEW s, NEW c, NEW k, NEW l
  PROVE  ReadLines(Then("graph", m, Six(n, <<>>, s, c, k, l)), Printed(LinesOf(p, EdgeLine)))
           = Then("graph", m, Six(n, p, s, c, k, l))
<1>1. CleanEdge \in SUBSET LooseEdge /\ p \in Seq(LooseEdge)
  <2>1. CleanEdge \subseteq LooseEdge
    BY CleanRows DEF CleanEdge, LooseEdge
  <2> QED
    BY <2>1, SeqMonotonic
<1>2. PICK S, R, F : S = LooseEdge /\ R = CleanEdge /\ F = EdgeF
  OBVIOUS
<1>3. R \in SUBSET S /\ F \in [S -> Entry] /\ "graph" \in Field9 /\ "gfk" \in Keys
  BY <1>1, <1>2, LineTypes DEF Field9, Keys, Key
<1>4. PICK W : W = [y \in Seq(R) |-> Six(n, y, s, c, k, l)]
  OBVIOUS
<1>5. ASSUME NEW x \in R
      PROVE  \E t \in Row :
               /\ F[x] = Line("gfk", t)
               /\ \A y \in Seq(R) :
                    ReadEntry(Put(m, "graph", W[y]), Header("graph"), "gfk", Trim(t)) = Put(m, "graph", W[Add(y, x)])
  <2>1. PICK t \in Row : EdgeLine(x) = Line("gfk", t) /\ Trim(t) = t /\ Len(Split(t, "\t")) >= 3 /\ ReadEdge(t) = x
    BY <1>2, EdgeText
  <2>2. F[x] = Line("gfk", t)
    BY <1>2, <1>3, <2>1 DEF EdgeF
  <2>3. ASSUME NEW y \in Seq(R)
        PROVE  ReadEntry(Put(m, "graph", W[y]), Header("graph"), "gfk", Trim(t)) = Put(m, "graph", W[Add(y, x)])
    <3>1. W[y] = Six(n, y, s, c, k, l) /\ W[Add(y, x)] = Six(n, Add(y, x), s, c, k, l)
      BY <1>4, AddType
    <3>2. GraphTakes(m, "gfk", t, Six(n, y, s, c, k, l), Six(n, Add(y, x), s, c, k, l))
      BY <2>1, GraphTake
    <3> QED
      BY <2>1, <3>1, <3>2 DEF GraphTakes
  <2> QED
    BY <2>2, <2>3
<1>6. ReadLines(Then("graph", m, W[<<>>]), Printed(Image(p, F))) = Then("graph", m, W[p])
  <2>1. Whole(m, "graph", R, F, "gfk", W)
    BY <1>5 DEF Whole
  <2>2. p \in Seq(R)
    BY <1>2
  <2>3. WholeTo(m, "graph", F, W, p)
    BY <1>3, <2>1, <2>2, WholeRead
  <2> QED
    BY <2>3 DEF WholeTo
<1>7. W[<<>>] = Six(n, <<>>, s, c, k, l) /\ W[p] = Six(n, p, s, c, k, l)
  BY <1>2, <1>4, EmptySeq
<1>8. LinesOf(p, EdgeLine) = Image(p, F)
  BY <1>1, <1>2, LinesAre
<1> QED
  BY <1>6, <1>7, <1>8

LEMMA SupersRead ==
  ASSUME NEW m, IsSum(m), NEW p \in Seq(CleanSuper), NEW n, NEW e, NEW s, NEW c, NEW k, NEW l
  PROVE  ReadLines(Then("graph", m, Six(n, e, <<>>, c, k, l)), Printed(LinesOf(p, SuperLine)))
           = Then("graph", m, Six(n, e, p, c, k, l))
<1>1. CleanSuper \in SUBSET [child : Row, super : Row] /\ p \in Seq([child : Row, super : Row])
  <2>1. CleanSuper \subseteq [child : Row, super : Row]
    BY CleanRows DEF CleanSuper
  <2> QED
    BY <2>1, SeqMonotonic
<1>2. PICK S, R, F : S = [child : Row, super : Row] /\ R = CleanSuper /\ F = SuperF
  OBVIOUS
<1>3. R \in SUBSET S /\ F \in [S -> Entry] /\ "graph" \in Field9 /\ "ginh" \in Keys
  BY <1>1, <1>2, LineTypes DEF Field9, Keys, Key
<1>4. PICK W : W = [y \in Seq(R) |-> Six(n, e, y, c, k, l)]
  OBVIOUS
<1>5. ASSUME NEW x \in R
      PROVE  \E t \in Row :
               /\ F[x] = Line("ginh", t)
               /\ \A y \in Seq(R) :
                    ReadEntry(Put(m, "graph", W[y]), Header("graph"), "ginh", Trim(t)) = Put(m, "graph", W[Add(y, x)])
  <2>1. PICK t \in Row : SuperLine(x) = Line("ginh", t) /\ Trim(t) = t /\ Len(Split(t, "\t")) >= 2
                        /\ [child |-> Trim(Split(t, "\t")[1]), super |-> Trim(Split(t, "\t")[2])] = x
    BY <1>2, SuperText
  <2>2. F[x] = Line("ginh", t)
    BY <1>2, <1>3, <2>1 DEF SuperF
  <2>3. ASSUME NEW y \in Seq(R)
        PROVE  ReadEntry(Put(m, "graph", W[y]), Header("graph"), "ginh", Trim(t)) = Put(m, "graph", W[Add(y, x)])
    <3>1. W[y] = Six(n, e, y, c, k, l) /\ W[Add(y, x)] = Six(n, e, Add(y, x), c, k, l)
      BY <1>4, AddType
    <3>2. GraphTakes(m, "ginh", t, Six(n, e, y, c, k, l), Six(n, e, Add(y, x), c, k, l))
      BY <2>1, GraphTake
    <3> QED
      BY <2>1, <3>1, <3>2 DEF GraphTakes
  <2> QED
    BY <2>2, <2>3
<1>6. ReadLines(Then("graph", m, W[<<>>]), Printed(Image(p, F))) = Then("graph", m, W[p])
  <2>1. Whole(m, "graph", R, F, "ginh", W)
    BY <1>5 DEF Whole
  <2>2. p \in Seq(R)
    BY <1>2
  <2>3. WholeTo(m, "graph", F, W, p)
    BY <1>3, <2>1, <2>2, WholeRead
  <2> QED
    BY <2>3 DEF WholeTo
<1>7. W[<<>>] = Six(n, e, <<>>, c, k, l) /\ W[p] = Six(n, e, p, c, k, l)
  BY <1>2, <1>4, EmptySeq
<1>8. LinesOf(p, SuperLine) = Image(p, F)
  BY <1>1, <1>2, LinesAre
<1> QED
  BY <1>6, <1>7, <1>8

LEMMA CyclesRead ==
  ASSUME NEW m, IsSum(m), NEW p \in Seq(CleanCycle), NEW n, NEW e, NEW s, NEW c, NEW k, NEW l
  PROVE  ReadLines(Then("graph", m, Six(n, e, s, <<>>, k, l)), Printed(LinesOf(p, CycleLine)))
           = Then("graph", m, Six(n, e, s, p, k, l))
<1>1. CleanCycle \in SUBSET Seq(Row) /\ p \in Seq(Seq(Row))
  <2>1. CleanCycle \subseteq Seq(Row)
    BY CleanRows DEF CleanCycle
  <2> QED
    BY <2>1, SeqMonotonic
<1>2. PICK S, R, F : S = Seq(Row) /\ R = CleanCycle /\ F = CycleF
  OBVIOUS
<1>3. R \in SUBSET S /\ F \in [S -> Entry] /\ "graph" \in Field9 /\ "cycle" \in Keys
  BY <1>1, <1>2, LineTypes DEF Field9, Keys, Key
<1>4. PICK W : W = [y \in Seq(R) |-> Six(n, e, s, y, k, l)]
  OBVIOUS
<1>5. ASSUME NEW x \in R
      PROVE  \E t \in Row :
               /\ F[x] = Line("cycle", t)
               /\ \A y \in Seq(R) :
                    ReadEntry(Put(m, "graph", W[y]), Header("graph"), "cycle", Trim(t)) = Put(m, "graph", W[Add(y, x)])
  <2>1. PICK t \in Row : CycleLine(x) = Line("cycle", t) /\ Trim(t) = t /\ ReadCycle(t) = x
    BY <1>2, CycleText
  <2>2. F[x] = Line("cycle", t)
    BY <1>2, <1>3, <2>1 DEF CycleF
  <2>3. ASSUME NEW y \in Seq(R)
        PROVE  ReadEntry(Put(m, "graph", W[y]), Header("graph"), "cycle", Trim(t)) = Put(m, "graph", W[Add(y, x)])
    <3>1. W[y] = Six(n, e, s, y, k, l) /\ W[Add(y, x)] = Six(n, e, s, Add(y, x), k, l)
      BY <1>4, AddType
    <3>2. GraphTakes(m, "cycle", t, Six(n, e, s, y, k, l), Six(n, e, s, Add(y, x), k, l))
      BY <2>1, GraphTake
    <3> QED
      BY <2>1, <3>1, <3>2 DEF GraphTakes
  <2> QED
    BY <2>2, <2>3
<1>6. ReadLines(Then("graph", m, W[<<>>]), Printed(Image(p, F))) = Then("graph", m, W[p])
  <2>1. Whole(m, "graph", R, F, "cycle", W)
    BY <1>5 DEF Whole
  <2>2. p \in Seq(R)
    BY <1>2
  <2>3. WholeTo(m, "graph", F, W, p)
    BY <1>3, <2>1, <2>2, WholeRead
  <2> QED
    BY <2>3 DEF WholeTo
<1>7. W[<<>>] = Six(n, e, s, <<>>, k, l) /\ W[p] = Six(n, e, s, p, k, l)
  BY <1>2, <1>4, EmptySeq
<1>8. LinesOf(p, CycleLine) = Image(p, F)
  BY <1>1, <1>2, LinesAre
<1> QED
  BY <1>6, <1>7, <1>8

(* A graph whose names the parser does not separate, but for its levels.   *)
CleanGraph ==
  {g \in LooseGraph : /\ g.nodes \in Seq(CleanNode) /\ g.edges \in Seq(CleanEdge)
                      /\ g.supers \in Seq(CleanSuper) /\ g.cycles \in Seq(CleanCycle)
                      /\ g.skipped \in Seq(Tidy)}

(* One line of [graph].                                                    *)
LEMMA GraphLine ==
  ASSUME NEW m, IsSum(m), NEW key \in Keys, NEW t \in Row, Trim(t) = t, NEW u, NEW v, GraphTakes(m, key, t, u, v)
  PROVE  /\ <<Line(key, t)>> \in Seq(Entry)
         /\ ReadLines(Then("graph", m, u), Printed(<<Line(key, t)>>)) = Then("graph", m, v)
<1>1. PICK a, b : a = Put(m, "graph", u) /\ b = Put(m, "graph", v) /\ IsSum(b)
  BY PutIs DEF Field9
<1>2. b = ReadEntry(a, Header("graph"), key, Trim(t))
  BY <1>1 DEF GraphTakes
<1>3. ReadLines(At(Header("graph"), a), Split(Line(key, t), "\n")) = At(Header("graph"), b)
  BY <1>1, <1>2, RowRead
<1>4. PICK x \in Entry : x = Line(key, t)
  BY EntryIs
<1>5. ReadLines(At(Header("graph"), a), Printed(<<x>>)) = At(Header("graph"), b)
  BY <1>3, <1>4, ChainRead
<1> QED
  BY <1>1, <1>4, <1>5, One DEF Then

LEMMA CycleLines ==
  ASSUME NEW m, IsSum(m), NEW cs \in Seq(CleanCycle), NEW l, NEW a,
         a = IF cs = <<>> THEN <<Line("cycles", NoneMarker)>> ELSE LinesOf(cs, CycleLine)
  PROVE  ReadLines(Then("graph", m, Six(<<>>, <<>>, <<>>, <<>>, <<>>, l)), Printed(a))
           = Then("graph", m, Six(<<>>, <<>>, <<>>, cs, <<>>, l))
<1>1. CASE cs = <<>>
  <2>1. NoneMarker \in Row /\ Trim(NoneMarker) = NoneMarker
    BY NoneIs, InkIs
  <2>2. "cycles" \in Keys
    BY DEF Keys
  <2>3. PICK u : u = Six(<<>>, <<>>, <<>>, <<>>, <<>>, l)
    OBVIOUS
  <2>4. GraphTakes(m, "cycles", NoneMarker, u, u)
    BY <2>3, GraphTake
  <2>5. ReadLines(Then("graph", m, u), Printed(<<Line("cycles", NoneMarker)>>)) = Then("graph", m, u)
    BY <2>1, <2>2, <2>4, GraphLine
  <2> QED
    BY <1>1, <2>3, <2>5
<1>2. CASE cs # <<>>
  <2>1. PICK e : e = <<>>
    OBVIOUS
  <2>2. ReadLines(Then("graph", m, Six(e, e, e, <<>>, e, l)), Printed(LinesOf(cs, CycleLine)))
          = Then("graph", m, Six(e, e, e, cs, e, l))
    BY CyclesRead
  <2> QED
    BY <1>2, <2>1, <2>2
<1> QED
  BY <1>1, <1>2

LEMMA SkippedLine ==
  ASSUME NEW m, IsSum(m), NEW cs, NEW p \in Seq(Tidy), NEW l
  PROVE  ReadLines(Then("graph", m, Six(<<>>, <<>>, <<>>, cs, <<>>, l)),
                   Printed(<<Line("skipped_classes", OrNone(JoinList(p)))>>))
           = Then("graph", m, Six(<<>>, <<>>, <<>>, cs, p, l))
<1>1. PICK t \in Row : t = OrNone(JoinList(p)) /\ Trim(t) = t /\ ParseList(t) = p
  BY SkippedText
<1>2. "skipped_classes" \in Keys
  BY DEF Keys, Key
<1>3. PICK e : e = <<>>
  OBVIOUS
<1>4. GraphTakes(m, "skipped_classes", t, Six(e, e, e, cs, e, l), Six(e, e, e, cs, ParseList(t), l))
  BY GraphTake
<1>5. PICK u, v : u = Six(e, e, e, cs, e, l) /\ v = Six(e, e, e, cs, p, l)
  OBVIOUS
<1>6. GraphTakes(m, "skipped_classes", t, u, v)
  BY <1>1, <1>4, <1>5
<1>7. ReadLines(Then("graph", m, u), Printed(<<Line("skipped_classes", t)>>)) = Then("graph", m, v)
  BY <1>1, <1>2, <1>6, GraphLine
<1> QED
  BY <1>1, <1>3, <1>5, <1>7

(* [graph] is read as it was, into what [plan] has left.                   *)
LEMMA GraphRead ==
  ASSUME NEW m, IsSum(m), NEW l, m.graph = Six(<<>>, <<>>, <<>>, <<>>, <<>>, l), NEW g \in CleanGraph
  PROVE  ReadLines(At(Header("graph"), m), Printed(GraphLines(g)))
           = Then("graph", m, Six(g.nodes, g.edges, g.supers, g.cycles, g.skipped, l))
<1>1. PICK n \in Seq(CleanNode), e \in Seq(CleanEdge), s \in Seq(CleanSuper), c \in Seq(CleanCycle), k \in Seq(Tidy) :
        n = g.nodes /\ e = g.edges /\ s = g.supers /\ c = g.cycles /\ k = g.skipped
  BY DEF CleanGraph
<1>2. /\ n \in Seq(LooseNode) /\ e \in Seq(LooseEdge) /\ s \in Seq([child : Row, super : Row])
      /\ c \in Seq(Seq(Row)) /\ k \in Seq(Row)
  BY <1>1 DEF CleanGraph, LooseGraph
<1>3. PICK a \in Seq(Entry) : a = IF c = <<>> THEN <<Line("cycles", NoneMarker)>> ELSE LinesOf(c, CycleLine)
  <2>1. "cycles" \in Keys
    BY DEF Keys
  <2>2. <<Line("cycles", NoneMarker)>> \in Seq(Entry)
    BY <2>1, SingleEntry, Separators
  <2>3. LinesOf(c, CycleLine) \in Seq(Entry)
    BY <1>2, LinesEntries
  <2> QED
    BY <2>2, <2>3
<1>4. PICK b \in Seq(Entry) : b = <<Line("skipped_classes", OrNone(JoinList(k)))>>
  <2>1. "skipped_classes" \in Keys
    BY DEF Keys, Key
  <2>2. OrNone(JoinList(k)) \in Row
    BY <1>2, OrNoneType, JoinListType
  <2> QED
    BY <2>1, <2>2, SingleEntry
<1>5. PICK x \in Seq(Entry) : x = LinesOf(n, NodeLine)
  BY <1>2, LinesEntries
<1>6. PICK y \in Seq(Entry) : y = LinesOf(e, EdgeLine)
  BY <1>2, LinesEntries
<1>7. PICK z \in Seq(Entry) : z = LinesOf(s, SuperLine)
  BY <1>2, LinesEntries
<1>8. PICK ab \in Seq(Entry) : ab = Cat(a, b)
  BY CatType
<1>9. PICK abx \in Seq(Entry) : abx = Cat(ab, x)
  BY CatType
<1>10. PICK abxy \in Seq(Entry) : abxy = Cat(abx, y)
  BY CatType
<1>11. GraphLines(g) = Cat(abxy, z)
  BY <1>1, <1>3, <1>4, <1>5, <1>6, <1>7, <1>8, <1>9, <1>10 DEF GraphLines, Cat
<1>12. PICK s0, s1, s2, s3, s4, s5 :
         /\ s0 = Then("graph", m, Six(<<>>, <<>>, <<>>, <<>>, <<>>, l))
         /\ s1 = Then("graph", m, Six(<<>>, <<>>, <<>>, c, <<>>, l))
         /\ s2 = Then("graph", m, Six(<<>>, <<>>, <<>>, c, k, l))
         /\ s3 = Then("graph", m, Six(n, <<>>, <<>>, c, k, l))
         /\ s4 = Then("graph", m, Six(n, e, <<>>, c, k, l))
         /\ s5 = Then("graph", m, Six(n, e, s, c, k, l))
  OBVIOUS
<1>13. ReadLines(s0, Printed(a)) = s1
  BY <1>3, <1>12, CycleLines
<1>14. ReadLines(s1, Printed(b)) = s2
  BY <1>4, <1>12, SkippedLine
<1>15. ReadLines(s2, Printed(x)) = s3
  BY <1>5, <1>12, NodesRead
<1>16. ReadLines(s3, Printed(y)) = s4
  BY <1>6, <1>12, EdgesRead
<1>17. ReadLines(s4, Printed(z)) = s5
  BY <1>7, <1>12, SupersRead
<1>18. ReadLines(s0, Printed(ab)) = s2
  BY <1>8, <1>13, <1>14, ChainRead
<1>19. ReadLines(s0, Printed(abx)) = s3
  BY <1>9, <1>15, <1>18, ChainRead
<1>20. ReadLines(s0, Printed(abxy)) = s4
  BY <1>10, <1>16, <1>19, ChainRead
<1>21. ReadLines(s0, Printed(Cat(abxy, z))) = s5
  BY <1>17, <1>20, ChainRead
<1>22. s0 = At(Header("graph"), m)
  <2>1. Put(m, "graph", m.graph) = m
    BY PutIs DEF Field9
  <2> QED
    BY <1>12, <2>1 DEF Then
<1> QED
  BY <1>1, <1>11, <1>12, <1>21, <1>22

-----------------------------------------------------------------------------
(* [plan]: the levels.                                                     *)

(* [plan]: the levels of the schedule.                                     *)
LevelTexts(l) == [i \in DOMAIN l |-> JoinList(l[i])]
LevelsOf(t) == [i \in DOMAIN Split(t, "|") |-> ParseList(Split(t, "|")[i])]

LEMMA BarSep ==
  \E sep \in Seq(Plainly) :
    /\ sep = <<" ", "|", " ">>
    /\ \E pre \in Blanks(Free(Plainly, Bar)) : sep = Cat(Add(pre, Bar), pre)
<1>1. PICK A : A = Plainly
  OBVIOUS
<1>2. PICK c \in A, b \in A : c = Bar /\ b = " "
  BY <1>1, PlainlyMarks
<1>3. b \in Free(A, Bar) \cap Blank
  BY <1>1, <1>2, PlainlyMarks DEF Blank
<1>4. PICK pre \in Blanks(Free(A, Bar)) : pre = <<b>>
  BY <1>3, One DEF Blanks
<1>5. <<b, c>> \in Seq(A) /\ <<b, c>> = Add(pre, c)
  BY <1>4, PairIs
<1>6. PICK sep \in Seq(A) : sep = <<b, c, b>> /\ sep = Add(<<b, c>>, b)
  BY TripleSeq
<1>7. sep = Cat(Add(pre, c), pre)
  BY <1>4, <1>5, <1>6, AddIs
<1>8. sep = <<" ", "|", " ">>
  BY <1>2, <1>6 DEF Bar
<1> QED
  BY <1>1, <1>2, <1>7, <1>8

LEMMA LevelParts ==
  ASSUME NEW l \in Seq(CleanCycle)
  PROVE  /\ LevelTexts(l) \in Seq(Solid(Plainly)) /\ LevelTexts(l) \in Seq(Seq(Free(Plainly, Bar)))
         /\ LevelTexts(l) \in Seq(Seq(Plainly)) /\ DOMAIN LevelTexts(l) = 1 .. Len(l)
         /\ Len(LevelTexts(l)) = Len(l) /\ Trimmed(LevelTexts(l)) = LevelTexts(l)
         /\ \A i \in 1 .. Len(l) : /\ l[i] \in Seq(Tidy) /\ LevelTexts(l)[i] = JoinList(l[i])
                                   /\ LevelTexts(l)[i] \notin {NoneMarker, Placeholder}
<1>1. DOMAIN l = 1 .. Len(l) /\ Len(l) \in Nat /\ \A i \in 1 .. Len(l) : l[i] \in CleanCycle
  BY ElementOfSeq, LenProperties
<1>2. \A i \in 1 .. Len(l) : l[i] \in Seq(Tidy) /\ l[i] # <<>>
  BY <1>1 DEF CleanCycle
<1>3. \A i \in 1 .. Len(l) : /\ JoinList(l[i]) \in Solid(Plainly) /\ JoinList(l[i]) \in Seq(Free(Plainly, Bar))
                             /\ JoinList(l[i]) \in Seq(Plainly) /\ Tight(JoinList(l[i]))
                             /\ JoinList(l[i]) \notin {NoneMarker, Placeholder}
  BY <1>2, ListText
<1>4. PICK p : p = LevelTexts(l)
  OBVIOUS
<1>5. p = [i \in 1 .. Len(l) |-> JoinList(l[i])]
  BY <1>1, <1>4 DEF LevelTexts
<1>6. p \in Seq(Solid(Plainly)) /\ p \in Seq(Seq(Free(Plainly, Bar))) /\ p \in Seq(Seq(Plainly))
  BY <1>1, <1>3, <1>5
<1>7. DOMAIN p = 1 .. Len(l) /\ Len(p) = Len(l)
  BY <1>1, <1>5
<1>8. \A i \in 1 .. Len(p) : Tight(p[i])
  BY <1>3, <1>5, <1>7
<1>9. Trimmed(p) = p
  BY <1>6, <1>8, TrimmedSame
<1> QED
  BY <1>2, <1>3, <1>4, <1>5, <1>6, <1>7, <1>9

LEMMA ParseTrimmed ==
  ASSUME NEW t \in Row
  PROVE  ParseList(t) = ParseList(Trim(t))
<1>1. Trim(Trim(t)) = Trim(t)
  <2>1. Trim(t) \in Row /\ Tight(Trim(t))
    BY RowType
  <2> QED
    BY <2>1, TrimTight DEF Row
<1> QED
  BY <1>1 DEF ParseList

LEMMA LevelsText ==
  ASSUME NEW l \in Seq(CleanCycle), l # <<>>
  PROVE  \E t \in Row : /\ t = OrNone(Join(LevelTexts(l), <<" ", "|", " ">>)) /\ Trim(t) = t
                        /\ t \notin {NoneMarker, Placeholder}
                        /\ Filled(LevelsOf(t)) = l
<1>1. PICK sep \in Seq(Plainly), pre \in Blanks(Free(Plainly, Bar)) :
         sep = <<" ", "|", " ">> /\ sep = Cat(Add(pre, Bar), pre)
  BY BarSep
<1>2. PICK p \in Seq(Solid(Plainly)) :
        /\ p = LevelTexts(l) /\ p \in Seq(Seq(Free(Plainly, Bar))) /\ p \in Seq(Seq(Plainly))
        /\ DOMAIN p = 1 .. Len(l) /\ Len(p) = Len(l) /\ Trimmed(p) = p
        /\ \A i \in 1 .. Len(l) : /\ l[i] \in Seq(Tidy) /\ p[i] = JoinList(l[i])
                                  /\ p[i] \notin {NoneMarker, Placeholder}
  BY LevelParts
<1>3. Len(l) \in Nat /\ DOMAIN l = 1 .. Len(l) /\ 1 \in 1 .. Len(l)
  <2>1. Len(l) \in Nat /\ DOMAIN l = 1 .. Len(l) /\ Len(l) # 0
    BY EmptySeq, LenProperties
  <2> QED
    BY <2>1
<1>4. p # <<>>
  BY <1>2, <1>3
<1>5. PICK t \in Solid(Plainly) : t = Join(p, sep)
  BY <1>4, JoinSolid
<1>6. t \in Seq(Plainly) /\ t # <<>> /\ Trim(t) = t /\ t \in Row
  BY <1>5, SolidIs, PlainlyIs
<1>7. t = OrNone(Join(LevelTexts(l), <<" ", "|", " ">>))
  BY <1>1, <1>2, <1>5, <1>6 DEF OrNone
<1>8. Trimmed(Split(t, Bar)) = p
  <2>1. PICK A, c : A = Plainly /\ c = Bar
    OBVIOUS
  <2>2. c \in A /\ pre \in Blanks(Free(A, c)) /\ sep \in Seq(A) /\ sep = Cat(Add(pre, c), pre)
        /\ p \in Seq(Seq(Free(A, c)))
    BY <1>1, <1>2, <2>1, PlainlyMarks
  <2>3. \A lead \in Blanks(Free(A, c)) : \A q \in Seq(Seq(Free(A, c))) :
           q # <<>> => Trimmed(Split(Cat(lead, Join(q, sep)), c)) = Trimmed(q)
    BY <2>2, JoinParts
  <2>4. PICK e \in Blanks(Free(A, c)) : e = <<>>
    BY BlanksType
  <2>5. Cat(e, t) = t
    BY <1>6, <2>4, CatNone
  <2> QED
    BY <1>2, <1>4, <1>5, <2>1, <2>2, <2>3, <2>4, <2>5
<1>9. PICK parts \in Seq(Row) : parts = Split(t, "|")
  BY <1>6, RowSplit
<1>10. /\ DOMAIN parts = 1 .. Len(l)
       /\ \A i \in 1 .. Len(l) : parts[i] \in Row /\ Trim(parts[i]) = p[i]
  <2>1. Trimmed(parts) = p
    BY <1>8, <1>9 DEF Bar
  <2>2. parts \in Seq(Seq(Free(Token, "\n")))
    BY DEF Row
  <2>3. Len(parts) = Len(p) /\ \A i \in 1 .. Len(parts) : Trim(parts[i]) = p[i]
    BY <2>1, <2>2, TrimmedIs
  <2>4. DOMAIN parts = 1 .. Len(parts) /\ \A i \in 1 .. Len(parts) : parts[i] \in Row
    BY LenProperties, ElementOfSeq
  <2> QED
    BY <1>2, <2>3, <2>4
<1>11. \A i \in 1 .. Len(l) : ParseList(parts[i]) = l[i]
  <2> SUFFICES ASSUME NEW i \in 1 .. Len(l) PROVE ParseList(parts[i]) = l[i]
    OBVIOUS
  <2>1. parts[i] \in Row /\ Trim(parts[i]) = JoinList(l[i]) /\ l[i] \in Seq(Tidy)
    BY <1>2, <1>10
  <2>2. ParseList(parts[i]) = ParseList(JoinList(l[i]))
    BY <2>1, ParseTrimmed
  <2> QED
    BY <2>1, <2>2, ListParsed
<1>12. LevelsOf(t) = l
  <2>1. LevelsOf(t) = [i \in 1 .. Len(l) |-> ParseList(parts[i])]
    BY <1>9, <1>10 DEF LevelsOf
  <2>2. l = [i \in 1 .. Len(l) |-> l[i]]
    BY <1>3
  <2> QED
    BY <1>11, <2>1, <2>2
<1>13. Filled(l) = l
  <2>1. Seq(Tidy) \ {<<>>} = CleanCycle
    BY DEF CleanCycle
  <2> QED
    BY <2>1, FilledSame
<1>14. t \notin {NoneMarker, Placeholder}
  <2> SUFFICES ASSUME t \in {NoneMarker, Placeholder} PROVE FALSE
    OBVIOUS
  <2>1. t \in Seq(Free(Plainly, Bar))
    <3>1. \A w \in {"(none)", "(placeholder)"} : w \in Free(Plainly, Bar)
      <4>1. "(none)" # Bar /\ "(placeholder)" # Bar
        BY DEF Bar
      <4>2. "(none)" \in Plainly /\ "(placeholder)" \in Plainly
        BY PlainlyMarks
      <4>3. \A w : w \in Plainly /\ w # Bar => w \in Free(Plainly, Bar)
        BY FreeType
      <4> QED
        BY <4>1, <4>2, <4>3
    <3> QED
      BY <3>1, One DEF NoneMarker, Placeholder
  <2>2. Split(t, "|") = <<t>>
    BY <2>1, SplitFree DEF Bar
  <2>3. parts[1] = t
    BY <1>9, <2>2
  <2>4. p[1] = t
    BY <1>3, <1>6, <1>10, <2>3
  <2> QED
    BY <1>2, <1>3, <2>4
<1> QED
  BY <1>6, <1>7, <1>12, <1>13, <1>14

(* What [plan] says of the levels.                                         *)
Levelled(d) == IF d.planned THEN d.graph.levels ELSE <<>>

LEMMA PlaceholderIs == Placeholder \in Row /\ Trim(Placeholder) = Placeholder /\ Placeholder # NoneMarker
<1>1. "(placeholder)" \in Plainly
  BY PlainlyMarks
<1>2. Placeholder \in Seq(Plainly)
  BY <1>1, One DEF Placeholder
<1>3. Placeholder # <<>> /\ Placeholder[1] = "(placeholder)" /\ Len(Placeholder) = 1 /\ Placeholder # NoneMarker
  BY DEF Placeholder, NoneMarker
<1>4. Tight(Placeholder)
  BY <1>3 DEF Tight, Blank
<1> QED
  BY <1>2, <1>3, <1>4, PlainlyIs, TrimTight

(* The order is read as it was, but when the file was written before it    *)
(* was made.                                                               *)
LEMMA PlanValue ==
  ASSUME NEW d, d.graph.levels \in Seq(CleanCycle), d.planned \in BOOLEAN
  PROVE  \E t \in Row :
           /\ PlanLines(d) = <<Line("planned_order", t)>> /\ Trim(t) = t
           /\ ~d.planned => t = Placeholder
           /\ \/ t \in {NoneMarker, Placeholder} /\ Levelled(d) = <<>>
              \/ t \notin {NoneMarker, Placeholder} /\ Filled(LevelsOf(t)) = Levelled(d)
<1>1. CASE ~d.planned
  <2>1. PlanLines(d) = <<Line("planned_order", Placeholder)>>
    BY <1>1 DEF PlanLines
  <2>2. Levelled(d) = <<>>
    BY <1>1 DEF Levelled
  <2> QED
    BY <2>1, <2>2, PlaceholderIs
<1>2. CASE d.planned
  <2>1. PICK l \in Seq(CleanCycle) : l = d.graph.levels
    OBVIOUS
  <2>2. PlanLines(d) = <<Line("planned_order", OrNone(Join(LevelTexts(l), <<" ", "|", " ">>)))>>
    BY <1>2, <2>1 DEF PlanLines, LevelTexts
  <2>3. Levelled(d) = l
    BY <1>2, <2>1 DEF Levelled
  <2>4. CASE l = <<>>
    <3>1. LevelTexts(l) = <<>>
      BY <2>4 DEF LevelTexts
    <3>2. Join(LevelTexts(l), <<" ", "|", " ">>) = <<>>
      BY <3>1, JoinNone
    <3>3. PlanLines(d) = <<Line("planned_order", NoneMarker)>>
      BY <2>2, <3>2 DEF OrNone
    <3>4. NoneMarker \in Row /\ Trim(NoneMarker) = NoneMarker
      BY NoneIs, InkIs
    <3> QED
      BY <1>2, <2>3, <2>4, <3>3, <3>4
  <2>5. CASE l # <<>>
    <3>1. PICK t \in Row :
            /\ t = OrNone(Join(LevelTexts(l), <<" ", "|", " ">>)) /\ Trim(t) = t
            /\ t \notin {NoneMarker, Placeholder} /\ Filled(LevelsOf(t)) = l
      BY <2>5, LevelsText
    <3>2. PlanLines(d) = <<Line("planned_order", t)>>
      BY <2>2, <3>1
    <3> QED
      BY <1>2, <2>3, <3>1, <3>2
  <2> QED
    BY <2>4, <2>5
<1> QED
  BY <1>1, <1>2

LEMMA PlanRead ==
  ASSUME NEW m, IsSum(m), m.graph = NoGraph, NEW d, d.graph.levels \in Seq(CleanCycle), d.planned \in BOOLEAN
  PROVE  ReadLines(At(Header("plan"), m), Printed(PlanLines(d)))
           = At(Header("plan"), Put(m, "graph", Six(<<>>, <<>>, <<>>, <<>>, <<>>, Levelled(d))))
<1>1. PICK t \in Row :
        /\ PlanLines(d) = <<Line("planned_order", t)>> /\ Trim(t) = t
        /\ \/ t \in {NoneMarker, Placeholder} /\ Levelled(d) = <<>>
           \/ t \notin {NoneMarker, Placeholder} /\ Filled(LevelsOf(t)) = Levelled(d)
  BY PlanValue
<1>2. PICK l : l = Levelled(d)
  OBVIOUS
<1>3. PICK n : n = Put(m, "graph", Six(<<>>, <<>>, <<>>, <<>>, <<>>, l)) /\ IsSum(n)
  BY PutIs DEF Field9
<1>4. "planned_order" \in Keys
  BY DEF Keys, Key
<1>5. n = ReadEntry(m, Header("plan"), "planned_order", t)
  <2>1. ReadEntry(m, Header("plan"), "planned_order", t) = ReadPlan(m, "planned_order", t)
    BY Dispatch
  <2>2. CASE t \in {NoneMarker, Placeholder}
    <3>1. ReadPlan(m, "planned_order", t) = m
      BY <2>2 DEF ReadPlan
    <3>2. l = <<>>
      BY <1>1, <1>2, <2>2
    <3>3. Six(<<>>, <<>>, <<>>, <<>>, <<>>, l) = NoGraph
      BY <3>2 DEF Six, NoGraph
    <3>4. Put(m, "graph", m.graph) = m
      BY PutIs DEF Field9
    <3> QED
      BY <1>3, <2>1, <3>1, <3>3, <3>4
  <2>3. CASE t \notin {NoneMarker, Placeholder}
    <3>1. ReadPlan(m, "planned_order", t) = [m EXCEPT !.graph.levels = Filled(LevelsOf(t))]
      BY <2>3 DEF ReadPlan, LevelsOf
    <3>2. Filled(LevelsOf(t)) = l
      BY <1>1, <1>2, <2>3
    <3>3. [m EXCEPT !.graph.levels = l] = Put(m, "graph", [m.graph EXCEPT !.levels = l])
      BY DEF Put
    <3>4. [m.graph EXCEPT !.levels = l] = Six(<<>>, <<>>, <<>>, <<>>, <<>>, l)
      BY DEF Six, NoGraph
    <3> QED
      BY <1>3, <2>1, <3>1, <3>2, <3>3, <3>4
  <2> QED
    BY <2>2, <2>3
<1>6. ReadLines(At(Header("plan"), m), Split(Line("planned_order", t), "\n")) = At(Header("plan"), n)
  BY <1>1, <1>3, <1>4, <1>5, RowRead
<1>7. PICK x \in Entry : x = Line("planned_order", t)
  BY <1>4, EntryIs
<1>8. ReadLines(At(Header("plan"), m), Printed(<<x>>)) = At(Header("plan"), n)
  BY <1>6, <1>7, ChainRead
<1> QED
  BY <1>1, <1>2, <1>3, <1>7, <1>8

-----------------------------------------------------------------------------
(* [plan] and [graph] in a whole manifest.                                 *)

(* The sections after [graph] leave the graph alone.                       *)
Elsewhere(h) == h # Header("plan") /\ h # Header("graph")

LEMMA LeavesGraph ==
  ASSUME NEW m, IsSum(m), NEW n, NEW s \in Field9 \ {"graph"}, \E v : n = Put(m, s, v)
  PROVE  n.graph = m.graph
BY PutIs DEF Field9

LEMMA EntryLeaves ==
  ASSUME NEW m, IsSum(m), NEW h, Elsewhere(h), NEW key, NEW val
  PROVE  ReadEntry(m, h, key, val).graph = m.graph
<1> DEFINE on(n) == n = m \/ \E s \in Field9 \ {"graph"} : \E v : n = Put(m, s, v)
<1>0. \A n : on(n) => n.graph = m.graph
  BY LeavesGraph
<1>1. on(ReadStrip(m, key, val))
  BY DEF ReadStrip, Put, Field9
<1>2. on(ReadLoad(m, key, val))
  BY DEF ReadLoad, Put, Field9
<1>3. on(ReadRebuild(m, key, val))
  BY DEF ReadRebuild, Put, Field9
<1>4. on(ReadValidate(m, key, val))
  BY DEF ReadValidate, Put, Field9
<1>5. on(ReadFkdefine(m, key, val))
  BY DEF ReadFkdefine, Put, Field9
<1>6. on(ReadStats(m, key, val))
  BY DEF ReadStats, Put, Field9
<1>7. on(ReadTriggers(m, key, val))
  BY DEF ReadTriggers, Put, Field9
<1>8. on(ReadPhases(m, key, val))
  BY DEF ReadPhases, Put, Field9
<1>9. on(m)
  OBVIOUS
<1>10. on(ReadEntry(m, h, key, val))
  <2> HIDE DEF on
  <2> QED
    BY <1>1, <1>2, <1>3, <1>4, <1>5, <1>6, <1>7, <1>8, <1>9 DEF ReadEntry, Elsewhere
<1> QED
  BY <1>0, <1>10

Graphed(hs, ph, pl, g) ==
  {st \in Readers(hs, ph, pl) : st.m.graph = g /\ Elsewhere(st.section)}

LEMMA GraphedStays ==
  ASSUME NEW hs, NEW ph, NEW pl, NEW g, NEW st \in Graphed(hs, ph, pl, g), NEW l \in Plain
  PROVE  ReadLine(st, l) \in Graphed(hs, ph, pl, g)
<1>1. st \in Readers(hs, ph, pl)
  BY DEF Graphed
<1>2. PICK h \in Text \ {Header("phases")}, m \in Sums(hs, ph, pl) : st = At(h, m)
  BY <1>1 DEF Readers
<1>3. m.graph = g /\ Elsewhere(h) /\ IsSum(m) /\ l \in Row
  BY <1>2, AtIs, SumsIs DEF Graphed, Loose, Plain
<1>4. ReadLine(st, l) \in Readers(hs, ph, pl)
  BY <1>1, PlainStays
<1>5. CASE Bracketed(l)
  <2>1. PICK x \in Astray : ReadLine(At(h, m), l) = At(x, m)
    BY <1>3, <1>5, BracketRead
  <2>2. Elsewhere(x)
    <3>1. "plan" \in Known /\ "graph" \in Known
      BY DEF Known, Section
    <3> QED
      BY <3>1 DEF Astray, Elsewhere
  <2> QED
    BY <1>2, <1>3, <1>4, <2>1, <2>2, AtIs DEF Graphed
<1>6. CASE ~Bracketed(l)
  <2>1. PICK n : n = ReadEntry(m, h, Left(l, ":")[1], Right(l, ":"))
    OBVIOUS
  <2>2. n.graph = g
    BY <1>3, <2>1, EntryLeaves
  <2>3. ReadLine(At(h, m), l) = At(h, m) \/ ReadLine(At(h, m), l) = At(h, n)
    BY <1>3, <1>6, <2>1, UnbracketedRead
  <2> QED
    BY <1>2, <1>3, <1>4, <2>2, <2>3, AtIs DEF Graphed
<1> QED
  BY <1>5, <1>6

(* A section after [graph] is read, or is not there.                       *)
Carries(st, g) == \E h, m : st = At(h, m) /\ IsSum(m) /\ m.graph = g

LEMMA PartCarries ==
  ASSUME NEW d, NEW s \in Known \ {"plan", "graph", "phases"}, NEW lines \in Seq(Entry),
         NEW hs, NEW ph, NEW pl, NEW st \in Readers(hs, ph, pl), NEW g, Carries(st, g)
  PROVE  Carries(ReadLines(st, Part(d, s, lines)), g)
<1>1. CASE ~Opens(d, s)
  BY <1>1, PartSkipped
<1>2. CASE Opens(d, s)
  <2>1. PICK h \in Text \ {Header("phases")}, m \in Sums(hs, ph, pl) : st = At(h, m)
    BY DEF Readers
  <2>2. m.graph = g
    <3>1. PICK y, v : st = At(y, v) /\ v.graph = g
      BY DEF Carries
    <3>2. st.m = v /\ st.m = m
      BY <2>1, <3>1, AtIs
    <3> QED
      BY <3>1, <3>2
  <2>3. PICK z : z = m.has \cup ({s} \cap Section)
    OBVIOUS
  <2>4. PICK n : n = Put(m, "has", z)
    OBVIOUS
  <2>5. n \in Sums(z, ph, pl) /\ n.graph = g
    BY <2>2, <2>4 DEF Put, Sums
  <2>6. PICK x \in Text \ {Header("phases")} : x = Header(s)
    BY HeaderIs, RowType
  <2>7. At(x, n) \in Readers(z, ph, pl)
    BY <2>5 DEF Readers
  <2>8. Elsewhere(x)
    BY <2>6, HeaderIs DEF Elsewhere
  <2>9. At(x, n) \in Graphed(z, ph, pl, g)
    BY <2>5, <2>7, <2>8, AtIs DEF Graphed
  <2>10. Printed(lines) \in Seq(Plain)
    BY PrintedType
  <2>11. ReadLines(At(x, n), Printed(lines)) \in Graphed(z, ph, pl, g)
    BY <2>9, <2>10, GraphedStays, TakeStays
  <2>12. ReadLines(st, Part(d, s, lines)) = ReadLines(At(x, n), Printed(lines))
    BY <1>2, <2>1, <2>3, <2>4, <2>6, PartOpened
  <2>13. PICK y \in Graphed(z, ph, pl, g) : y = ReadLines(st, Part(d, s, lines))
    BY <2>11, <2>12
  <2>14. PICK u \in Text \ {Header("phases")}, v \in Sums(z, ph, pl) : y = At(u, v)
    BY DEF Graphed, Readers
  <2>15. v.graph = g /\ IsSum(v)
    BY <2>14, AtIs, SumsIs DEF Graphed, Loose
  <2> QED
    BY <2>13, <2>14, <2>15 DEF Carries
<1> QED
  BY <1>1, <1>2

(* A graph that is read as it was, its levels too.                         *)
LevelGraph == {g \in CleanGraph : g.levels \in Seq(CleanCycle)}

(* What a reader makes of the graph of d.                                  *)
GraphOf(d) == Put(d.graph, "levels", Levelled(d))

LEMMA GraphOfIs ==
  ASSUME NEW d, d.graph \in LevelGraph
  PROVE  GraphOf(d) = Six(d.graph.nodes, d.graph.edges, d.graph.supers, d.graph.cycles, d.graph.skipped,
                          Levelled(d))
<1>1. PICK g \in LooseGraph : g = d.graph
  BY DEF LevelGraph, CleanGraph
<1>2. PICK l : l = Levelled(d)
  OBVIOUS
<1>3. [g EXCEPT !["levels"] = l] = Six(g.nodes, g.edges, g.supers, g.cycles, g.skipped, l)
  <2>1. g = Six(g.nodes, g.edges, g.supers, g.cycles, g.skipped, g.levels)
    BY DEF LooseGraph, Six
  <2>2. PICK n, e, s, c, k : n = g.nodes /\ e = g.edges /\ s = g.supers /\ c = g.cycles /\ k = g.skipped
    OBVIOUS
  <2>3. [Six(n, e, s, c, k, g.levels) EXCEPT !["levels"] = l] = Six(n, e, s, c, k, l)
    BY DEF Six
  <2> QED
    BY <2>1, <2>2, <2>3
<1> QED
  BY <1>1, <1>2, <1>3 DEF GraphOf, Put

(* [plan] and [graph].                                                     *)
LEMMA FrontRead ==
  ASSUME NEW d, Loose(d), d.phase \in PhaseName, d.planned \in BOOLEAN, d.graph \in LevelGraph,
         "graph" \notin d.has => d.graph = NoGraph,
         NEW a, a = ReadLines(At(<<>>, Nothing), Part(d, "plan", PlanLines(d))),
         NEW b, b = ReadLines(a, Part(d, "graph", GraphLines(d.graph)))
  PROVE  Carries(b, GraphOf(d))
<1>0. "plan" \in Known /\ "graph" \in Known /\ Opens(d, "plan") /\ IsSum(Nothing) /\ Nothing.graph = NoGraph
  BY NothingIs DEF Known, Section, Opens, Loose, Nothing
<1>1. PICK l : l = Levelled(d)
  OBVIOUS
<1>2. PICK m : m = Put(Nothing, "has", Nothing.has \cup ({"plan"} \cap Section)) /\ IsSum(m) /\ m.graph = NoGraph
  BY <1>0, PutIs DEF Field9
<1>3. PICK z : z = Six(<<>>, <<>>, <<>>, <<>>, <<>>, l)
  OBVIOUS
<1>4. PICK n : n = Put(m, "graph", z) /\ IsSum(n) /\ n.graph = z
  BY <1>2, PutIs DEF Field9
<1>5. a = At(Header("plan"), n)
  <2>1. a = ReadLines(At(Header("plan"), m), Printed(PlanLines(d)))
    <3>1. PICK x \in Seq(Entry) : x = PlanLines(d)
      BY PartsEntries
    <3>2. ReadLines(At(<<>>, Nothing), Part(d, "plan", x)) = ReadLines(At(Header("plan"), m), Printed(x))
      BY <1>0, <1>2, PartOpened
    <3> QED
      BY <3>1, <3>2
  <2>2. d.graph.levels \in Seq(CleanCycle)
    BY DEF LevelGraph
  <2> QED
    BY <1>1, <1>2, <1>3, <1>4, <2>1, <2>2, PlanRead
<1>6. CASE "graph" \notin d.has
  <2>1. ~Opens(d, "graph")
    BY <1>6 DEF Opens
  <2>2. b = a
    BY <2>1, PartSkipped
  <2>3. GraphOf(d) = z
    <3>1. d.graph = NoGraph
      BY <1>6
    <3>2. [NoGraph EXCEPT !["levels"] = l] = z
      BY <1>3 DEF NoGraph, Six
    <3> QED
      BY <1>1, <3>1, <3>2 DEF GraphOf, Put
  <2> QED
    BY <1>4, <1>5, <2>2, <2>3 DEF Carries
<1>7. CASE "graph" \in d.has
  <2>1. Opens(d, "graph")
    BY <1>7 DEF Opens
  <2>2. PICK v : v = Put(n, "has", n.has \cup ({"graph"} \cap Section)) /\ IsSum(v) /\ v.graph = z
    BY <1>4, PutIs DEF Field9
  <2>3. b = ReadLines(At(Header("graph"), v), Printed(GraphLines(d.graph)))
    <3>1. PICK x \in Seq(Entry) : x = GraphLines(d.graph)
      BY PartsEntries
    <3>2. ReadLines(At(Header("plan"), n), Part(d, "graph", x)) = ReadLines(At(Header("graph"), v), Printed(x))
      BY <1>0, <2>1, <2>2, PartOpened
    <3> QED
      BY <1>5, <3>1, <3>2
  <2>4. PICK g \in CleanGraph : g = d.graph
    BY DEF LevelGraph
  <2>5. b = Then("graph", v, Six(g.nodes, g.edges, g.supers, g.cycles, g.skipped, l))
    BY <1>3, <2>2, <2>3, <2>4, GraphRead
  <2>6. GraphOf(d) = Six(g.nodes, g.edges, g.supers, g.cycles, g.skipped, l)
    BY <1>1, <2>4, GraphOfIs
  <2>7. b = Then("graph", v, GraphOf(d))
    BY <2>5, <2>6
  <2>8. PICK w : w = Put(v, "graph", GraphOf(d)) /\ IsSum(w) /\ w.graph = GraphOf(d)
    BY <2>2, PutIs DEF Field9
  <2> QED
    BY <2>7, <2>8 DEF Carries, Then
<1> QED
  BY <1>6, <1>7

(* The manifest of d is read into a summary with the graph of d; without   *)
(* the levels when it was written before the order was made.               *)
LEMMA RenderedGraph ==
  ASSUME NEW d, Loose(d), d.has \subseteq Section, d.phase \in PhaseName, d.planned \in BOOLEAN,
         d.graph \in LevelGraph, "graph" \notin d.has => d.graph = NoGraph
  PROVE  Read(Render(d)).graph = GraphOf(d)
<1>0. /\ "plan" \in Known \ {"phases"} /\ "graph" \in Known \ {"phases"}
      /\ {"strip", "load", "rebuild", "validate", "fkdefine", "stats", "triggers"}
           \subseteq Known \ {"plan", "graph", "phases"}
  BY DEF Known, Section
<1>1. PICK s0 : s0 = At(<<>>, Nothing)
  OBVIOUS
<1>2. PICK s1, s2, s3, s4, s5, s6, s7, s8, s9 :
         /\ s1 = ReadLines(s0, Part(d, "plan", PlanLines(d)))
         /\ s2 = ReadLines(s1, Part(d, "graph", GraphLines(d.graph)))
         /\ s3 = ReadLines(s2, Part(d, "strip", StripLines(d.strip)))
         /\ s4 = ReadLines(s3, Part(d, "load", LoadLines(d.load)))
         /\ s5 = ReadLines(s4, Part(d, "rebuild", RebuildLines(d.rebuild)))
         /\ s6 = ReadLines(s5, Part(d, "validate", ValidateLines(d.validate)))
         /\ s7 = ReadLines(s6, Part(d, "fkdefine", FkdefineLines(d.fkdefine)))
         /\ s8 = ReadLines(s7, Part(d, "stats", StatsLines(d.stats)))
         /\ s9 = ReadLines(s8, Part(d, "triggers", TriggersLines(d.triggers)))
         /\ Read(Render(d)) = ReadLines(s9, Part(d, "phases", <<Line("current", <<d.phase>>)>>)).m
  BY <1>1, RenderRead
<1>3. s0 \in Readers({}, "discovered", FALSE)
  <2>1. PICK e \in Text : e = <<>>
    BY EmptyText
  <2>2. e # Header("phases")
    BY <2>1, HeaderHead
  <2>3. PICK n \in Sums({}, "discovered", FALSE) : n = Nothing
    BY NothingIs
  <2>4. PICK x \in Text \ {Header("phases")} : x = e
    BY <2>1, <2>2
  <2>5. At(x, n) \in Readers({}, "discovered", FALSE)
    BY ReadersHas
  <2> QED
    BY <1>1, <2>1, <2>3, <2>4, <2>5
<1> DEFINE some(st) == \E hs : st \in Readers(hs, "discovered", FALSE)
<1>4. ASSUME NEW st, some(st), NEW s \in Known \ {"phases"}, NEW lines \in Seq(Entry)
      PROVE  some(ReadLines(st, Part(d, s, lines)))
  BY <1>4, PartStays
<1>5. PICK g : g = GraphOf(d)
  OBVIOUS
<1>6. ASSUME NEW st, some(st), NEW s \in Known \ {"plan", "graph", "phases"}, NEW lines \in Seq(Entry), Carries(st, g)
      PROVE  Carries(ReadLines(st, Part(d, s, lines)), g)
  BY <1>6, PartCarries
<1>7. some(s0)
  BY <1>3
<1> HIDE DEF some
<1>8. some(s1)
  BY <1>0, <1>2, <1>4, <1>7, PartsEntries
<1>9. some(s2) /\ Carries(s2, g)
  BY <1>0, <1>1, <1>2, <1>4, <1>5, <1>8, PartsEntries, FrontRead
<1>10. some(s3) /\ Carries(s3, g)
  BY <1>0, <1>2, <1>4, <1>6, <1>9, PartsEntries
<1>11. some(s4) /\ Carries(s4, g)
  BY <1>0, <1>2, <1>4, <1>6, <1>10, PartsEntries
<1>12. some(s5) /\ Carries(s5, g)
  BY <1>0, <1>2, <1>4, <1>6, <1>11, PartsEntries
<1>13. some(s6) /\ Carries(s6, g)
  BY <1>0, <1>2, <1>4, <1>6, <1>12, PartsEntries
<1>14. some(s7) /\ Carries(s7, g)
  BY <1>0, <1>2, <1>4, <1>6, <1>13, PartsEntries
<1>15. some(s8) /\ Carries(s8, g)
  BY <1>0, <1>2, <1>4, <1>6, <1>14, PartsEntries
<1>16. Carries(s9, g)
  BY <1>0, <1>2, <1>4, <1>6, <1>15, PartsEntries
<1>17. PICK h, m : s9 = At(h, m) /\ IsSum(m) /\ m.graph = g
  BY <1>16 DEF Carries
<1>18. ReadLines(s9, Part(d, "phases", <<Line("current", <<d.phase>>)>>)) = At(Header("phases"), Put(m, "phase", d.phase))
  BY <1>17, PhasesPut
<1>19. Put(m, "phase", d.phase).graph = g
  BY <1>17, PutIs DEF Field9
<1> QED
  BY <1>2, <1>5, <1>18, <1>19, AtIs

-----------------------------------------------------------------------------
(* What a graph of ordinary names is.                                      *)

(* Ordinary names are tidy.                                                *)
LEMMA OrdinaryTidy ==
  ASSUME NEW t \in Identifier, Ordinary(t)
  PROVE  t \in Tidy
BY IdentifierIs DEF Ordinary, Tidy, Comma, Bar, Arrow

LEMMA TidyNames ==
  ASSUME NEW p \in Seq(Identifier), \A n \in ToSet(p) : Ordinary(n)
  PROVE  p \in Seq(Tidy)
<1>1. \A x \in ToSet(p) : x \in Identifier => x \in Tidy
  BY OrdinaryTidy
<1> QED
  BY <1>1, EachIn

LEMMA TidyLists ==
  ASSUME NEW p \in Seq(Seq(Identifier) \ {<<>>}), \A q \in ToSet(p) : \A n \in ToSet(q) : Ordinary(n)
  PROVE  p \in Seq(CleanCycle)
<1>1. PICK A : A = Seq(Identifier) \ {<<>>}
  OBVIOUS
<1>2. ASSUME NEW q \in ToSet(p), q \in A PROVE q \in CleanCycle
  <2>1. q \in Seq(Identifier) /\ q # <<>>
    BY <1>1, <1>2
  <2>2. q \in Seq(Tidy)
    BY <2>1, TidyNames
  <2> QED
    BY <2>1, <2>2 DEF CleanCycle
<1>3. p \in Seq(A)
  BY <1>1
<1> QED
  BY <1>2, <1>3, EachIn

(* The names in a list are those of each part of it.                       *)
LEMMA CatNames ==
  ASSUME NEW A, NEW s \in Seq(A), NEW t \in Seq(A)
  PROVE  ToSet(s) \subseteq ToSet(Cat(s, t)) /\ ToSet(t) \subseteq ToSet(Cat(s, t)) /\ Cat(s, t) \in Seq(A)
<1>1. PICK u \in Seq(A) : /\ u = Cat(s, t) /\ Len(u) = Len(s) + Len(t)
                          /\ \A i \in 1 .. Len(s) + Len(t) : u[i] = IF i <= Len(s) THEN s[i] ELSE t[i - Len(s)]
  BY CatType
<1>2. PICK m \in Nat, n \in Nat : m = Len(s) /\ n = Len(t)
  BY LenProperties
<1>3. DOMAIN s = 1 .. m /\ DOMAIN t = 1 .. n /\ DOMAIN u = 1 .. m + n
  BY <1>1, <1>2, LenProperties
<1>4. \A i \in 1 .. m : i \in 1 .. m + n /\ u[i] = s[i]
  BY <1>1, <1>2
<1>5. \A i \in 1 .. n : i + m \in 1 .. m + n /\ u[i + m] = t[i]
  <2> SUFFICES ASSUME NEW i \in 1 .. n PROVE i + m \in 1 .. m + n /\ u[i + m] = t[i]
    OBVIOUS
  <2>1. i + m \in 1 .. m + n /\ ~(i + m <= m) /\ (i + m) - m = i
    BY <1>2
  <2> QED
    BY <1>1, <1>2, <2>1
<1>6. ASSUME NEW x \in ToSet(s) PROVE x \in ToSet(u)
  <2>1. PICK i \in 1 .. m : x = s[i]
    BY <1>3, <1>6 DEF ToSet
  <2>2. i \in 1 .. m + n /\ u[i] = x
    BY <1>4, <2>1
  <2> QED
    BY <1>3, <2>2 DEF ToSet
<1>7. ASSUME NEW x \in ToSet(t) PROVE x \in ToSet(u)
  <2>1. PICK i \in 1 .. n : x = t[i]
    BY <1>3, <1>7 DEF ToSet
  <2>2. i + m \in 1 .. m + n /\ u[i + m] = x
    BY <1>5, <2>1
  <2> QED
    BY <1>3, <2>2 DEF ToSet
<1> QED
  BY <1>1, <1>6, <1>7

NodeNames(n) == ToSet(n.unique \o n.fk \o n.partitions \o n.serials)
KeyNames(e) == ToSet(e.cols \o e.parentPk \o e.childPk)

LEMMA CleanNodes ==
  ASSUME NEW p \in Seq(NodeType),
         \A x \in ToSet(p) : \A n \in NodeNames(x) : Ordinary(n)
  PROVE  p \in Seq(CleanNode)
<1>1. ASSUME NEW x \in ToSet(p), x \in NodeType PROVE x \in CleanNode
  <2>1. PICK a \in Seq(Identifier), b \in Seq(Identifier), c \in Seq(Identifier), d \in Seq(Identifier) :
          a = x.unique /\ b = x.fk /\ c = x.partitions /\ d = x.serials
    BY <1>1 DEF NodeType
  <2>2. PICK ab \in Seq(Identifier) : ab = Cat(a, b) /\ ToSet(a) \subseteq ToSet(ab) /\ ToSet(b) \subseteq ToSet(ab)
    BY CatNames
  <2>3. PICK abc \in Seq(Identifier) :
          abc = Cat(ab, c) /\ ToSet(ab) \subseteq ToSet(abc) /\ ToSet(c) \subseteq ToSet(abc)
    BY CatNames
  <2>4. PICK e \in Seq(Identifier) :
          e = Cat(abc, d) /\ ToSet(abc) \subseteq ToSet(e) /\ ToSet(d) \subseteq ToSet(e)
    BY CatNames
  <2>5. ToSet(e) = NodeNames(x)
    BY <2>1, <2>2, <2>3, <2>4 DEF Cat, NodeNames
  <2>6. \A n \in ToSet(e) : Ordinary(n)
    BY <2>5
  <2>7. a \in Seq(Tidy) /\ b \in Seq(Tidy) /\ c \in Seq(Tidy) /\ d \in Seq(Tidy)
    BY <2>2, <2>3, <2>4, <2>6, TidyNames
  <2>8. x.name \in Cell /\ x.pk \in Cell \cup {<<>>}
    BY <1>1, IdentifierIs DEF NodeType
  <2> QED
    BY <1>1, <2>1, <2>7, <2>8 DEF NodeType, CleanNode
<1> QED
  BY <1>1, EachIn

LEMMA CleanEdges ==
  ASSUME NEW p \in Seq(EdgeType),
         \A x \in ToSet(p) : \A n \in KeyNames(x) : Ordinary(n)
  PROVE  p \in Seq(CleanEdge)
<1>1. ASSUME NEW x \in ToSet(p), x \in EdgeType PROVE x \in CleanEdge
  <2>1. PICK a \in Seq(Identifier), b \in Seq(Identifier), c \in Seq(Identifier) :
          a = x.cols /\ b = x.parentPk /\ c = x.childPk
    BY <1>1 DEF EdgeType
  <2>2. PICK ab \in Seq(Identifier) : ab = Cat(a, b) /\ ToSet(a) \subseteq ToSet(ab) /\ ToSet(b) \subseteq ToSet(ab)
    BY CatNames
  <2>3. PICK e \in Seq(Identifier) :
          e = Cat(ab, c) /\ ToSet(ab) \subseteq ToSet(e) /\ ToSet(c) \subseteq ToSet(e)
    BY CatNames
  <2>4. ToSet(e) = KeyNames(x)
    BY <2>1, <2>2, <2>3 DEF Cat, KeyNames
  <2>5. \A n \in ToSet(e) : Ordinary(n)
    BY <2>4
  <2>6. a \in Seq(Tidy) /\ b \in Seq(Tidy) /\ c \in Seq(Tidy)
    BY <2>2, <2>3, <2>5, TidyNames
  <2>7. x.child \in Cell /\ x.parent \in Cell /\ x.name \in Cell
    BY <1>1, IdentifierIs DEF EdgeType
  <2> QED
    BY <1>1, <2>1, <2>6, <2>7 DEF EdgeType, CleanEdge
<1> QED
  BY <1>1, EachIn

(* A graph of the catalog with ordinary names is read as it was.           *)
LEMMA OrdinaryGraph ==
  ASSUME NEW g \in GraphType, \A n \in GraphNames(g) : Ordinary(n)
  PROVE  g \in LevelGraph
<1>1. \A q : q \in ToSet(g.cycles) \cup ToSet(g.levels) \cup {g.skipped} => \A n \in ToSet(q) : Ordinary(n)
  BY DEF GraphNames
<1>2. \A x \in ToSet(g.nodes) : \A n \in NodeNames(x) : Ordinary(n)
  BY DEF GraphNames, NodeNames
<1>3. \A x \in ToSet(g.edges) : \A n \in KeyNames(x) : Ordinary(n)
  BY DEF GraphNames, KeyNames
<1>4. /\ g.nodes \in Seq(NodeType) /\ g.edges \in Seq(EdgeType)
      /\ g.supers \in Seq([child : Identifier, super : Identifier])
      /\ g.cycles \in Seq(Seq(Identifier) \ {<<>>}) /\ g.skipped \in Seq(Identifier)
      /\ g.levels \in Seq(Seq(Identifier) \ {<<>>})
  BY DEF GraphType
<1>5. g.nodes \in Seq(CleanNode)
  BY <1>2, <1>4, CleanNodes
<1>6. g.edges \in Seq(CleanEdge)
  BY <1>3, <1>4, CleanEdges
<1>7. g.supers \in Seq(CleanSuper)
  <2>1. [child : Identifier, super : Identifier] \subseteq CleanSuper
    BY IdentifiersAre DEF CleanSuper
  <2> QED
    BY <1>4, <2>1, SeqMonotonic
<1>8. g.cycles \in Seq(CleanCycle) /\ g.levels \in Seq(CleanCycle)
  BY <1>1, <1>4, TidyLists
<1>9. g.skipped \in Seq(Tidy)
  BY <1>1, <1>4, TidyNames
<1>10. g \in LooseGraph
  BY GraphLoose
<1> QED
  BY <1>5, <1>6, <1>7, <1>8, <1>9, <1>10 DEF LevelGraph, CleanGraph

LEMMA EmptyGraph == NoGraph \in LevelGraph
<1>1. NoGraph \in LooseGraph
  BY NothingIs DEF Loose, Nothing
<1>2. \A A : <<>> \in Seq(A)
  BY EmptySeq
<1>3. /\ NoGraph.nodes = <<>> /\ NoGraph.edges = <<>> /\ NoGraph.supers = <<>>
      /\ NoGraph.cycles = <<>> /\ NoGraph.skipped = <<>> /\ NoGraph.levels = <<>>
  BY DEF NoGraph
<1> QED
  BY <1>1, <1>2, <1>3 DEF LevelGraph, CleanGraph

(* The second line says whether the order had been made.                   *)
LEMMA SecondLine ==
  ASSUME NEW d, Loose(d), d.phase \in PhaseName, ~d.planned
  PROVE  Render(d)[2] = Line("planned_order", Placeholder)
<1>1. PICK l \in Entry : l = Line("planned_order", Placeholder)
  <2>1. "planned_order" \in Keys
    BY DEF Keys, Key
  <2> QED
    BY <2>1, PlaceholderIs, EntryIs
<1>2. l \in Row
  <2>1. "planned_order" \in Keys
    BY DEF Keys, Key
  <2> QED
    BY <1>1, <2>1, PlaceholderIs, EntryPlain DEF Plain
<1>3. PlanLines(d) = <<l>>
  BY <1>1 DEF PlanLines
<1>4. Printed(<<l>>) = <<l>>
  BY <1>2, RowType, PrintedOne
<1>5. PICK h \in Row : h = Header("plan")
  BY HeaderIs DEF Known
<1>6. PICK p \in Seq(Row) : p = <<h, l>> /\ Len(p) = 2 /\ p[2] = l
  <2>1. <<h, l>> \in Seq(Row)
    BY <1>2, PairIs
  <2> QED
    BY <2>1
<1>7. Part(d, "plan", PlanLines(d)) = p
  <2>1. Part(d, "plan", <<l>>) = Cat(<<h>>, <<l>>)
    BY <1>4, <1>5 DEF Part, Cat
  <2>2. <<h>> \in Seq(Row) /\ Add(<<h>>, l) = Cat(<<h>>, <<l>>)
    BY <1>2, One, AddIs
  <2>3. <<h, l>> = Add(<<h>>, l)
    BY <1>2, PairIs
  <2> QED
    BY <1>3, <1>6, <2>1, <2>2, <2>3
<1>8. \E r \in Seq(Row) : Render(d) = Cat(p, r)
  <2>1. {"graph", "strip", "load", "rebuild", "validate", "fkdefine", "stats", "triggers", "phases"} \subseteq Known
    BY DEF Known, Section
  <2>2. PICK a \in Seq(Row), b \in Seq(Row), c \in Seq(Row), e \in Seq(Row), f \in Seq(Row) :
          /\ a = Part(d, "graph", GraphLines(d.graph)) /\ b = Part(d, "strip", StripLines(d.strip))
          /\ c = Part(d, "load", LoadLines(d.load)) /\ e = Part(d, "rebuild", RebuildLines(d.rebuild))
          /\ f = Part(d, "validate", ValidateLines(d.validate))
    BY <2>1, PartsEntries, PartType
  <2>3. PICK u \in Seq(Row), v \in Seq(Row), w \in Seq(Row), x \in Seq(Row) :
          /\ u = Part(d, "fkdefine", FkdefineLines(d.fkdefine)) /\ v = Part(d, "stats", StatsLines(d.stats))
          /\ w = Part(d, "triggers", TriggersLines(d.triggers))
          /\ x = Part(d, "phases", <<Line("current", <<d.phase>>)>>)
    BY <2>1, PartsEntries, PartType
  <2>4. Render(d) = Cat(Cat(Cat(Cat(Cat(Cat(Cat(Cat(Cat(p, a), b), c), e), f), u), v), w), x)
    BY <1>7, <2>2, <2>3 DEF Render, Cat
  <2> DEFINE Begun == {s \in Seq(Row) : \E r \in Seq(Row) : s = Cat(p, r)}
  <2>5. \A s \in Begun, t \in Seq(Row) : Cat(s, t) \in Begun
    <3> SUFFICES ASSUME NEW s \in Begun, NEW t \in Seq(Row) PROVE Cat(s, t) \in Begun
      OBVIOUS
    <3>1. PICK r \in Seq(Row) : s = Cat(p, r)
      OBVIOUS
    <3>2. Cat(r, t) \in Seq(Row) /\ Cat(s, t) \in Seq(Row)
      BY CatType
    <3>3. Cat(s, t) = Cat(p, Cat(r, t))
      BY <3>1, CatCat
    <3> QED
      BY <3>2, <3>3
  <2>6. Cat(p, a) \in Begun
    BY CatType
  <2> HIDE DEF Begun
  <2>7. Render(d) \in Begun
    BY <2>4, <2>5, <2>6
  <2> QED
    BY <2>7 DEF Begun
<1>9. PICK r \in Seq(Row) : Render(d) = Cat(p, r)
  BY <1>8
<1>10. PICK n \in Nat, k \in Nat : n = Len(r) /\ k = 2
  BY LenProperties
<1>11. k \in 1 .. Len(p) + Len(r) /\ k <= Len(p)
  BY <1>6, <1>10
<1>12. Cat(p, r)[k] = p[k]
  BY <1>11, CatType
<1> QED
  BY <1>1, <1>6, <1>9, <1>10, <1>12

-----------------------------------------------------------------------------
(* The invariant of the graph.                                             *)

(* The graph g is k, or k without the levels when the order was lost.      *)
Carried(k, lost, g) == g = k \/ (lost /\ g = Put(k, "levels", <<>>))

(* The graph on record is what build_graph has delivered.                  *)
Built(k) == IF "graph" \in k.has THEN k.graph \in GraphType ELSE k.graph = NoGraph

AllOrdinary(g) == \A n \in GraphNames(g) : Ordinary(n)

GInv ==
  /\ Built(known)
  /\ AllOrdinary(known.graph) =>
       /\ Carried(known.graph, planless, mem.graph)
       /\ \E d : /\ Held(d) /\ file = Render(d) /\ d.has = known.has
                 /\ Carried(known.graph, planless, d.graph)

(* Both kinds of graph on record have the six fields.                      *)
LEMMA BuiltSix ==
  ASSUME NEW k, Built(k)
  PROVE  \E n, e, s, c, p, l : k.graph = Six(n, e, s, c, p, l)
<1>1. CASE k.graph \in GraphType
  <2>1. k.graph = Six(k.graph.nodes, k.graph.edges, k.graph.supers, k.graph.cycles, k.graph.skipped, k.graph.levels)
    BY <1>1 DEF GraphType, Six
  <2> QED
    BY <2>1
<1>2. CASE k.graph = NoGraph
  <2>1. k.graph = Six(<<>>, <<>>, <<>>, <<>>, <<>>, <<>>)
    BY <1>2 DEF NoGraph, Six
  <2> QED
    BY <2>1
<1> QED
  BY <1>1, <1>2 DEF Built

LEMMA SixBare ==
  ASSUME NEW n, NEW e, NEW s, NEW c, NEW p, NEW l, NEW g, g = Six(n, e, s, c, p, l)
  PROVE  /\ [g EXCEPT !.levels = <<>>] = Six(n, e, s, c, p, <<>>)
         /\ Put(g, "levels", <<>>) = Six(n, e, s, c, p, <<>>)
         /\ [Put(g, "levels", <<>>) EXCEPT !.levels = <<>>] = Six(n, e, s, c, p, <<>>)
         /\ Put(Put(g, "levels", <<>>), "levels", <<>>) = Put(g, "levels", <<>>)
         /\ Put(g, "levels", g.levels) = g
<1>1. [g EXCEPT !.levels = <<>>] = Six(n, e, s, c, p, <<>>)
  BY DEF Six
<1>2. [Six(n, e, s, c, p, <<>>) EXCEPT !.levels = <<>>] = Six(n, e, s, c, p, <<>>)
  BY DEF Six
<1>3. [g EXCEPT !.levels = g.levels] = g
  BY DEF Six
<1> QED
  BY <1>1, <1>2, <1>3 DEF Put

(* A graph without levels, of ordinary names, is read as it is.            *)
LEMMA BareClean ==
  ASSUME NEW g \in LevelGraph
  PROVE  Put(g, "levels", <<>>) \in LevelGraph
<1>1. g \in LooseGraph /\ g \in CleanGraph
  BY DEF LevelGraph, CleanGraph
<1>2. PICK h : h = Put(g, "levels", <<>>)
  OBVIOUS
<1>3. /\ h.nodes = g.nodes /\ h.edges = g.edges /\ h.supers = g.supers /\ h.cycles = g.cycles
      /\ h.skipped = g.skipped /\ h.levels = <<>>
      /\ h = Six(h.nodes, h.edges, h.supers, h.cycles, h.skipped, h.levels)
  BY <1>1, <1>2 DEF Put, LooseGraph, Six
<1>4. \A A : <<>> \in Seq(A)
  BY EmptySeq
<1>5. h \in LooseGraph
  BY <1>1, <1>3, <1>4 DEF LooseGraph, Six
<1>6. h \in CleanGraph /\ h.levels \in Seq(CleanCycle)
  BY <1>1, <1>3, <1>4, <1>5 DEF CleanGraph
<1> QED
  BY <1>2, <1>6 DEF LevelGraph

(* What is carried over of a graph of ordinary names is read as it is.     *)
LEMMA CarriedClean ==
  ASSUME NEW k, Built(k), AllOrdinary(k.graph), NEW lost, NEW g, Carried(k.graph, lost, g)
  PROVE  g \in LevelGraph /\ ("graph" \notin k.has => g = NoGraph)
<1>1. k.graph \in LevelGraph
  BY OrdinaryGraph, EmptyGraph DEF Built, AllOrdinary
<1>2. g \in LevelGraph
  BY <1>1, BareClean DEF Carried
<1>3. ASSUME "graph" \notin k.has PROVE g = NoGraph
  <2>1. k.graph = NoGraph
    BY <1>3 DEF Built
  <2>2. Put(NoGraph, "levels", <<>>) = NoGraph
    BY DEF Put, NoGraph
  <2> QED
    BY <2>1, <2>2 DEF Carried
<1> QED
  BY <1>2, <1>3

(* A write that leaves the graph alone.                                    *)
LEMMA GraphStays ==
  ASSUME GInv, IInv', KInv', file' = Render(mem)', planless' = planless, mem'.graph = mem.graph,
         known'.graph = known.graph, "graph" \in known'.has <=> "graph" \in known.has
  PROVE  GInv'
<1>1. Built(known)'
  BY DEF GInv, Built
<1>2. (Held(mem) /\ mem.has = known.has)'
  BY DEF IInv, KInv, Agrees
<1>3. ASSUME AllOrdinary(known.graph)'
      PROVE  (/\ Carried(known.graph, planless, mem.graph)
              /\ \E d : /\ Held(d) /\ file = Render(d) /\ d.has = known.has
                        /\ Carried(known.graph, planless, d.graph))'
  <2>1. Carried(known.graph, planless, mem.graph)
    BY <1>3 DEF GInv, AllOrdinary
  <2>2. Carried(known.graph, planless, mem.graph)'
    BY <2>1 DEF Carried
  <2> QED
    BY <1>2, <2>2
<1> QED
  BY <1>1, <1>3 DEF GInv

(* The fields of a summary that a write names, and the graph beside them.  *)
LEMMA GraphBeside ==
  ASSUME NEW m, IsSum(m), NEW ph, NEW t, NEW h, NEW s \in Sect, NEW v
  PROVE  /\ [m EXCEPT !.phase = ph].graph = m.graph /\ [m EXCEPT !.planned = t].graph = m.graph
         /\ [m EXCEPT !.phase = ph].has = m.has /\ [m EXCEPT !.planned = t].has = m.has
         /\ Worked(m, ph, s, v).graph = m.graph /\ Handed(m, ph, s, v).graph = m.graph
         /\ Worked(m, ph, s, v).has = m.has \cup {s} /\ Handed(m, ph, s, v).has = m.has \cup {s}
<1>1. DOMAIN m = Field9 /\ s # "graph" /\ s # "has" /\ s # "phase" /\ s # "planned" /\ s \in Field9
  BY SectIs DEF IsSum
<1>2. /\ "graph" \in Field9 /\ "has" \in Field9 /\ "phase" \in Field9 /\ "planned" \in Field9
      /\ "validate" \in Field9 /\ "fkdefine" \in Field9
  BY DEF Field9
<1>3. /\ [m EXCEPT !.phase = ph].graph = m.graph /\ [m EXCEPT !.planned = t].graph = m.graph
      /\ [m EXCEPT !.phase = ph].has = m.has /\ [m EXCEPT !.planned = t].has = m.has
  BY <1>1, <1>2
<1>4. Worked(m, ph, s, v).graph = m.graph /\ Worked(m, ph, s, v).has = m.has \cup {s}
  BY <1>1, <1>2 DEF Worked
<1>5. Handed(m, ph, s, v).graph = m.graph /\ Handed(m, ph, s, v).has = m.has \cup {s}
  BY <1>1, <1>2 DEF Handed
<1> QED
  BY <1>3, <1>4, <1>5

(* The summary of a phase joins those that are written.                    *)
LEMMA GraphAfter ==
  ASSUME GInv, IInv, KInv, IInv', KInv', NEW phase, NEW s \in Sect, NEW v, WriteAfter(phase, s, v)
  PROVE  GInv'
<1>1. IsSum(mem) /\ IsSum(known)
  BY DEF IInv, KInv, Held, Loose, Record
<1>2. PICK n : n = Worked(mem, phase, s, v)
  OBVIOUS
<1>3. PICK k : k = Handed(known, phase, s, v)
  OBVIOUS
<1>4. known' = k /\ Written(n)
  BY <1>2, <1>3 DEF WriteAfter, Worked, Handed
<1>5. n.graph = mem.graph
  BY <1>1, <1>2, GraphBeside
<1>6. k.graph = known.graph /\ k.has = known.has \cup {s}
  BY <1>1, <1>3, GraphBeside
<1>7. "graph" \in k.has <=> "graph" \in known.has
  BY <1>6, SectIs
<1>8. mem' = n /\ file' = Render(mem)' /\ planless' = planless
  BY <1>4 DEF Written
<1> QED
  BY <1>4, <1>5, <1>6, <1>7, <1>8, GraphStays

LEMMA GraphFk ==
  ASSUME GInv, IInv, KInv, IInv', KInv', WriteFkDefined
  PROVE  GInv'
<1>1. IsSum(mem) /\ IsSum(known)
  BY DEF IInv, KInv, Held, Loose, Record
<1>2. PICK w, f :
        /\ Written([mem EXCEPT !.phase = "fk_defined", !.planned = TRUE,
                               !.has = @ \cup {"validate", "fkdefine"}, !.validate = w.edges,
                               !.fkdefine = f])
        /\ known' = [known EXCEPT !.phase = "fk_defined", !.planned = TRUE,
                                  !.has = @ \cup {"validate", "fkdefine"}, !.validate = w.edges,
                                  !.fkdefine = f]
  BY DEF WriteFkDefined
<1>3. ASSUME NEW m, IsSum(m), NEW n,
             n = [m EXCEPT !.phase = "fk_defined", !.planned = TRUE,
                           !.has = @ \cup {"validate", "fkdefine"}, !.validate = w.edges, !.fkdefine = f]
      PROVE  n.graph = m.graph /\ n.has = m.has \cup {"validate", "fkdefine"}
  <2>1. DOMAIN m = Field9
    BY <1>3 DEF IsSum
  <2>2. "graph" \in DOMAIN m /\ "has" \in DOMAIN m
    BY <2>1 DEF Field9
  <2> QED
    BY <1>3, <2>2
<1>4. PICK n : n = [mem EXCEPT !.phase = "fk_defined", !.planned = TRUE,
                               !.has = @ \cup {"validate", "fkdefine"}, !.validate = w.edges,
                               !.fkdefine = f]
  OBVIOUS
<1>5. n.graph = mem.graph
  BY <1>1, <1>3, <1>4
<1>6. mem' = n /\ file' = Render(mem)' /\ planless' = planless
  BY <1>2, <1>4 DEF Written
<1>7. PICK k : k = known'
  OBVIOUS
<1>8. k.graph = known.graph /\ k.has = known.has \cup {"validate", "fkdefine"}
  BY <1>1, <1>2, <1>3, <1>7
<1>9. "graph" \in k.has <=> "graph" \in known.has
  BY <1>8
<1> QED
  BY <1>5, <1>6, <1>7, <1>8, <1>9, GraphStays

(* The graph of the catalog is written.                                    *)
LEMMA GraphFresh ==
  ASSUME IInv, KInv, IInv', KInv', NEW g \in Graphs,
         Written([mem EXCEPT !.has = @ \cup {"graph"}, !.graph = g]),
         known' = [known EXCEPT !.has = @ \cup {"graph"}, !.graph = g]
  PROVE  GInv'
<1>1. IsSum(mem) /\ IsSum(known)
  BY DEF IInv, KInv, Held, Loose, Record
<1>2. ASSUME NEW m, IsSum(m), NEW n, n = [m EXCEPT !.has = @ \cup {"graph"}, !.graph = g]
      PROVE  n.graph = g /\ "graph" \in n.has
  <2>1. DOMAIN m = Field9
    BY <1>2 DEF IsSum
  <2>2. "graph" \in DOMAIN m /\ "has" \in DOMAIN m
    BY <2>1 DEF Field9
  <2> QED
    BY <1>2, <2>2
<1>3. PICK n : n = [mem EXCEPT !.has = @ \cup {"graph"}, !.graph = g]
  OBVIOUS
<1>4. n.graph = g
  BY <1>1, <1>2, <1>3
<1>5. mem' = n /\ file' = Render(mem)' /\ planless' = planless
  BY <1>3 DEF Written
<1>6. PICK k : k = known'
  OBVIOUS
<1>7. k.graph = g /\ "graph" \in k.has
  BY <1>1, <1>2, <1>6
<1>8. Built(known)'
  BY <1>6, <1>7, ManifestTextAssumption DEF Built
<1>9. (Held(mem) /\ mem.has = known.has)'
  BY DEF IInv, KInv, Agrees
<1>10. Carried(known.graph, planless, mem.graph)'
  BY <1>4, <1>5, <1>6, <1>7 DEF Carried
<1> QED
  BY <1>5, <1>8, <1>9, <1>10 DEF GInv

(* What a resumed run makes of the file.                                   *)
LEMMA GraphResumed ==
  ASSUME GInv, IInv, KInv, Resume
  PROVE  GInv'
<1>1. PICK found : found = Read(file)
  OBVIOUS
<1>2. /\ mem' = found /\ known' = known /\ file' = file
      /\ planless' = (planless \/ ("graph" \in found.has /\ Unplanned))
  BY <1>1 DEF Resume
<1>3. Built(known)'
  BY <1>2 DEF GInv
<1>4. ASSUME AllOrdinary(known.graph)'
      PROVE  (/\ Carried(known.graph, planless, mem.graph)
              /\ \E d : /\ Held(d) /\ file = Render(d) /\ d.has = known.has
                        /\ Carried(known.graph, planless, d.graph))'
  <2>0. AllOrdinary(known.graph) /\ Built(known)
    BY <1>2, <1>4 DEF GInv
  <2>1. PICK d : /\ Held(d) /\ file = Render(d) /\ d.has = known.has
                 /\ Carried(known.graph, planless, d.graph)
    BY <2>0 DEF GInv
  <2>2. PICK k, p, q : k = known.graph /\ p = planless /\ q = planless'
    OBVIOUS
  <2>3. d.graph \in LevelGraph /\ ("graph" \notin d.has => d.graph = NoGraph)
    BY <2>0, <2>1, CarriedClean
  <2>4. Loose(d) /\ d.has \subseteq Section /\ d.phase \in PhaseName /\ d.planned \in BOOLEAN
    BY <2>1 DEF Held, Reached, PhaseName
  <2>5. found.graph = GraphOf(d)
    BY <1>1, <2>1, <2>3, <2>4, RenderedGraph
  <2>6. found.has = d.has
    <3>1. found \in Sums(d.has, d.phase, FALSE)
      BY <1>1, <2>1, <2>4, ReadRender
    <3> QED
      BY <2>1, <3>1, SumsHeld
  <2>7. p => q
    BY <1>2, <2>2
  <2>8. PICK n, e, s, c, x, l : k = Six(n, e, s, c, x, l)
    BY <2>0, <2>2, BuiltSix
  <2>9. Put(Put(k, "levels", <<>>), "levels", <<>>) = Put(k, "levels", <<>>)
    BY <2>8, SixBare
  <2>10. Carried(k, p, d.graph)
    BY <2>1, <2>2
  <2>11. Carried(k, q, found.graph)
    <3>1. CASE d.planned
      <4>1. found.graph = Put(d.graph, "levels", d.graph.levels)
        BY <2>5, <3>1 DEF GraphOf, Levelled
      <4>2. d.graph \in LooseGraph
        BY <2>3 DEF LevelGraph, CleanGraph
      <4>3. d.graph = Six(d.graph.nodes, d.graph.edges, d.graph.supers, d.graph.cycles, d.graph.skipped,
                          d.graph.levels)
        BY <4>2 DEF LooseGraph, Six
      <4>4. found.graph = d.graph
        BY <4>1, <4>3, SixBare
      <4> QED
        BY <2>7, <2>10, <4>4 DEF Carried
    <3>2. CASE ~d.planned
      <4>1. found.graph = Put(d.graph, "levels", <<>>)
        BY <2>5, <3>2 DEF GraphOf, Levelled
      <4>2. found.graph = Put(k, "levels", <<>>)
        BY <2>9, <2>10, <4>1 DEF Carried
      <4>3. CASE "graph" \in d.has
        <5>1. Unplanned
          BY <2>1, <2>4, <3>2, SecondLine DEF Unplanned
        <5>2. q
          BY <1>2, <2>2, <2>6, <4>3, <5>1
        <5> QED
          BY <4>2, <5>2 DEF Carried
      <4>4. CASE "graph" \notin d.has
        <5>1. k = NoGraph
          BY <2>0, <2>1, <2>2, <4>4 DEF Built
        <5>2. Put(NoGraph, "levels", <<>>) = NoGraph
          BY DEF Put, NoGraph
        <5> QED
          BY <4>2, <5>1, <5>2 DEF Carried
      <4> QED
        BY <4>3, <4>4
    <3> QED
      BY <2>4, <3>1, <3>2
  <2>12. Carried(k, q, d.graph)
    BY <2>7, <2>10 DEF Carried
  <2> QED
    BY <1>2, <2>1, <2>2, <2>11, <2>12
<1> QED
  BY <1>3, <1>4 DEF GInv

LEMMA InitGraph == Init => GInv
<1> SUFFICES ASSUME Init PROVE GInv
  OBVIOUS
<1>1. mem = Nothing /\ known = Nothing /\ file = Render(Nothing)
  BY DEF Init
<1>2. Nothing.phase = "discovered" /\ Nothing.has = {} /\ Nothing.graph = NoGraph /\ Nothing.planned = FALSE
  BY DEF Nothing
<1>3. Held(Nothing)
  BY <1>2, NothingIs DEF Held, Reached
<1> QED
  BY <1>1, <1>2, <1>3 DEF GInv, Built, Carried

LEMMA NextGraph == GInv /\ IInv /\ KInv /\ [Next]_vars => GInv'
<1> SUFFICES ASSUME GInv, IInv, KInv, [Next]_vars PROVE GInv'
  OBVIOUS
<1>0. IInv' /\ KInv' /\ IsSum(mem) /\ IsSum(known)
  BY NextInv, NextKept DEF IInv, KInv, Held, Loose, Record
<1>1. CASE WriteDefined
  <2>1. PICK n, k : n = [mem EXCEPT !.phase = "defined"] /\ k = [known EXCEPT !.phase = "defined"]
    OBVIOUS
  <2>2. mem' = n /\ known' = k /\ file' = Render(mem)' /\ planless' = planless
    BY <1>1, <2>1 DEF WriteDefined, Written
  <2>3. n.graph = mem.graph /\ k.graph = known.graph /\ k.has = known.has
    BY <1>0, <2>1, GraphBeside DEF Sect
  <2> QED
    BY <1>0, <2>2, <2>3, GraphStays
<1>2. CASE WriteGraph
  <2>1. CASE Written([mem EXCEPT !.planned = FALSE]) /\ known' = known
    <3>1. PICK n : n = [mem EXCEPT !.planned = FALSE]
      OBVIOUS
    <3>2. mem' = n /\ file' = Render(mem)' /\ planless' = planless
      BY <2>1, <3>1 DEF Written
    <3>3. n.graph = mem.graph
      BY <1>0, <3>1, GraphBeside DEF Sect
    <3> QED
      BY <1>0, <2>1, <3>2, <3>3, GraphStays
  <2> QED
    BY <1>0, <1>2, <2>1, GraphFresh DEF WriteGraph
<1>3. CASE WritePlan
  <2>1. PICK n, k : n = [mem EXCEPT !.planned = TRUE] /\ k = [known EXCEPT !.planned = TRUE]
    OBVIOUS
  <2>2. mem' = n /\ known' = k /\ file' = Render(mem)' /\ planless' = planless
    BY <1>3, <2>1 DEF WritePlan, Written
  <2>3. n.graph = mem.graph /\ k.graph = known.graph /\ k.has = known.has
    BY <1>0, <2>1, GraphBeside DEF Sect
  <2> QED
    BY <1>0, <2>2, <2>3, GraphStays
<1>4. ASSUME NEW s \in Strips, WriteAfter("stripped", "strip", s) PROVE GInv'
  BY <1>0, <1>4, GraphAfter DEF Sect
<1>5. ASSUME NEW l \in Loads, WriteAfter("loaded", "load", l) PROVE GInv'
  BY <1>0, <1>5, GraphAfter DEF Sect
<1>6. ASSUME NEW r \in Rebuilds, WriteAfter("rebuilt", "rebuild", r) PROVE GInv'
  BY <1>0, <1>6, GraphAfter DEF Sect
<1>7. CASE WriteFkDefined
  BY <1>0, <1>7, GraphFk
<1>8. ASSUME NEW s \in StatWorks, WriteAfter("stats_updated", "stats", s) PROVE GInv'
  BY <1>0, <1>8, GraphAfter DEF Sect
<1>9. ASSUME NEW t \in TriggerWorks, WriteAfter("done", "triggers", t) PROVE GInv'
  BY <1>0, <1>9, GraphAfter DEF Sect
<1>10. CASE Resume
  BY <1>10, GraphResumed
<1>11. CASE UNCHANGED vars
  BY <1>11 DEF GInv, vars
<1> QED
  BY <1>1, <1>2, <1>3, <1>4, <1>5, <1>6, <1>7, <1>8, <1>9, <1>10, <1>11 DEF Next, End

(* What a run holds of the graph is what the catalog had.                  *)
LEMMA GraphHolds == GInv => GraphSurvives
<1> SUFFICES ASSUME GInv, \A n \in GraphNames(known.graph) : Ordinary(n)
             PROVE  /\ [mem.graph EXCEPT !.levels = <<>>] = [known.graph EXCEPT !.levels = <<>>]
                    /\ planless \/ mem.graph.levels = known.graph.levels
  BY DEF GraphSurvives
<1>1. Built(known) /\ Carried(known.graph, planless, mem.graph)
  BY DEF GInv, AllOrdinary
<1>2. PICK k, g : k = known.graph /\ g = mem.graph
  OBVIOUS
<1>3. PICK n, e, s, c, p, l : k = Six(n, e, s, c, p, l)
  BY <1>1, <1>2, BuiltSix
<1>4. [k EXCEPT !.levels = <<>>] = [Put(k, "levels", <<>>) EXCEPT !.levels = <<>>]
  BY <1>3, SixBare
<1>5. CASE g = k
  BY <1>2, <1>5
<1>6. CASE planless /\ g = Put(k, "levels", <<>>)
  BY <1>2, <1>4, <1>6
<1> QED
  BY <1>1, <1>2, <1>5, <1>6 DEF Carried

(* What a run holds of the graph, and what its manifest says of it, is     *)
(* what build_graph has delivered; the levels only when no run was resumed *)
(* between the write of the graph and that of the plan.                    *)
THEOREM GraphKeptAlways == Spec => []GInv
BY InitGraph, NextGraph, Inductive, Lasting, PTL DEF Spec

(* The graph that REBUILD and FK DEFINE work from after a resume is the    *)
(* one that the catalog had before STRIP: classes, constraints, columns,   *)
(* cycles, edges and, once planned, the levels, after any number of        *)
(* resumes (read_manifest, l.1101 of import_manifest.cpp).                 *)
THEOREM GraphLasts == Spec => []GraphSurvives
BY GraphKeptAlways, GraphHolds, PTL
================================================================================
