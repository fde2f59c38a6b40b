---------------------------- MODULE Reading_proofs ----------------------------
(***************************************************************************)
(* Proofs about what importdb reads: the names in the dump directory       *)
(* (Discovery) and its own manifest (ManifestText).                        *)
(*                                                                         *)
(* Discovery.  The suffixes of the dump's files end in different symbols,  *)
(* so the last symbol of a file says which one it has: LastOf is the fact  *)
(* the proof rests on.                                                     *)
(*                                                                         *)
(* ManifestText.  The parser's functions are first shown to return what    *)
(* the printer put together, for texts of any length; then what is printed *)
(* of a section is shown to be read into a record of the same kind; then   *)
(* the lines that leave a section or say nothing in it, and the values     *)
(* that come back whole, on which Survival_proofs rests; then the          *)
(* invariant of the runs follows.                                          *)
(***************************************************************************)
EXTENDS Discovery, ManifestText, SequenceTheorems, WellFoundedInduction, TLAPS

-----------------------------------------------------------------------------
(* Discovery.                                                              *)

Symbol ==
  DOMAIN Rank \cup {"_", ".", "schema", "info", "class", "pk", "uk", "fk",
                    "indexes", "trigger", "objects"}

Str == Seq(Symbol)

LastOf(e) == e[Len(e)]

-----------------------------------------------------------------------------
(* Sequences.                                                              *)

LEMMA Tuple1 == ASSUME NEW S, NEW a \in S PROVE <<a>> \in Seq(S)
OBVIOUS

LEMMA Tuple2 == ASSUME NEW S, NEW a \in S, NEW b \in S PROVE <<a, b>> \in Seq(S)
OBVIOUS

LEMMA Tuple4 ==
  ASSUME NEW S, NEW a \in S, NEW b \in S, NEW c \in S, NEW d \in S
  PROVE  <<a, b, c, d>> \in Seq(S)
OBVIOUS

(* IsPrefix, symbol by symbol.                                             *)
LEMMA PrefixByIndex ==
  ASSUME NEW s \in Str, NEW t \in Str
  PROVE  IsPrefix(s, t) <=> Len(s) <= Len(t) /\ \A i \in 1 .. Len(s) : s[i] = t[i]
<1>1. Len(s) \in Nat /\ Len(t) \in Nat
  BY LenProperties DEF Str
<1>2. ASSUME Len(s) <= Len(t)
      PROVE  /\ SubSeq(s, 1, Len(s)) \in Str /\ SubSeq(t, 1, Len(s)) \in Str
             /\ Len(SubSeq(s, 1, Len(s))) = Len(s) /\ Len(SubSeq(t, 1, Len(s))) = Len(s)
             /\ \A i \in 1 .. Len(s) : SubSeq(s, 1, Len(s))[i] = s[i]
             /\ \A i \in 1 .. Len(s) : SubSeq(t, 1, Len(s))[i] = t[i]
  <2>1. /\ \A i \in 1 .. Len(s) : s[i] \in Symbol
        /\ \A i \in 1 .. Len(s) : t[i] \in Symbol
    BY <1>1, <1>2, LenProperties DEF Str
  <2> QED
    BY <1>1, <1>2, <2>1, SubSeqProperties DEF Str
<1>3. ASSUME Len(s) <= Len(t), \A i \in 1 .. Len(s) : s[i] = t[i]
      PROVE  SubSeq(s, 1, Len(s)) = SubSeq(t, 1, Len(s))
  BY <1>1, <1>2, <1>3, SeqEqual DEF Str
<1> QED
  BY <1>1, <1>2, <1>3 DEF IsPrefix

(* IsSuffix, symbol by symbol.                                             *)
LEMMA SuffixByIndex ==
  ASSUME NEW s \in Str, NEW t \in Str
  PROVE  IsSuffix(s, t) <=>
           /\ Len(s) <= Len(t)
           /\ \A i \in 1 .. Len(s) : s[i] = t[Len(t) - Len(s) + i]
<1>1. Len(s) \in Nat /\ Len(t) \in Nat
  BY LenProperties DEF Str
<1>2. \A u \in Str : /\ Reverse(u) \in Str
                      /\ Len(Reverse(u)) = Len(u)
                      /\ \A i \in 1 .. Len(u) : Reverse(u)[i] = u[Len(u) - i + 1]
  <2> TAKE u \in Str
  <2>1. Len(u) \in Nat /\ \A i \in 1 .. Len(u) : u[i] \in Symbol
    BY LenProperties DEF Str
  <2>2. Reverse(u) \in [1 .. Len(u) -> Symbol]
    BY <2>1 DEF Reverse
  <2>3. Reverse(u) \in Str
    BY <2>1, <2>2, SeqDef DEF Str
  <2>4. Len(Reverse(u)) = Len(u)
    BY <2>1, <2>2, <2>3, LenProperties DEF Str, Reverse
  <2> QED
    BY <2>1, <2>3, <2>4 DEF Reverse
<1>3. IsSuffix(s, t) <=> Len(s) <= Len(t)
                         /\ \A i \in 1 .. Len(s) : Reverse(s)[i] = Reverse(t)[i]
  BY <1>2, PrefixByIndex DEF IsSuffix
<1>4. ASSUME Len(s) <= Len(t)
      PROVE  (\A i \in 1 .. Len(s) : Reverse(s)[i] = Reverse(t)[i]) <=>
             (\A i \in 1 .. Len(s) : s[i] = t[Len(t) - Len(s) + i])
  <2>1. ASSUME \A i \in 1 .. Len(s) : Reverse(s)[i] = Reverse(t)[i], NEW i \in 1 .. Len(s)
        PROVE  s[i] = t[Len(t) - Len(s) + i]
    <3>1. Len(s) - i + 1 \in 1 .. Len(s) /\ Len(s) - i + 1 \in 1 .. Len(t)
      BY <1>1, <1>4
    <3>2. Reverse(s)[Len(s) - i + 1] = s[Len(s) - (Len(s) - i + 1) + 1]
      BY <1>2, <3>1
    <3>3. Reverse(t)[Len(s) - i + 1] = t[Len(t) - (Len(s) - i + 1) + 1]
      BY <1>2, <3>1
    <3>4. /\ Len(s) - (Len(s) - i + 1) + 1 = i
          /\ Len(t) - (Len(s) - i + 1) + 1 = Len(t) - Len(s) + i
      BY <1>1
    <3> QED
      BY <2>1, <3>1, <3>2, <3>3, <3>4
  <2>2. ASSUME \A i \in 1 .. Len(s) : s[i] = t[Len(t) - Len(s) + i], NEW i \in 1 .. Len(s)
        PROVE  Reverse(s)[i] = Reverse(t)[i]
    <3>1. Len(s) - i + 1 \in 1 .. Len(s) /\ i \in 1 .. Len(t)
      BY <1>1, <1>4
    <3>2. s[Len(s) - i + 1] = t[Len(t) - Len(s) + (Len(s) - i + 1)]
      BY <2>2, <3>1
    <3>3. Len(t) - Len(s) + (Len(s) - i + 1) = Len(t) - i + 1
      BY <1>1
    <3> QED
      BY <1>2, <3>1, <3>2, <3>3
  <2> QED
    BY <2>1, <2>2
<1> QED
  BY <1>3, <1>4

(* What follows from a suffix, or a name that is put together from one.    *)
LEMMA SuffixLast ==
  ASSUME NEW s \in Str, NEW t \in Str, s # <<>>, IsSuffix(s, t)
  PROVE  t # <<>> /\ LastOf(t) = LastOf(s)
<1>1. Len(s) \in Nat \ {0} /\ Len(t) \in Nat /\ Len(s) <= Len(t)
  BY SuffixByIndex, EmptySeq, LenProperties DEF Str
<1>2. Len(s) \in 1 .. Len(s) /\ Len(t) - Len(s) + Len(s) = Len(t)
  BY <1>1
<1>3. s[Len(s)] = t[Len(t)]
  BY <1>2, SuffixByIndex
<1> QED
  BY <1>1, <1>3, EmptySeq DEF LastOf, Str

LEMMA JoinedName ==
  ASSUME NEW p \in Str, NEW s \in Str, s # <<>>
  PROVE  /\ p \o s \in Str
         /\ IsSuffix(s, p \o s)
         /\ Stem(p \o s, s) = p
         /\ LastOf(p \o s) = LastOf(s)
         /\ s[1] = "_" => IsPrefix(p \o <<"_">>, p \o s)
<1>1. Len(s) \in Nat \ {0} /\ Len(p) \in Nat
  BY EmptySeq, LenProperties DEF Str
<1>2. /\ p \o s \in Str /\ Len(p \o s) = Len(p) + Len(s)
      /\ \A i \in 1 .. Len(p) + Len(s) :
           (p \o s)[i] = IF i <= Len(p) THEN p[i] ELSE s[i - Len(p)]
  BY ConcatProperties DEF Str
<1>3. \A i \in 1 .. Len(s) : (p \o s)[Len(p) + i] = s[i]
  <2> TAKE i \in 1 .. Len(s)
  <2>1. Len(p) + i \in 1 .. Len(p) + Len(s) /\ ~(Len(p) + i <= Len(p))
        /\ (Len(p) + i) - Len(p) = i
    BY <1>1
  <2> QED
    BY <1>2, <2>1
<1>4. IsSuffix(s, p \o s)
  <2>1. Len(p \o s) - Len(s) = Len(p) /\ Len(s) <= Len(p \o s)
    BY <1>1, <1>2
  <2> QED
    BY <1>2, <1>3, <2>1, SuffixByIndex
<1>5. Stem(p \o s, s) = p
  <2>1. Len(p \o s) - Len(s) = Len(p)
    BY <1>1, <1>2
  <2>2. CASE p = <<>>
    BY <1>1, <2>1, <2>2, SubSeqEmpty, EmptySeq DEF Stem, Str
  <2>3. CASE p # <<>>
    <3>1. 1 \in 1 .. Len(p) /\ Len(p) \in 1 .. Len(p)
      BY <1>1, <2>3, EmptySeq DEF Str
    <3>2. SubSeq(p \o s, 1, Len(p)) = SubSeq(p, 1, Len(p))
      BY <3>1, SubSeqOfConcat1 DEF Str
    <3> QED
      BY <2>1, <3>2, SubSeqFull DEF Stem, Str
  <2> QED
    BY <2>2, <2>3
<1>6. LastOf(p \o s) = LastOf(s)
  BY <1>2, <1>4, SuffixLast
<1>7. ASSUME s[1] = "_" PROVE IsPrefix(p \o <<"_">>, p \o s)
  <2>1. <<"_">> \in Str /\ Len(<<"_">>) = 1 /\ <<"_">>[1] = "_"
    <3>1. "_" \in Symbol
      BY DEF Symbol
    <3>2. <<"_">> \in Str
      BY <3>1, Tuple1 DEF Str
    <3> QED
      BY <3>2
  <2>2. /\ p \o <<"_">> \in Str /\ Len(p \o <<"_">>) = Len(p) + 1
        /\ \A i \in 1 .. Len(p) + 1 :
             (p \o <<"_">>)[i] = IF i <= Len(p) THEN p[i] ELSE <<"_">>[i - Len(p)]
    BY <2>1, ConcatProperties DEF Str
  <2>3. ASSUME NEW i \in 1 .. Len(p) + 1 PROVE (p \o <<"_">>)[i] = (p \o s)[i]
    <3>1. i \in 1 .. Len(p) + Len(s)
      BY <1>1
    <3>2. CASE i <= Len(p)
      BY <1>2, <2>2, <3>1, <3>2
    <3>3. CASE ~(i <= Len(p))
      <4>1. i - Len(p) = 1
        BY <1>1, <3>3
      <4> QED
        BY <1>2, <1>7, <2>1, <2>2, <3>1, <3>3, <4>1
    <3> QED
      BY <3>2, <3>3
  <2>4. Len(p) + 1 <= Len(p \o s)
    BY <1>1, <1>2
  <2> QED
    BY <1>2, <2>2, <2>3, <2>4, PrefixByIndex
<1> QED
  BY <1>2, <1>4, <1>5, <1>6, <1>7

-----------------------------------------------------------------------------
(* The suffixes of a dump's files are told apart by their last symbols.    *)
LEMMA RoleSuffixes ==
  /\ \A s \in ArtifactSuffixes : s \in Str /\ s # <<>> /\ s[1] = "_"
  /\ LastOf(SCHEMA_INFO) = "info" /\ LastOf(SCHEMA_CLASS) = "class"
  /\ LastOf(SCHEMA_PK) = "pk" /\ LastOf(SCHEMA_UK) = "uk" /\ LastOf(SCHEMA_FK) = "fk"
  /\ LastOf(SCHEMA) = "schema" /\ LastOf(INDEXES) = "indexes"
  /\ LastOf(TRIGGER) = "trigger" /\ LastOf(OBJECTS) = "objects"
<1>1. /\ "_" \in Symbol /\ "schema" \in Symbol /\ "info" \in Symbol
      /\ "class" \in Symbol /\ "pk" \in Symbol /\ "uk" \in Symbol
      /\ "fk" \in Symbol /\ "indexes" \in Symbol /\ "trigger" \in Symbol
      /\ "objects" \in Symbol
  BY DEF Symbol
<1>2. /\ SCHEMA_INFO \in Str /\ SCHEMA_INFO # <<>> /\ SCHEMA_INFO[1] = "_"
      /\ LastOf(SCHEMA_INFO) = "info"
  BY <1>1, Tuple4 DEF Str, SCHEMA_INFO, LastOf
<1>3. /\ SCHEMA_CLASS \in Str /\ SCHEMA_CLASS # <<>> /\ SCHEMA_CLASS[1] = "_"
      /\ LastOf(SCHEMA_CLASS) = "class"
  BY <1>1, Tuple4 DEF Str, SCHEMA_CLASS, LastOf
<1>4. /\ SCHEMA_PK \in Str /\ SCHEMA_PK # <<>> /\ SCHEMA_PK[1] = "_"
      /\ LastOf(SCHEMA_PK) = "pk"
  BY <1>1, Tuple4 DEF Str, SCHEMA_PK, LastOf
<1>5. /\ SCHEMA_UK \in Str /\ SCHEMA_UK # <<>> /\ SCHEMA_UK[1] = "_"
      /\ LastOf(SCHEMA_UK) = "uk"
  BY <1>1, Tuple4 DEF Str, SCHEMA_UK, LastOf
<1>6. /\ SCHEMA_FK \in Str /\ SCHEMA_FK # <<>> /\ SCHEMA_FK[1] = "_"
      /\ LastOf(SCHEMA_FK) = "fk"
  BY <1>1, Tuple4 DEF Str, SCHEMA_FK, LastOf
<1>7. /\ SCHEMA \in Str /\ SCHEMA # <<>> /\ SCHEMA[1] = "_"
      /\ LastOf(SCHEMA) = "schema"
  BY <1>1, Tuple2 DEF Str, SCHEMA, LastOf
<1>8. /\ INDEXES \in Str /\ INDEXES # <<>> /\ INDEXES[1] = "_"
      /\ LastOf(INDEXES) = "indexes"
  BY <1>1, Tuple2 DEF Str, INDEXES, LastOf
<1>9. /\ TRIGGER \in Str /\ TRIGGER # <<>> /\ TRIGGER[1] = "_"
      /\ LastOf(TRIGGER) = "trigger"
  BY <1>1, Tuple2 DEF Str, TRIGGER, LastOf
<1>10. /\ OBJECTS \in Str /\ OBJECTS # <<>> /\ OBJECTS[1] = "_"
       /\ LastOf(OBJECTS) = "objects"
  BY <1>1, Tuple2 DEF Str, OBJECTS, LastOf
<1>11. ASSUME NEW s \in ArtifactSuffixes PROVE s \in Str /\ s # <<>> /\ s[1] = "_"
  <2>1. \/ s = SCHEMA_INFO \/ s = SCHEMA_CLASS \/ s = SCHEMA_PK \/ s = SCHEMA_UK
        \/ s = SCHEMA_FK \/ s = SCHEMA \/ s = INDEXES \/ s = TRIGGER \/ s = OBJECTS
    BY DEF ArtifactSuffixes
  <2> QED
    BY <1>2, <1>3, <1>4, <1>5, <1>6, <1>7, <1>8, <1>9, <1>10, <2>1
<1> QED
  BY <1>2, <1>3, <1>4, <1>5, <1>6, <1>7, <1>8, <1>9, <1>10, <1>11

(* A file that ends like a role other than that of the rows is, in a       *)
(* directory with one dump, that dump's file of this role.                 *)
LEMMA RoleOfSuffix ==
  ASSUME DiscoveryAssumption, dir \subseteq Name, NEW p \in Str, OneDump(p),
         NEW e \in dir, NEW s \in ArtifactSuffixes \ {OBJECTS}, IsSuffix(s, e)
  PROVE  e = p \o s
<1>1. e \in Str /\ s \in Str /\ s # <<>> /\ s[1] = "_"
  <2>1. \A t \in Seq(DOMAIN Rank) : t \in Str
    BY SeqMonotonic DEF Str, Symbol
  <2> QED
    BY <2>1, RoleSuffixes DEF DiscoveryAssumption
<1>2. LastOf(e) = LastOf(s)
  BY <1>1, SuffixLast
<1>3. LastOf(s) # LastOf(OBJECTS)
  BY RoleSuffixes DEF ArtifactSuffixes
<1>4. ~IsSuffix(OBJECTS, e)
  BY <1>1, <1>2, <1>3, SuffixLast, RoleSuffixes DEF ArtifactSuffixes
<1>5. PICK t \in ArtifactSuffixes : e = p \o t
  BY <1>4 DEF OneDump, LooksLikeArtifact
<1>6. LastOf(t) = LastOf(s)
  BY <1>2, <1>5, JoinedName, RoleSuffixes
<1>7. t = s
  BY <1>6, RoleSuffixes DEF ArtifactSuffixes
<1> QED
  BY <1>5, <1>7
-----------------------------------------------------------------------------
(* The inductive invariant.                                                *)

SetType ==
  [prefix : Str, schema : BOOLEAN, class : BOOLEAN, info : BOOLEAN,
   index : BOOLEAN, trigger : BOOLEAN, objects : SUBSET dir,
   kind : {"SINGLE", "PER_CLASS"}, layout : {"DEFAULT", "SPLIT"}]

Typed ==
  /\ dir \subseteq Name /\ listed \subseteq Name /\ nodes \subseteq ClassName
  /\ left \subseteq dir
  /\ set \in SetType
  /\ pc \in {"prefix", "classify", "discovered", "accepted", "no_dump",
             "prefix_mismatch", "schema_info_missing", "no_schema",
             "no_objects", "file_missing"}

Seen == dir \ left

(* The import_set says what has been seen, under the prefix that it has.   *)
Roles ==
  /\ pc = "prefix" => left = dir /\ set.objects = {}
                      /\ ~set.schema /\ ~set.info /\ ~set.index /\ ~set.trigger
  /\ pc # "prefix" =>
       /\ set.objects = {e \in Seen : IsSuffix(OBJECTS, e)}
       /\ set.schema <=> set.prefix \o SCHEMA \in Seen
       /\ set.info <=> set.prefix \o SCHEMA_INFO \in Seen
       /\ set.index <=> set.prefix \o INDEXES \in Seen
       /\ set.trigger <=> set.prefix \o TRIGGER \in Seen
       /\ pc \notin {"no_dump"} =>
            \A e \in Seen : LooksLikeArtifact(e) => IsPrefix(set.prefix \o <<"_">>, e)

Resolved ==
  Rostered =>
    /\ left = {}
    /\ set.layout = IF set.info THEN "SPLIT" ELSE "DEFAULT"
    /\ IF set.info THEN listed \subseteq dir ELSE set.schema
    /\ set.objects # {}

DInv == Typed /\ Roles /\ Resolved

(* A directory with one dump leads nowhere but to that dump.               *)
Leads(p) ==
  /\ pc \in {"prefix", "classify", "discovered", "accepted", "file_missing"}
  /\ pc # "prefix" => set.prefix = p

LEMMA NameIsText ==
  ASSUME DiscoveryAssumption PROVE \A n \in Name : n \in Str
BY SeqMonotonic DEF DiscoveryAssumption, Str, Symbol

LEMMA StemIsText ==
  ASSUME NEW e \in Str, NEW s \in Str PROVE Stem(e, s) \in Str
<1>1. Len(e) \in Nat /\ Len(s) \in Nat /\ \A i \in 1 .. Len(e) : e[i] \in Symbol
  BY LenProperties DEF Str
<1>2. \A i \in 1 .. Len(e) - Len(s) : e[i] \in Symbol
  BY <1>1
<1> QED
  BY <1>1, <1>2, SubSeqProperties DEF Stem, Str

LEMMA DInitInv == DInit => DInv
<1> SUFFICES ASSUME DInit PROVE DInv
  OBVIOUS
<1>1. <<>> \in Str
  BY EmptySeq DEF Str
<1>2. dir \subseteq Name /\ listed \subseteq Name /\ nodes \subseteq ClassName
  BY DEF DInit
<1>3. set \in SetType
  BY <1>1 DEF DInit, EmptySet, SetType
<1> QED
  BY <1>2, <1>3 DEF DInit, DInv, Typed, Roles, Resolved, Rostered, EmptySet

(* What derive_prefix takes for a prefix is not empty.                     *)
LEMMA DerivePrefixInv ==
  ASSUME DiscoveryAssumption, DInv, DerivePrefix
  PROVE  DInv'
<1>1. pc = "prefix" /\ UNCHANGED <<dir, listed, nodes, left>>
  BY DEF DerivePrefix, Stop
<1>2. CASE pc' = "no_dump" /\ UNCHANGED set
  BY <1>1, <1>2 DEF DInv, Typed, Roles, Resolved, Rostered, Seen, SetType
<1>3. CASE pc' = "classify" /\ \E q \in Str : set' = [set EXCEPT !.prefix = q]
  <2>1. PICK q \in Str : set' = [set EXCEPT !.prefix = q]
    BY <1>3
  <2>2. set' \in SetType' /\ set' = [set EXCEPT !.prefix = q] /\ set \in SetType
    BY <1>1, <2>1 DEF DInv, Typed, SetType
  <2>3. Typed'
    BY <1>1, <1>3, <2>2 DEF DInv, Typed
  <2>4. Seen' = {}
    BY <1>1 DEF DInv, Roles, Seen
  <2>5. set'.objects = {} /\ ~set'.schema /\ ~set'.info /\ ~set'.index /\ ~set'.trigger
    BY <1>1, <2>2 DEF DInv, Roles, SetType
  <2> QED
    BY <1>3, <2>3, <2>4, <2>5 DEF DInv, Roles, Resolved, Rostered
<1>4. ASSUME NEW k \in 1 .. Len(Anchors) + 1, NEW e \in Candidates(k)
      PROVE  Stem(e, AnchorAt(k)) \in Str
  <2>1. e \in dir
    BY <1>4 DEF Candidates
  <2>2. e \in Str
    BY <2>1, NameIsText DEF DInv, Typed
  <2>3. AnchorAt(k) \in Str
    <3>1. CASE k <= Len(Anchors)
      <4>1. k = 1 \/ k = 2 \/ k = 3 \/ k = 4 \/ k = 5
        BY <3>1 DEF Anchors
      <4>2. /\ Anchors[1] = SCHEMA_INFO /\ Anchors[2] = SCHEMA_CLASS
            /\ Anchors[3] = SCHEMA /\ Anchors[4] = INDEXES /\ Anchors[5] = TRIGGER
        BY DEF Anchors
      <4>3. Anchors[k] \in ArtifactSuffixes
        BY <4>1, <4>2 DEF ArtifactSuffixes
      <4> QED
        BY <3>1, <4>3, RoleSuffixes DEF AnchorAt
    <3>2. CASE ~(k <= Len(Anchors))
      BY <3>2, RoleSuffixes DEF AnchorAt, ArtifactSuffixes
    <3> QED
      BY <3>1, <3>2
  <2> QED
    BY <2>2, <2>3, StemIsText
<1> QED
  BY <1>2, <1>3, <1>4 DEF DerivePrefix, Stop

(* A name has at most one of the roles, told by its last symbol.           *)
LEMMA OneRole ==
  ASSUME NEW p \in Str, NEW e
  PROVE  /\ e = p \o SCHEMA => /\ e # p \o SCHEMA_CLASS /\ e # p \o SCHEMA_INFO
                               /\ e # p \o INDEXES /\ e # p \o TRIGGER
                               /\ ~IsSuffix(OBJECTS, e)
         /\ e = p \o SCHEMA_CLASS => /\ e # p \o SCHEMA_INFO /\ e # p \o INDEXES
                                     /\ e # p \o TRIGGER /\ ~IsSuffix(OBJECTS, e)
         /\ e = p \o SCHEMA_INFO => /\ e # p \o INDEXES /\ e # p \o TRIGGER
                                    /\ ~IsSuffix(OBJECTS, e)
         /\ e = p \o INDEXES => e # p \o TRIGGER /\ ~IsSuffix(OBJECTS, e)
         /\ e = p \o TRIGGER => ~IsSuffix(OBJECTS, e)
<1>1. ASSUME NEW s \in ArtifactSuffixes
      PROVE  p \o s \in Str /\ LastOf(p \o s) = LastOf(s)
  BY <1>1, JoinedName, RoleSuffixes
<1>2. ASSUME NEW s \in ArtifactSuffixes, IsSuffix(OBJECTS, p \o s)
      PROVE  LastOf(s) = "objects"
  <2>1. OBJECTS \in ArtifactSuffixes
    BY DEF ArtifactSuffixes
  <2> QED
    BY <1>1, <1>2, <2>1, SuffixLast, RoleSuffixes
<1>3. /\ SCHEMA \in ArtifactSuffixes /\ SCHEMA_CLASS \in ArtifactSuffixes
      /\ SCHEMA_INFO \in ArtifactSuffixes /\ INDEXES \in ArtifactSuffixes
      /\ TRIGGER \in ArtifactSuffixes
  BY DEF ArtifactSuffixes
<1>4. /\ LastOf(p \o SCHEMA) = "schema" /\ LastOf(p \o SCHEMA_CLASS) = "class"
      /\ LastOf(p \o SCHEMA_INFO) = "info" /\ LastOf(p \o INDEXES) = "indexes"
      /\ LastOf(p \o TRIGGER) = "trigger"
  BY <1>1, <1>3, RoleSuffixes
<1>5. /\ ~IsSuffix(OBJECTS, p \o SCHEMA) /\ ~IsSuffix(OBJECTS, p \o SCHEMA_CLASS)
      /\ ~IsSuffix(OBJECTS, p \o SCHEMA_INFO) /\ ~IsSuffix(OBJECTS, p \o INDEXES)
      /\ ~IsSuffix(OBJECTS, p \o TRIGGER)
  BY <1>2, <1>3, RoleSuffixes
<1> QED
  BY <1>4, <1>5

(* Every role and every artifact is an artifact of its suffix.             *)
LEMMA RoleIsArtifact ==
  ASSUME NEW p \in Str, NEW s \in ArtifactSuffixes
  PROVE  LooksLikeArtifact(p \o s) /\ IsPrefix(p \o <<"_">>, p \o s)
BY JoinedName, RoleSuffixes DEF LooksLikeArtifact

(* What Classify records of a name.                                        *)
LEMMA ClassifiedRole ==
  ASSUME NEW e, set \in SetType, e \in dir
  PROVE  LET p == set.prefix
             found == Classified(e)
         IN  /\ found \in SetType
             /\ found.prefix = p /\ found.layout = set.layout
             /\ found.schema <=> set.schema \/ e = p \o SCHEMA
             /\ found.info <=> set.info \/ e = p \o SCHEMA_INFO
             /\ found.index <=> set.index \/ e = p \o INDEXES
             /\ found.trigger <=> set.trigger \/ e = p \o TRIGGER
             /\ found.objects = set.objects \cup
                  (IF IsSuffix(OBJECTS, e) THEN {e} ELSE {})
<1> DEFINE p == set.prefix
<1>1. p \in Str
  BY DEF SetType
<1>2. CASE e = p \o SCHEMA
  <2>1. Classified(e) = [set EXCEPT !.schema = TRUE]
    BY <1>2 DEF Classified
  <2> QED
    BY <1>1, <1>2, <2>1, OneRole DEF SetType
<1>3. CASE e = p \o SCHEMA_CLASS
  <2>1. Classified(e) = [set EXCEPT !.class = TRUE]
    BY <1>1, <1>3, OneRole DEF Classified
  <2> QED
    BY <1>1, <1>3, <2>1, OneRole DEF SetType
<1>4. CASE e = p \o SCHEMA_INFO
  <2>1. Classified(e) = [set EXCEPT !.info = TRUE]
    BY <1>1, <1>4, OneRole DEF Classified
  <2> QED
    BY <1>1, <1>4, <2>1, OneRole DEF SetType
<1>5. CASE e = p \o INDEXES
  <2>1. Classified(e) = [set EXCEPT !.index = TRUE]
    BY <1>1, <1>5, OneRole DEF Classified
  <2> QED
    BY <1>1, <1>5, <2>1, OneRole DEF SetType
<1>6. CASE e = p \o TRIGGER
  <2>1. Classified(e) = [set EXCEPT !.trigger = TRUE]
    BY <1>1, <1>6, OneRole DEF Classified
  <2> QED
    BY <1>1, <1>6, <2>1, OneRole DEF SetType
<1>7. CASE /\ e # p \o SCHEMA /\ e # p \o SCHEMA_CLASS /\ e # p \o SCHEMA_INFO
           /\ e # p \o INDEXES /\ e # p \o TRIGGER
  <2>1. CASE IsSuffix(OBJECTS, e)
    <3>1. \E k \in {"SINGLE", "PER_CLASS"} :
            Classified(e) = [set EXCEPT !.objects = @ \cup {e}, !.kind = k]
      BY <1>7, <2>1 DEF Classified
    <3>2. PICK k \in {"SINGLE", "PER_CLASS"} :
            Classified(e) = [set EXCEPT !.objects = @ \cup {e}, !.kind = k]
      BY <3>1
    <3>3. Classified(e) \in SetType
      <4>1. set.objects \cup {e} \in SUBSET dir
        BY DEF SetType
      <4> QED
        BY <3>2, <4>1 DEF SetType
    <3> QED
      BY <1>7, <2>1, <3>2, <3>3 DEF SetType
  <2>2. CASE ~IsSuffix(OBJECTS, e)
    <3>1. Classified(e) = set
      BY <1>7, <2>2 DEF Classified
    <3> QED
      BY <1>7, <2>2, <3>1 DEF SetType
  <2> QED
    BY <2>1, <2>2
<1> QED
  BY <1>2, <1>3, <1>4, <1>5, <1>6, <1>7

LEMMA ClassifyInv ==
  ASSUME DiscoveryAssumption, DInv, NEW e \in left, Classify(e)
  PROVE  DInv'
<1> DEFINE p == set.prefix
<1>1. pc = "classify" /\ UNCHANGED <<dir, listed, nodes>>
  BY DEF Classify, Stop
<1>2. e \in dir /\ e \in Str /\ p \in Str /\ set \in SetType /\ left \subseteq dir
  BY NameIsText DEF DInv, Typed, SetType
<1>3. CASE pc' = "prefix_mismatch" /\ UNCHANGED <<left, set>>
  BY <1>1, <1>3 DEF DInv, Typed, Roles, Resolved, Rostered, Seen, SetType
<1>4. CASE pc' = "classify" /\ left' = left \ {e}
  <2>1. Seen' = Seen \cup {e}
    BY <1>1, <1>2, <1>4 DEF Seen
  <2>2. CASE IsPrefix(p \o <<"_">>, e) /\ set' = Classified(e)
    <3>1. /\ set' \in SetType
          /\ set'.prefix = p
          /\ set'.schema <=> set.schema \/ e = p \o SCHEMA
          /\ set'.info <=> set.info \/ e = p \o SCHEMA_INFO
          /\ set'.index <=> set.index \/ e = p \o INDEXES
          /\ set'.trigger <=> set.trigger \/ e = p \o TRIGGER
          /\ set'.objects = set.objects \cup (IF IsSuffix(OBJECTS, e) THEN {e} ELSE {})
      BY <1>2, <2>2, ClassifiedRole
    <3>2. Typed'
      BY <1>1, <1>2, <1>4, <3>1 DEF DInv, Typed, SetType
    <3>3. Roles'
      BY <1>1, <1>4, <2>1, <2>2, <3>1 DEF DInv, Roles
    <3> QED
      BY <1>4, <3>2, <3>3 DEF DInv, Resolved, Rostered
  <2>3. CASE ~LooksLikeArtifact(e) /\ UNCHANGED set
    <3>1. /\ ~IsSuffix(OBJECTS, e)
          /\ e # p \o SCHEMA /\ e # p \o SCHEMA_INFO /\ e # p \o INDEXES /\ e # p \o TRIGGER
      BY <1>2, <2>3, RoleIsArtifact DEF LooksLikeArtifact, ArtifactSuffixes
    <3>2. Typed'
      BY <1>1, <1>2, <1>4, <2>3 DEF DInv, Typed, SetType
    <3>3. Roles'
      BY <1>1, <1>4, <2>1, <2>3, <3>1 DEF DInv, Roles
    <3> QED
      BY <1>4, <3>2, <3>3 DEF DInv, Resolved, Rostered
  <2> QED
    BY <1>4, <2>2, <2>3, <1>1 DEF Classify, Stop
<1> QED
  BY <1>1, <1>3, <1>4 DEF Classify, Stop

LEMMA ResolveInv == DInv /\ Resolve => DInv'
<1> SUFFICES ASSUME DInv, Resolve PROVE DInv'
  OBVIOUS
<1>1. /\ pc = "classify" /\ left = {} /\ UNCHANGED <<dir, listed, nodes, left>>
      /\ set \in SetType
  BY DEF Resolve, Stop, DInv, Typed
<1>2. CASE pc' # "discovered" /\ UNCHANGED set
  <2>1. pc' \in {"schema_info_missing", "no_schema", "no_objects"}
    BY <1>2 DEF Resolve, Stop
  <2> QED
    BY <1>1, <1>2, <2>1 DEF DInv, Typed, Roles, Resolved, Rostered, Seen, SetType
<1>3. CASE /\ IF set.info THEN ListedThere ELSE set.schema
           /\ set.objects # {}
           /\ set' = [set EXCEPT !.layout = IF set.info THEN "SPLIT" ELSE "DEFAULT"]
           /\ pc' = "discovered"
  <2>1. PICK l \in {"DEFAULT", "SPLIT"} : set' = [set EXCEPT !.layout = l]
    BY <1>3
  <2>2. /\ set' \in SetType
        /\ set'.prefix = set.prefix /\ set'.objects = set.objects
        /\ set'.schema = set.schema /\ set'.info = set.info
        /\ set'.index = set.index /\ set'.trigger = set.trigger
    BY <1>1, <2>1 DEF SetType
  <2>3. set'.layout = IF set.info THEN "SPLIT" ELSE "DEFAULT"
    BY <1>1, <1>3 DEF SetType
  <2>4. Typed'
    BY <1>1, <1>3, <2>2 DEF DInv, Typed, SetType
  <2>5. Roles'
    BY <1>1, <1>3, <2>2 DEF DInv, Roles, Seen
  <2>6. Resolved'
    BY <1>1, <1>3, <2>2, <2>3 DEF Resolved, ListedThere
  <2> QED
    BY <2>4, <2>5, <2>6 DEF DInv
<1> QED
  BY <1>2, <1>3 DEF Resolve, Stop

LEMMA CheckRosterInv == DInv /\ CheckRoster => DInv'
<1> SUFFICES ASSUME DInv, CheckRoster PROVE DInv'
  OBVIOUS
<1>1. pc = "discovered" /\ pc' \in {"accepted", "file_missing"}
      /\ UNCHANGED <<dir, listed, nodes, left, set>>
  BY DEF CheckRoster, Stop
<1> QED
  BY <1>1 DEF DInv, Typed, Roles, Resolved, Rostered, Seen, SetType

(* DInv holds in every reachable state.                                    *)
THEOREM DInductive == DSpec => []DInv
<1>1. DInv /\ [DNext]_dvars => DInv'
  <2> SUFFICES ASSUME DInv, [DNext]_dvars PROVE DInv'
    OBVIOUS
  <2>1. CASE DerivePrefix
    BY <2>1, DerivePrefixInv, DiscoveryAssumption
  <2>2. CASE \E e \in left : Classify(e)
    BY <2>2, ClassifyInv, DiscoveryAssumption
  <2>3. CASE Resolve
    BY <2>3, ResolveInv
  <2>4. CASE CheckRoster
    BY <2>4, CheckRosterInv
  <2>5. CASE UNCHANGED dvars
    <3>1. Typed'
      BY <2>5 DEF dvars, DInv, Typed, SetType
    <3>2. Roles'
      BY <2>5 DEF dvars, DInv, Roles, Seen
    <3>3. Resolved'
      BY <2>5 DEF dvars, DInv, Resolved, Rostered
    <3> QED
      BY <3>1, <3>2, <3>3 DEF DInv
  <2> QED
    BY <2>1, <2>2, <2>3, <2>4, <2>5 DEF DNext, Ended
<1> QED
  BY <1>1, DInitInv, PTL DEF DSpec

(* Type correctness, for any directory.                                    *)
THEOREM TypeCorrect == DSpec => []TypeOK
<1>1. DInv => TypeOK
  BY DEF DInv, Typed, TypeOK, SetType
<1> QED
  BY <1>1, DInductive, PTL

(* Nothing that a later phase opens is missing (import_discovery.cpp       *)
(* l.284), for any directory and any list of names in schema_info.         *)
THEOREM FilesThere == DSpec => []NothingMissing
<1>1. DInv => NothingMissing
  BY DEF DInv, Typed, Roles, Resolved, Rostered, Seen, SetType, NothingMissing
<1> QED
  BY <1>1, DInductive, PTL

-----------------------------------------------------------------------------
(* A directory with one dump.                                              *)

LEMMA DerivePrefixLeads ==
  ASSUME DiscoveryAssumption, DInv, DerivePrefix, NEW p \in Str, OneDump(p)
  PROVE  Leads(p)'
<1> DEFINE Schemas == {SCHEMA_INFO, SCHEMA_CLASS, SCHEMA}
<1>1. dir \subseteq Name
  BY DEF DInv, Typed
<1>2. /\ Len(Anchors) = 5
      /\ Anchors[1] = SCHEMA_INFO /\ Anchors[2] = SCHEMA_CLASS /\ Anchors[3] = SCHEMA
  BY DEF Anchors
<1>3. Candidates(1) # {} \/ Candidates(3) # {}
  <2>1. CASE p \o SCHEMA_INFO \in dir
    <3>1. IsSuffix(SCHEMA_INFO, p \o SCHEMA_INFO)
      BY JoinedName, RoleSuffixes DEF ArtifactSuffixes
    <3>2. p \o SCHEMA_INFO \in Candidates(1)
      BY <1>2, <2>1, <3>1 DEF Candidates
    <3> QED
      BY <3>2
  <2>2. CASE p \o SCHEMA \in dir
    <3>1. IsSuffix(SCHEMA, p \o SCHEMA)
      BY JoinedName, RoleSuffixes DEF ArtifactSuffixes
    <3>2. p \o SCHEMA \in Candidates(3)
      BY <1>2, <2>2, <3>1 DEF Candidates
    <3> QED
      BY <3>2
  <2> QED
    BY <2>1, <2>2 DEF OneDump
<1>4. ASSUME NEW k \in 1 .. Len(Anchors) + 1, \A j \in 1 .. k - 1 : Candidates(j) = {},
             NEW e \in Candidates(k)
      PROVE  Stem(e, AnchorAt(k)) = p
  <2>1. k = 1 \/ k = 2 \/ k = 3
    <3>1. ~(3 \in 1 .. k - 1) \/ ~(1 \in 1 .. k - 1)
      BY <1>3, <1>4
    <3> QED
      BY <1>2, <3>1
  <2>2. /\ AnchorAt(k) \in Schemas
        /\ e \in dir /\ IsSuffix(AnchorAt(k), e)
    BY <1>2, <1>4, <2>1 DEF AnchorAt, Candidates
  <2>3. AnchorAt(k) \in ArtifactSuffixes /\ AnchorAt(k) # OBJECTS
    BY <2>2, RoleSuffixes DEF ArtifactSuffixes
  <2>4. e = p \o AnchorAt(k)
    BY <1>1, <2>2, <2>3, RoleOfSuffix
  <2> QED
    BY <2>3, <2>4, JoinedName, RoleSuffixes
<1>5. p # <<>>
  BY DEF OneDump
<1>6. ~\A k \in 1 .. Len(Anchors) + 1 : Candidates(k) = {}
  <2>1. 1 \in 1 .. Len(Anchors) + 1 /\ 3 \in 1 .. Len(Anchors) + 1
    BY <1>2
  <2> QED
    BY <1>3, <2>1
<1>7. pc' = "classify" /\ set' = [set EXCEPT !.prefix = p]
  BY <1>4, <1>5, <1>6 DEF DerivePrefix
<1>8. set'.prefix = p
  BY <1>7 DEF DInv, Typed, SetType
<1> QED
  BY <1>7, <1>8 DEF Leads

LEMMA ClassifyLeads ==
  ASSUME DiscoveryAssumption, DInv, NEW e \in left, Classify(e),
         NEW p \in Str, OneDump(p), Leads(p)
  PROVE  Leads(p)'
<1>1. /\ pc = "classify" /\ set.prefix = p /\ e \in dir /\ e \in Str
      /\ set \in SetType
  BY NameIsText DEF Classify, Leads, DInv, Typed
<1>2. LooksLikeArtifact(e) => IsPrefix(p \o <<"_">>, e)
  BY <1>1, RoleIsArtifact DEF OneDump
<1>3. Classified(e).prefix = p
  BY <1>1, ClassifiedRole
<1> QED
  BY <1>1, <1>2, <1>3 DEF Classify, Stop, Leads

LEMMA ResolveLeads ==
  ASSUME DInv, Resolve, NEW p \in Str, OneDump(p), Leads(p)
  PROVE  Leads(p)'
<1>1. /\ pc = "classify" /\ left = {} /\ set.prefix = p /\ set \in SetType /\ Seen = dir
  BY DEF Resolve, Leads, DInv, Typed, Seen
<1>2. /\ set.objects = {e \in dir : IsSuffix(OBJECTS, e)}
      /\ set.schema <=> p \o SCHEMA \in dir
      /\ set.info <=> p \o SCHEMA_INFO \in dir
  BY <1>1 DEF DInv, Roles
<1>3. set.objects # {}
  BY <1>2 DEF OneDump
<1>4. IF set.info THEN ListedThere ELSE set.schema
  BY <1>2 DEF OneDump, ListedThere
<1>5. pc' = "discovered"
      /\ set' = [set EXCEPT !.layout = IF set.info THEN "SPLIT" ELSE "DEFAULT"]
  BY <1>3, <1>4 DEF Resolve
<1>6. set'.prefix = p
  BY <1>1, <1>5 DEF SetType
<1> QED
  BY <1>5, <1>6 DEF Leads

(* A directory that holds one dump is discovered as that dump, with all of *)
(* its files in their roles: for any names, any other files beside them,   *)
(* and any order of the entries.                                           *)
THEOREM DumpFound == DSpec => []OneDumpFound
<1> DEFINE Dumps == \A p \in Str : OneDump(p) => Leads(p)
<1>1. DInit => Dumps
  BY DEF DInit, Leads
<1>2. DInv /\ Dumps /\ [DNext]_dvars => Dumps'
  <2> SUFFICES ASSUME DInv, Dumps, [DNext]_dvars, NEW p \in Str, OneDump(p)'
               PROVE  Leads(p)'
    OBVIOUS
  <2>1. UNCHANGED <<dir, listed>>
    BY DEF DNext, dvars, DerivePrefix, Classify, Resolve, CheckRoster, Ended, Stop
  <2>2. OneDump(p) /\ Leads(p)
    BY <2>1 DEF OneDump
  <2>3. CASE DerivePrefix
    BY <2>2, <2>3, DerivePrefixLeads, DiscoveryAssumption
  <2>4. CASE \E e \in left : Classify(e)
    BY <2>2, <2>4, ClassifyLeads, DiscoveryAssumption
  <2>5. CASE Resolve
    BY <2>2, <2>5, ResolveLeads
  <2>6. CASE CheckRoster
    BY <2>2, <2>6 DEF CheckRoster, Stop, Leads
  <2>7. CASE UNCHANGED dvars
    BY <2>2, <2>7 DEF dvars, Leads
  <2> QED
    BY <2>3, <2>4, <2>5, <2>6, <2>7 DEF DNext, Ended
<1>3. DInv /\ Dumps => OneDumpFound
  <2> SUFFICES ASSUME DInv, Dumps,
                      NEW e \in {n \in dir : LooksLikeArtifact(n)}, NEW s \in ArtifactSuffixes,
                      NEW p, p = Stem(e, s), OneDump(p), pc \notin {"prefix", "classify"}
               PROVE  /\ Rostered
                      /\ set.prefix = p
                      /\ set.objects = {f \in dir : IsSuffix(OBJECTS, f)}
                      /\ set.index = (p \o INDEXES \in dir)
                      /\ set.trigger = (p \o TRIGGER \in dir)
                      /\ set.layout = IF p \o SCHEMA_INFO \in dir THEN "SPLIT" ELSE "DEFAULT"
    BY DEF OneDumpFound
  <2>1. p \in Str
    BY NameIsText, StemIsText, RoleSuffixes, DiscoveryAssumption DEF DInv, Typed
  <2>2. Rostered /\ set.prefix = p /\ Seen = dir
    BY <2>1 DEF Leads, DInv, Resolved, Rostered, Seen
  <2>3. /\ set.objects = {f \in dir : IsSuffix(OBJECTS, f)}
        /\ set.info <=> p \o SCHEMA_INFO \in dir
        /\ set.index <=> p \o INDEXES \in dir
        /\ set.trigger <=> p \o TRIGGER \in dir
    BY <2>2 DEF DInv, Roles, Rostered
  <2>4. set.layout = IF p \o SCHEMA_INFO \in dir THEN "SPLIT" ELSE "DEFAULT"
    BY <2>2, <2>3 DEF DInv, Resolved
  <2>5. set.index \in BOOLEAN /\ set.trigger \in BOOLEAN
    BY DEF DInv, Typed, SetType
  <2> QED
    BY <2>2, <2>3, <2>4, <2>5
<1> QED
  BY <1>1, <1>2, <1>3, DInductive, PTL DEF DSpec

-----------------------------------------------------------------------------
(* ManifestText: induction over sequences, and FlattenSeq.                 *)

(* Induction, as sets.                                                     *)
LEMMA NatSet ==
  ASSUME NEW S, 0 \in S, \A n \in Nat : n \in S => n + 1 \in S
  PROVE  Nat \subseteq S
<1> DEFINE rest == Nat \ S
<1> SUFFICES ASSUME rest # {} PROVE FALSE
  OBVIOUS
<1>1. PICK n \in rest : \A m \in rest : <<m, n>> \notin OpToRel(<, Nat)
  <2>1. rest \subseteq Nat
    OBVIOUS
  <2> QED
    BY <2>1, NatLessThanWellFounded, WFMin
<1>2. \A m \in rest : ~(m < n)
  BY <1>1 DEF OpToRel
<1>3. n # 0 /\ n \in Nat
  OBVIOUS
<1>4. n - 1 \in Nat /\ n - 1 < n
  BY <1>3
<1>5. n - 1 \in S
  BY <1>2, <1>4
<1> QED
  BY <1>3, <1>4, <1>5

LEMMA SeqSet ==
  ASSUME NEW A, NEW S, <<>> \in S,
         \A s \in Seq(A) : s \in S => \A a \in A : Append(s, a) \in S
  PROVE  Seq(A) \subseteq S
<1> DEFINE ok == {n \in Nat : \A s \in Seq(A) : Len(s) = n => s \in S}
<1>1. 0 \in ok
  <2>1. \A s \in Seq(A) : Len(s) = 0 => s = <<>>
    BY EmptySeq
  <2> QED
    BY <2>1
<1>2. ASSUME NEW n \in Nat, n \in ok PROVE n + 1 \in ok
  <2> SUFFICES ASSUME NEW s \in Seq(A), Len(s) = n + 1 PROVE s \in S
    OBVIOUS
  <2>1. PICK t \in Seq(A), a \in A : s = Append(t, a)
    BY SequenceEmptyOrAppend, EmptySeq
  <2>2. Len(t) = n
    BY <2>1, AppendProperties
  <2> QED
    BY <2>1, <2>2, <1>2
<1>3. Nat \subseteq ok
  <2> HIDE DEF ok
  <2> QED
    BY <1>1, <1>2, NatSet
<1> QED
  BY <1>3, LenProperties

LEMMA FlattenExists ==
  ASSUME NEW xs, NEW n \in Nat
  PROVE  \E f : f = [i \in 1 .. n |-> IF i = 1 THEN xs[i] ELSE f[i-1] \o xs[i]]
<1> DEFINE Good(f, k) ==
      /\ f = [i \in 1 .. k |-> f[i]]
      /\ \A i \in 1 .. k : f[i] = IF i = 1 THEN xs[i] ELSE f[i-1] \o xs[i]
           ok == {k \in Nat : \E f : Good(f, k)}
<1>1. 0 \in ok
  <2>1. Good([i \in 1 .. 0 |-> xs[i]], 0)
    OBVIOUS
  <2> QED
    BY <2>1
<1>2. ASSUME NEW k \in Nat, k \in ok PROVE k + 1 \in ok
  <2>1. PICK f : Good(f, k)
    BY <1>2
  <2> DEFINE g == [i \in 1 .. k + 1 |-> IF i \in 1 .. k THEN f[i]
                                       ELSE IF i = 1 THEN xs[i] ELSE f[i-1] \o xs[i]]
  <2>2. \A i \in 1 .. k : g[i] = f[i]
    OBVIOUS
  <2>3. ASSUME NEW i \in 1 .. k + 1
        PROVE  g[i] = IF i = 1 THEN xs[i] ELSE g[i-1] \o xs[i]
    <3>1. i # 1 => i - 1 \in 1 .. k
      OBVIOUS
    <3>2. CASE i \in 1 .. k
      <4>1. f[i] = IF i = 1 THEN xs[i] ELSE f[i-1] \o xs[i]
        BY <2>1, <3>2
      <4> QED
        BY <2>2, <3>1, <3>2, <4>1
    <3>3. CASE i \notin 1 .. k
      <4>2. g[i] = IF i = 1 THEN xs[i] ELSE f[i-1] \o xs[i]
        BY <3>3
      <4> QED
        BY <2>2, <3>1, <4>2
    <3> QED
      BY <3>2, <3>3
  <2>4. g = [i \in 1 .. k + 1 |-> g[i]]
    OBVIOUS
  <2> HIDE DEF g
  <2>5. Good(g, k + 1)
    BY <2>3, <2>4
  <2> HIDE DEF Good
  <2> QED
    BY <2>5
<1>3. n \in ok
  <2> HIDE DEF ok
  <2> QED
    BY <1>1, <1>2, NatSet
<1>4. PICK f : Good(f, n)
  BY <1>3
<1>5. f = [i \in 1 .. n |-> IF i = 1 THEN xs[i] ELSE f[i-1] \o xs[i]]
  BY <1>4
<1> QED
  BY <1>5, Zenon

LEMMA FlattenIs ==
  ASSUME NEW A, NEW xs \in Seq(A), xs # <<>>
  PROVE  \E f : /\ f = [i \in 1 .. Len(xs) |-> IF i = 1 THEN xs[i] ELSE f[i-1] \o xs[i]]
                /\ FlattenSeq(xs) = f[Len(xs)]
<1> DEFINE f == CHOOSE f : f = [i \in 1 .. Len(xs) |-> IF i = 1 THEN xs[i] ELSE f[i-1] \o xs[i]]
<1>0. Len(xs) \in Nat
  BY LenProperties
<1>1. f = [i \in 1 .. Len(xs) |-> IF i = 1 THEN xs[i] ELSE f[i-1] \o xs[i]]
  <2>1. \E g : g = [i \in 1 .. Len(xs) |-> IF i = 1 THEN xs[i] ELSE g[i-1] \o xs[i]]
    BY FlattenExists, <1>0, Zenon
  <2> QED
    BY <2>1, Zenon
<1>2. FlattenSeq(xs) = f[Len(xs)]
  BY EmptySeq DEF FlattenSeq
<1> HIDE DEF f
<1> QED
  BY <1>1, <1>2, Zenon

LEMMA FlattenNone == FlattenSeq(<<>>) = <<>>
  BY EmptySeq DEF FlattenSeq

LEMMA FlattenNext ==
  ASSUME NEW A, NEW xs \in Seq(Seq(A)), NEW x \in Seq(A)
  PROVE  FlattenSeq(Append(xs, x)) = FlattenSeq(xs) \o x
<1> DEFINE ys == Append(xs, x)
           n == Len(xs)
<1>1. /\ n \in Nat /\ ys \in Seq(Seq(A)) /\ Len(ys) = n + 1 /\ ys[n + 1] = x
      /\ \A i \in 1 .. n : ys[i] = xs[i]
  BY AppendProperties, LenProperties
<1>0. n = Len(xs) /\ Len(xs) \in Nat
  BY LenProperties
<1>a. Append(xs, x) = ys
  OBVIOUS
<1> HIDE DEF n, ys
<1>2. ys # <<>>
  BY <1>1, EmptySeq
<1>3. PICK g : /\ g = [i \in 1 .. Len(ys) |-> IF i = 1 THEN ys[i] ELSE g[i-1] \o ys[i]]
               /\ FlattenSeq(ys) = g[Len(ys)]
  BY <1>1, <1>2, FlattenIs
<1>g. \A i \in 1 .. n + 1 : g[i] = IF i = 1 THEN ys[i] ELSE g[i-1] \o ys[i]
  BY <1>1, <1>3
<1>4. CASE xs = <<>>
  <2>1. n = 0
    BY <1>0, <1>4, EmptySeq
  <2>2. g[1] = x
    BY <1>1, <1>g, <2>1
  <2>3. FlattenSeq(xs) = <<>>
    BY <1>4, FlattenNone
  <2> QED
    BY <1>1, <1>3, <1>a, <2>1, <2>2, <2>3, ConcatEmptySeq
<1>5. CASE xs # <<>>
  <2>1. PICK f : /\ f = [i \in 1 .. Len(xs) |-> IF i = 1 THEN xs[i] ELSE f[i-1] \o xs[i]]
                 /\ FlattenSeq(xs) = f[Len(xs)]
    BY <1>5, FlattenIs
  <2>f. \A i \in 1 .. n : f[i] = IF i = 1 THEN xs[i] ELSE f[i-1] \o xs[i]
    BY <1>0, <1>1, <2>1
  <2>2. n >= 1
    BY <1>0, <1>1, <1>5, EmptySeq
  <2> DEFINE ok == {k \in Nat : 1 <= k /\ k <= n => f[k] = g[k]}
  <2>3. ASSUME NEW k \in Nat, k \in ok PROVE k + 1 \in ok
    <3> SUFFICES ASSUME k + 1 <= n PROVE f[k + 1] = g[k + 1]
      OBVIOUS
    <3>1. k + 1 \in 1 .. n /\ k + 1 \in 1 .. n + 1 /\ (k + 1) - 1 = k
      BY <1>1
    <3>2. f[k + 1] = IF k + 1 = 1 THEN xs[k + 1] ELSE f[k] \o xs[k + 1]
      BY <2>f, <3>1
    <3>3. g[k + 1] = IF k + 1 = 1 THEN ys[k + 1] ELSE g[k] \o ys[k + 1]
      BY <1>g, <3>1
    <3>4. k + 1 # 1 => f[k] = g[k]
      BY <1>1, <2>3, <3>1
    <3> QED
      BY <1>1, <3>1, <3>2, <3>3, <3>4
  <2>4. 0 \in ok
    OBVIOUS
  <2>5. f[n] = g[n]
    <3>1. Nat \subseteq ok
      <4> HIDE DEF ok
      <4> QED
        BY <2>3, <2>4, NatSet
    <3> QED
      BY <1>1, <2>2, <3>1
  <2>6. g[n + 1] = g[n] \o x
    <3>1. n + 1 \in 1 .. n + 1 /\ n + 1 # 1 /\ (n + 1) - 1 = n
      BY <1>1, <2>2
    <3> QED
      BY <1>1, <1>g, <3>1
  <2> QED
    BY <1>0, <1>1, <1>3, <1>a, <2>1, <2>5, <2>6
<1> QED
  BY <1>4, <1>5

LEMMA FlattenType ==
  ASSUME NEW A PROVE \A xs \in Seq(Seq(A)) : FlattenSeq(xs) \in Seq(A)
<1> DEFINE ok == {xs \in Seq(Seq(A)) : FlattenSeq(xs) \in Seq(A)}
<1>1. <<>> \in ok
  BY FlattenNone, EmptySeq
<1>2. ASSUME NEW xs \in Seq(Seq(A)), xs \in ok, NEW x \in Seq(A)
      PROVE  Append(xs, x) \in ok
  <2>1. FlattenSeq(xs) \o x \in Seq(A)
    BY <1>2, ConcatProperties
  <2> QED
    BY <2>1, FlattenNext, AppendProperties
<1>3. Seq(Seq(A)) \subseteq ok
  <2> HIDE DEF ok
  <2> QED
    BY <1>1, <1>2, SeqSet
<1> QED
  BY <1>3

LEMMA FlattenConcat ==
  ASSUME NEW A, NEW xs \in Seq(Seq(A))
  PROVE  \A ys \in Seq(Seq(A)) : FlattenSeq(xs \o ys) = FlattenSeq(xs) \o FlattenSeq(ys)
<1> DEFINE ok == {ys \in Seq(Seq(A)) : FlattenSeq(xs \o ys) = FlattenSeq(xs) \o FlattenSeq(ys)}
<1>1. <<>> \in ok
  BY FlattenNone, EmptySeq, ConcatEmptySeq, FlattenType
<1>2. ASSUME NEW ys \in Seq(Seq(A)), ys \in ok, NEW y \in Seq(A)
      PROVE  Append(ys, y) \in ok
  <2>1. xs \o Append(ys, y) = Append(xs \o ys, y)
    <3>1. Append(ys, y) = ys \o <<y>> /\ Append(xs \o ys, y) = (xs \o ys) \o <<y>>
      BY AppendIsConcat, ConcatProperties
    <3>2. <<y>> \in Seq(Seq(A))
      OBVIOUS
    <3> QED
      BY <3>1, <3>2, ConcatAssociative
  <2>2. xs \o ys \in Seq(Seq(A))
    BY ConcatProperties
  <2>3. FlattenSeq(xs \o Append(ys, y)) = FlattenSeq(xs \o ys) \o y
    BY <2>1, <2>2, FlattenNext
  <2>4. FlattenSeq(xs) \in Seq(A) /\ FlattenSeq(ys) \in Seq(A)
    BY FlattenType
  <2>5. (FlattenSeq(xs) \o FlattenSeq(ys)) \o y = FlattenSeq(xs) \o (FlattenSeq(ys) \o y)
    BY <2>4, ConcatAssociative
  <2>6. FlattenSeq(Append(ys, y)) = FlattenSeq(ys) \o y
    BY FlattenNext
  <2> QED
    BY <1>2, <2>3, <2>5, <2>6, AppendProperties
<1>3. Seq(Seq(A)) \subseteq ok
  <2> HIDE DEF ok
  <2> QED
    BY <1>1, <1>2, SeqSet
<1> QED
  BY <1>3

-----------------------------------------------------------------------------
(* Split and ReadLines, one element at a time.                             *)

SplitStep(done, x, sep) ==
  IF x = sep THEN Append(done, <<>>) ELSE [done EXCEPT ![Len(done)] = Append(@, x)]

LEMMA SplitIs ==
  ASSUME NEW sep, NEW t, Len(t) \in Nat
  PROVE  \E f : /\ \A k \in 0 .. Len(t) : f[k] = IF k = 0 THEN << <<>> >> ELSE SplitStep(f[k - 1], t[k], sep)
                /\ Split(t, sep) = f[Len(t)]
<1> DEFINE Good(f, j) ==
      /\ f = [k \in 0 .. j |-> f[k]]
      /\ \A k \in 0 .. j : f[k] = IF k = 0 THEN << <<>> >> ELSE SplitStep(f[k - 1], t[k], sep)
           ok == {j \in Nat : \E f : Good(f, j)}
<1>1. 0 \in ok
  <2> DEFINE g == [k \in 0 .. 0 |-> << <<>> >>]
  <2>1. g[0] = << <<>> >> /\ g = [k \in 0 .. 0 |-> g[k]]
    OBVIOUS
  <2>2. \A k \in 0 .. 0 : k = 0
    OBVIOUS
  <2> HIDE DEF g
  <2>3. Good(g, 0)
    BY <2>1, <2>2
  <2> HIDE DEF Good
  <2> QED
    BY <2>3
<1>2. ASSUME NEW j \in Nat, j \in ok PROVE j + 1 \in ok
  <2>1. PICK f : Good(f, j)
    BY <1>2
  <2> DEFINE g == [k \in 0 .. j + 1 |-> IF k \in 0 .. j THEN f[k] ELSE IF k = 0 THEN << <<>> >> ELSE SplitStep(f[k - 1], t[k], sep)]
  <2>2. \A k \in 0 .. j : g[k] = f[k]
    OBVIOUS
  <2>3. ASSUME NEW k \in 0 .. j + 1
        PROVE  g[k] = IF k = 0 THEN << <<>> >> ELSE SplitStep(g[k - 1], t[k], sep)
    <3>1. k # 0 => k - 1 \in 0 .. j
      OBVIOUS
    <3>2. CASE k \in 0 .. j
      <4>1. f[k] = IF k = 0 THEN << <<>> >> ELSE SplitStep(f[k - 1], t[k], sep)
        BY <2>1, <3>2
      <4> QED
        BY <2>2, <3>1, <3>2, <4>1
    <3>3. CASE k \notin 0 .. j
      <4>2. g[k] = IF k = 0 THEN << <<>> >> ELSE SplitStep(f[k - 1], t[k], sep)
        BY <3>3
      <4> QED
        BY <2>2, <3>1, <4>2
    <3> QED
      BY <3>2, <3>3
  <2>4. g = [k \in 0 .. j + 1 |-> g[k]]
    OBVIOUS
  <2> HIDE DEF g
  <2>5. Good(g, j + 1)
    BY <2>3, <2>4
  <2> HIDE DEF Good
  <2> QED
    BY <2>5
<1>3. \E f : Good(f, Len(t))
  <2> HIDE DEF ok
  <2>1. Len(t) \in ok
    BY <1>1, <1>2, NatSet
  <2> HIDE DEF Good
  <2> QED
    BY <2>1 DEF ok
<1> DEFINE f == CHOOSE f : f = [k \in 0 .. Len(t) |-> IF k = 0 THEN << <<>> >> ELSE LET done == f[k - 1] IN IF t[k] = sep THEN Append(done, <<>>) ELSE [done EXCEPT ![Len(done)] = Append(@, t[k])]]
<1>4. f = [k \in 0 .. Len(t) |-> IF k = 0 THEN << <<>> >> ELSE LET done == f[k - 1] IN IF t[k] = sep THEN Append(done, <<>>) ELSE [done EXCEPT ![Len(done)] = Append(@, t[k])]]
  <2>1. PICK g : Good(g, Len(t))
    BY <1>3
  <2>2. g = [k \in 0 .. Len(t) |-> IF k = 0 THEN << <<>> >> ELSE LET done == g[k - 1] IN IF t[k] = sep THEN Append(done, <<>>) ELSE [done EXCEPT ![Len(done)] = Append(@, t[k])]]
    BY <2>1 DEF SplitStep
  <2> QED
    BY <2>2, Zenon
<1>5. Split(t, sep) = f[Len(t)]
  BY DEF Split
<1> HIDE DEF f, Good
<1>6. \A k \in 0 .. Len(t) : f[k] = IF k = 0 THEN << <<>> >> ELSE SplitStep(f[k - 1], t[k], sep)
  BY <1>4 DEF SplitStep
<1> QED
  BY <1>5, <1>6, Zenon

LEMMA SplitNone == ASSUME NEW sep PROVE Split(<<>>, sep) = << <<>> >>
<1>1. Len(<<>>) = 0 /\ 0 \in 0 .. Len(<<>>)
  OBVIOUS
<1>2. PICK f : /\ \A k \in 0 .. Len(<<>>) : f[k] = IF k = 0 THEN << <<>> >> ELSE SplitStep(f[k - 1], <<>>[k], sep)
               /\ Split(<<>>, sep) = f[Len(<<>>)]
  BY <1>1, SplitIs
<1> QED
  BY <1>1, <1>2

LEMMA SplitNext ==
  ASSUME NEW sep, NEW A, NEW t \in Seq(A), NEW x \in A
  PROVE  Split(Append(t, x), sep) = SplitStep(Split(t, sep), x, sep)
<1> DEFINE n == Len(t)
           u == Append(t, x)
<1>1. n \in Nat /\ u \in Seq(A) /\ Len(u) = n + 1 /\ u[n + 1] = x
      /\ \A i \in 1 .. n : u[i] = t[i]
  BY AppendProperties, LenProperties
<1>2. PICK f : /\ \A k \in 0 .. Len(t) : f[k] = IF k = 0 THEN << <<>> >> ELSE SplitStep(f[k - 1], t[k], sep)
               /\ Split(t, sep) = f[Len(t)]
  BY <1>1, SplitIs
<1>3. PICK g : /\ \A k \in 0 .. Len(u) : g[k] = IF k = 0 THEN << <<>> >> ELSE SplitStep(g[k - 1], u[k], sep)
               /\ Split(u, sep) = g[Len(u)]
  <2> HIDE DEF u
  <2> QED
    BY <1>1, SplitIs
<1> DEFINE ok == {k \in Nat : k <= n => f[k] = g[k]}
<1>4. 0 \in ok
  <2>1. 0 \in 0 .. Len(t) /\ 0 \in 0 .. Len(u)
    BY <1>1
  <2> HIDE DEF u
  <2>2. f[0] = << <<>> >> /\ g[0] = << <<>> >>
    BY <1>2, <1>3, <2>1
  <2> QED
    BY <2>2
<1>5. ASSUME NEW k \in Nat, k \in ok PROVE k + 1 \in ok
  <2> SUFFICES ASSUME k + 1 <= n PROVE f[k + 1] = g[k + 1]
    OBVIOUS
  <2>1. k + 1 \in 0 .. Len(t) /\ k + 1 \in 0 .. Len(u) /\ (k + 1) - 1 = k /\ k + 1 # 0
    BY <1>1
  <2>4. f[k] = g[k] /\ u[k + 1] = t[k + 1]
    BY <1>1, <1>5, <2>1
  <2> HIDE DEF u, n
  <2>2. f[k + 1] = SplitStep(f[k], t[k + 1], sep)
    BY <1>2, <2>1
  <2>3. g[k + 1] = SplitStep(g[k], u[k + 1], sep)
    BY <1>3, <2>1
  <2> QED
    BY <2>2, <2>3, <2>4
<1>6. f[n] = g[n]
  <2>1. Nat \subseteq ok
    <3> HIDE DEF ok
    <3> QED
      BY <1>4, <1>5, NatSet
  <2> QED
    BY <1>1, <2>1
<1>7. n + 1 \in 0 .. Len(u) /\ (n + 1) - 1 = n /\ n + 1 # 0
  BY <1>1
<1>8. n = Len(t) /\ u = Append(t, x)
  OBVIOUS
<1> HIDE DEF n, u
<1>9. g[n + 1] = SplitStep(g[n], u[n + 1], sep)
  BY <1>3, <1>7
<1> QED
  BY <1>1, <1>2, <1>3, <1>6, <1>8, <1>9

LEMMA ReadIs ==
  ASSUME NEW state, NEW lines, Len(lines) \in Nat
  PROVE  \E f : /\ \A k \in 0 .. Len(lines) : f[k] = IF k = 0 THEN state ELSE ReadLine(f[k - 1], lines[k])
                /\ ReadLines(state, lines) = f[Len(lines)]
<1> DEFINE Good(f, j) ==
      /\ f = [k \in 0 .. j |-> f[k]]
      /\ \A k \in 0 .. j : f[k] = IF k = 0 THEN state ELSE ReadLine(f[k - 1], lines[k])
           ok == {j \in Nat : \E f : Good(f, j)}
<1>1. 0 \in ok
  <2> DEFINE g == [k \in 0 .. 0 |-> state]
  <2>1. g[0] = state /\ g = [k \in 0 .. 0 |-> g[k]]
    OBVIOUS
  <2>2. \A k \in 0 .. 0 : k = 0
    OBVIOUS
  <2> HIDE DEF g
  <2>3. Good(g, 0)
    BY <2>1, <2>2
  <2> HIDE DEF Good
  <2> QED
    BY <2>3
<1>2. ASSUME NEW j \in Nat, j \in ok PROVE j + 1 \in ok
  <2>1. PICK f : Good(f, j)
    BY <1>2
  <2> DEFINE g == [k \in 0 .. j + 1 |-> IF k \in 0 .. j THEN f[k] ELSE IF k = 0 THEN state ELSE ReadLine(f[k - 1], lines[k])]
  <2>2. \A k \in 0 .. j : g[k] = f[k]
    OBVIOUS
  <2>3. ASSUME NEW k \in 0 .. j + 1
        PROVE  g[k] = IF k = 0 THEN state ELSE ReadLine(g[k - 1], lines[k])
    <3>1. k # 0 => k - 1 \in 0 .. j
      OBVIOUS
    <3>2. CASE k \in 0 .. j
      <4>1. f[k] = IF k = 0 THEN state ELSE ReadLine(f[k - 1], lines[k])
        BY <2>1, <3>2
      <4> QED
        BY <2>2, <3>1, <3>2, <4>1
    <3>3. CASE k \notin 0 .. j
      <4>2. g[k] = IF k = 0 THEN state ELSE ReadLine(f[k - 1], lines[k])
        BY <3>3
      <4> QED
        BY <2>2, <3>1, <4>2
    <3> QED
      BY <3>2, <3>3
  <2>4. g = [k \in 0 .. j + 1 |-> g[k]]
    OBVIOUS
  <2> HIDE DEF g
  <2>5. Good(g, j + 1)
    BY <2>3, <2>4
  <2> HIDE DEF Good
  <2> QED
    BY <2>5
<1>3. \E f : Good(f, Len(lines))
  <2> HIDE DEF ok
  <2>1. Len(lines) \in ok
    BY <1>1, <1>2, NatSet
  <2> HIDE DEF Good
  <2> QED
    BY <2>1 DEF ok
<1> DEFINE f == CHOOSE f : f = [k \in 0 .. Len(lines) |-> IF k = 0 THEN state ELSE ReadLine(f[k - 1], lines[k])]
<1>4. f = [k \in 0 .. Len(lines) |-> IF k = 0 THEN state ELSE ReadLine(f[k - 1], lines[k])]
  <2>1. PICK g : Good(g, Len(lines))
    BY <1>3
  <2>2. g = [k \in 0 .. Len(lines) |-> IF k = 0 THEN state ELSE ReadLine(g[k - 1], lines[k])]
    BY <2>1 
  <2> QED
    BY <2>2, Zenon
<1>5. ReadLines(state, lines) = f[Len(lines)]
  BY DEF ReadLines
<1> HIDE DEF f, Good
<1>6. \A k \in 0 .. Len(lines) : f[k] = IF k = 0 THEN state ELSE ReadLine(f[k - 1], lines[k])
  BY <1>4 
<1> QED
  BY <1>5, <1>6, Zenon

LEMMA ReadNone == ASSUME NEW state PROVE ReadLines(state, <<>>) = state
<1>1. Len(<<>>) = 0 /\ 0 \in 0 .. Len(<<>>)
  OBVIOUS
<1>2. PICK f : /\ \A k \in 0 .. Len(<<>>) : f[k] = IF k = 0 THEN state ELSE ReadLine(f[k - 1], <<>>[k])
               /\ ReadLines(state, <<>>) = f[Len(<<>>)]
  BY <1>1, ReadIs
<1> QED
  BY <1>1, <1>2

LEMMA ReadNext ==
  ASSUME NEW state, NEW A, NEW lines \in Seq(A), NEW x \in A
  PROVE  ReadLines(state, Append(lines, x)) = ReadLine(ReadLines(state, lines), x)
<1> DEFINE n == Len(lines)
           u == Append(lines, x)
<1>1. n \in Nat /\ u \in Seq(A) /\ Len(u) = n + 1 /\ u[n + 1] = x
      /\ \A i \in 1 .. n : u[i] = lines[i]
  BY AppendProperties, LenProperties
<1>2. PICK f : /\ \A k \in 0 .. Len(lines) : f[k] = IF k = 0 THEN state ELSE ReadLine(f[k - 1], lines[k])
               /\ ReadLines(state, lines) = f[Len(lines)]
  BY <1>1, ReadIs
<1>3. PICK g : /\ \A k \in 0 .. Len(u) : g[k] = IF k = 0 THEN state ELSE ReadLine(g[k - 1], u[k])
               /\ ReadLines(state, u) = g[Len(u)]
  <2> HIDE DEF u
  <2> QED
    BY <1>1, ReadIs
<1> DEFINE ok == {k \in Nat : k <= n => f[k] = g[k]}
<1>4. 0 \in ok
  <2>1. 0 \in 0 .. Len(lines) /\ 0 \in 0 .. Len(u)
    BY <1>1
  <2> HIDE DEF u
  <2>2. f[0] = state /\ g[0] = state
    BY <1>2, <1>3, <2>1
  <2> QED
    BY <2>2
<1>5. ASSUME NEW k \in Nat, k \in ok PROVE k + 1 \in ok
  <2> SUFFICES ASSUME k + 1 <= n PROVE f[k + 1] = g[k + 1]
    OBVIOUS
  <2>1. k + 1 \in 0 .. Len(lines) /\ k + 1 \in 0 .. Len(u) /\ (k + 1) - 1 = k /\ k + 1 # 0
    BY <1>1
  <2>4. f[k] = g[k] /\ u[k + 1] = lines[k + 1]
    BY <1>1, <1>5, <2>1
  <2> HIDE DEF u, n
  <2>2. f[k + 1] = ReadLine(f[k], lines[k + 1])
    BY <1>2, <2>1
  <2>3. g[k + 1] = ReadLine(g[k], u[k + 1])
    BY <1>3, <2>1
  <2> QED
    BY <2>2, <2>3, <2>4
<1>6. f[n] = g[n]
  <2>1. Nat \subseteq ok
    <3> HIDE DEF ok
    <3> QED
      BY <1>4, <1>5, NatSet
  <2> QED
    BY <1>1, <2>1
<1>7. n + 1 \in 0 .. Len(u) /\ (n + 1) - 1 = n /\ n + 1 # 0
  BY <1>1
<1>8. n = Len(lines) /\ u = Append(lines, x)
  OBVIOUS
<1> HIDE DEF n, u
<1>9. g[n + 1] = ReadLine(g[n], u[n + 1])
  BY <1>3, <1>7
<1> QED
  BY <1>1, <1>2, <1>3, <1>6, <1>8, <1>9

(* Concatenation and Append under names of their own: the provers take an  *)
(* equality with \o or Append for one of functions, element by element.    *)
Cat(s, t) == s \o t

Add(s, x) == Append(s, x)

LEMMA CatType ==
  ASSUME NEW A, NEW s \in Seq(A), NEW t \in Seq(A)
  PROVE  /\ Cat(s, t) \in Seq(A)
         /\ Len(Cat(s, t)) = Len(s) + Len(t)
         /\ \A i \in 1 .. Len(s) + Len(t) :
              Cat(s, t)[i] = IF i <= Len(s) THEN s[i] ELSE t[i - Len(s)]
BY ConcatProperties DEF Cat

LEMMA CatNone ==
  ASSUME NEW A, NEW s \in Seq(A)
  PROVE  Cat(s, <<>>) = s /\ Cat(<<>>, s) = s
BY ConcatEmptySeq DEF Cat

LEMMA CatCat ==
  ASSUME NEW A, NEW s \in Seq(A), NEW t \in Seq(A), NEW u \in Seq(A)
  PROVE  Cat(Cat(s, t), u) = Cat(s, Cat(t, u))
BY ConcatAssociative DEF Cat

LEMMA AddType ==
  ASSUME NEW A, NEW s \in Seq(A), NEW x \in A
  PROVE  /\ Add(s, x) \in Seq(A) /\ Add(s, x) # <<>>
         /\ Len(Add(s, x)) = Len(s) + 1 /\ Add(s, x)[Len(s) + 1] = x
         /\ \A i \in 1 .. Len(s) : Add(s, x)[i] = s[i]
<1>1. /\ Append(s, x) \in Seq(A)
      /\ Len(Append(s, x)) = Len(s) + 1 /\ Append(s, x)[Len(s) + 1] = x
      /\ \A i \in 1 .. Len(s) : Append(s, x)[i] = s[i]
  BY AppendProperties
<1>2. Len(s) \in Nat
  OBVIOUS
<1>3. Append(s, x) # <<>>
  BY <1>1, <1>2, EmptySeq
<1> QED
  BY <1>1, <1>3 DEF Add

LEMMA One ==
  ASSUME NEW A, NEW x \in A
  PROVE  /\ <<x>> \in Seq(A) /\ Len(<<x>>) = 1 /\ <<x>>[1] = x /\ <<x>> # <<>>
         /\ Add(<<>>, x) = <<x>>
<1>1. /\ <<x>> \in Seq(A) /\ Len(<<x>>) = 1 /\ <<x>>[1] = x /\ <<x>> # <<>>
  OBVIOUS
<1>2. Append(<<>>, x) = <<x>>
  OBVIOUS
<1> QED
  BY <1>1, <1>2 DEF Add

LEMMA AddIs ==
  ASSUME NEW A, NEW s \in Seq(A), NEW x \in A
  PROVE  Add(s, x) = Cat(s, <<x>>)
BY AppendIsConcat DEF Add, Cat

LEMMA CatAdd ==
  ASSUME NEW A, NEW s \in Seq(A), NEW t \in Seq(A), NEW x \in A
  PROVE  Cat(s, Add(t, x)) = Add(Cat(s, t), x)
<1>1. PICK o \in Seq(A) : o = <<x>>
  BY One
<1>2. Add(t, x) = Cat(t, o)
  BY <1>1, AddIs
<1>3. Cat(s, t) \in Seq(A)
  BY CatType
<1>4. Add(Cat(s, t), x) = Cat(Cat(s, t), o)
  BY <1>1, <1>3, AddIs
<1> QED
  BY <1>2, <1>4, CatCat

LEMMA SeqLast ==
  ASSUME NEW A, NEW s \in Seq(A), s # <<>>
  PROVE  \E t \in Seq(A), x \in A : s = Add(t, x)
BY SequenceEmptyOrAppend DEF Add

LEMMA SeqAdd ==
  ASSUME NEW A, NEW S, <<>> \in S,
         \A s \in Seq(A) : s \in S => \A a \in A : Add(s, a) \in S
  PROVE  Seq(A) \subseteq S
BY SeqSet DEF Add

(* Every sequence but the empty one has a first element and a rest.        *)
LEMMA SeqFirst ==
  ASSUME NEW A
  PROVE  \A s \in Seq(A) : s # <<>> => \E x \in A, t \in Seq(A) : s = Cat(<<x>>, t)
<1> DEFINE ok == {s \in Seq(A) : s # <<>> => \E x \in A, t \in Seq(A) : s = Cat(<<x>>, t)}
<1>1. <<>> \in ok
  BY EmptySeq
<1>2. ASSUME NEW s \in Seq(A), s \in ok, NEW a \in A PROVE Add(s, a) \in ok
  <2>1. CASE s = <<>>
    <3>1. Add(s, a) = <<a>> /\ <<a>> \in Seq(A) /\ <<>> \in Seq(A)
      BY <2>1, One, EmptySeq
    <3>2. Cat(<<a>>, <<>>) = <<a>>
      BY <3>1, CatNone
    <3> QED
      BY <3>1, <3>2
  <2>2. CASE s # <<>>
    <3>1. PICK x \in A, t \in Seq(A) : s = Cat(<<x>>, t)
      BY <1>2, <2>2
    <3>2. PICK o \in Seq(A) : o = <<x>>
      BY One
    <3>4. s = Cat(o, t)
      BY <3>1, <3>2
    <3>5. Add(t, a) \in Seq(A) /\ Add(s, a) \in Seq(A)
      BY AddType
    <3>6. Cat(o, Add(t, a)) = Add(Cat(o, t), a)
      BY CatAdd
    <3>3. Add(s, a) = Cat(o, Add(t, a)) /\ Add(t, a) \in Seq(A) /\ Add(s, a) \in Seq(A)
      BY <3>4, <3>5, <3>6
    <3> QED
      BY <3>2, <3>3
  <2> QED
    BY <2>1, <2>2
<1> HIDE DEF ok
<1>3. Seq(A) \subseteq ok
  BY <1>1, <1>2, SeqAdd
<1> QED
  BY <1>3 DEF ok

(* Induction from the front.                                               *)
LEMMA SeqFront ==
  ASSUME NEW A, NEW S, <<>> \in S,
         \A s \in Seq(A) : s \in S => \A a \in A : Cat(<<a>>, s) \in S
  PROVE  Seq(A) \subseteq S
<1> DEFINE ok == {n \in Nat : \A s \in Seq(A) : Len(s) = n => s \in S}
<1>1. 0 \in ok
  <2>1. \A s \in Seq(A) : Len(s) = 0 => s = <<>>
    BY EmptySeq
  <2> QED
    BY <2>1
<1>2. ASSUME NEW n \in Nat, n \in ok PROVE n + 1 \in ok
  <2> SUFFICES ASSUME NEW s \in Seq(A), Len(s) = n + 1 PROVE s \in S
    OBVIOUS
  <2>0. s # <<>>
    BY EmptySeq
  <2>1. PICK a \in A, t \in Seq(A) : s = Cat(<<a>>, t)
    BY <2>0, SeqFirst
  <2>2. <<a>> \in Seq(A) /\ Len(<<a>>) = 1 /\ Len(t) \in Nat
    BY One, LenProperties
  <2>3. Len(s) = 1 + Len(t)
    BY <2>1, <2>2, CatType
  <2>4. Len(t) = n
    BY <2>2, <2>3
  <2> QED
    BY <2>1, <2>4, <1>2
<1>3. Nat \subseteq ok
  <2> HIDE DEF ok
  <2> QED
    BY <1>1, <1>2, NatSet
<1> QED
  BY <1>3, LenProperties

(* FlattenSeq                                                              *)
LEMMA FlattenAdd ==
  ASSUME NEW A, NEW xs \in Seq(Seq(A)), NEW x \in Seq(A)
  PROVE  FlattenSeq(Add(xs, x)) = Cat(FlattenSeq(xs), x)
BY FlattenNext DEF Add, Cat

LEMMA FlattenCat ==
  ASSUME NEW A, NEW xs \in Seq(Seq(A)), NEW ys \in Seq(Seq(A))
  PROVE  FlattenSeq(Cat(xs, ys)) = Cat(FlattenSeq(xs), FlattenSeq(ys))
BY FlattenConcat DEF Cat

(* ReadLines                                                               *)
LEMMA ReadAdd ==
  ASSUME NEW state, NEW A, NEW lines \in Seq(A), NEW x \in A
  PROVE  ReadLines(state, Add(lines, x)) = ReadLine(ReadLines(state, lines), x)
BY ReadNext DEF Add

LEMMA ReadOne ==
  ASSUME NEW state, NEW x
  PROVE  ReadLines(state, <<x>>) = ReadLine(state, x)
<1>1. <<>> \in Seq({x}) /\ x \in {x}
  BY EmptySeq
<1>2. Add(<<>>, x) = <<x>>
  BY <1>1, One
<1>3. ReadLines(state, Add(<<>>, x)) = ReadLine(ReadLines(state, <<>>), x)
  BY <1>1, ReadAdd
<1> QED
  BY <1>2, <1>3, ReadNone

LEMMA ReadCat ==
  ASSUME NEW A, NEW state, NEW a \in Seq(A), NEW b \in Seq(A)
  PROVE  ReadLines(state, Cat(a, b)) = ReadLines(ReadLines(state, a), b)
<1> DEFINE ok == {c \in Seq(A) : ReadLines(state, Cat(a, c)) = ReadLines(ReadLines(state, a), c)}
<1>1. <<>> \in ok
  BY ReadNone, EmptySeq, CatNone
<1>2. ASSUME NEW c \in Seq(A), c \in ok, NEW x \in A PROVE Add(c, x) \in ok
  <2>1. Cat(a, Add(c, x)) = Add(Cat(a, c), x) /\ Cat(a, c) \in Seq(A) /\ Add(c, x) \in Seq(A)
    BY CatAdd, CatType, AddType
  <2>2. ReadLines(state, Add(Cat(a, c), x)) = ReadLine(ReadLines(state, Cat(a, c)), x)
    BY <2>1, ReadAdd
  <2>3. ReadLines(ReadLines(state, a), Add(c, x)) = ReadLine(ReadLines(ReadLines(state, a), c), x)
    BY ReadAdd
  <2> QED
    BY <1>2, <2>1, <2>2, <2>3
<1> HIDE DEF ok
<1>3. Seq(A) \subseteq ok
  BY <1>1, <1>2, SeqAdd
<1> QED
  BY <1>3 DEF ok

-----------------------------------------------------------------------------
(* Split.                                                                  *)

Free(A, c) == A \ {c}

LEMMA FreeType ==
  ASSUME NEW A, NEW c
  PROVE  /\ \A x : x \in Free(A, c) <=> x \in A /\ x # c
         /\ Seq(Free(A, c)) \subseteq Seq(A)
         /\ Seq(Seq(Free(A, c))) \subseteq Seq(Seq(A))
<1>1. \A x : x \in Free(A, c) <=> x \in A /\ x # c
  BY DEF Free
<1>2. PICK F : F = Free(A, c)
  OBVIOUS
<1>3. F \subseteq A
  BY <1>1, <1>2
<1>4. Seq(F) \subseteq Seq(A)
  BY <1>3, SeqMonotonic
<1>5. Seq(Seq(F)) \subseteq Seq(Seq(A))
  BY <1>4, SeqMonotonic
<1> QED
  BY <1>1, <1>2, <1>4, <1>5

(* split_char                                                              *)
LEMMA AppendConcat ==
  ASSUME NEW A, NEW a \in Seq(A), NEW b \in Seq(A), NEW x \in A
  PROVE  a \o Append(b, x) = Append(a \o b, x)
<1>1. Append(b, x) = b \o <<x>> /\ Append(a \o b, x) = (a \o b) \o <<x>>
  BY AppendIsConcat, ConcatProperties
<1>2. <<x>> \in Seq(A)
  OBVIOUS
<1> QED
  BY <1>1, <1>2, ConcatAssociative

LEMMA LastElement ==
  ASSUME NEW P, NEW r \in Seq(P), r # <<>>
  PROVE  r[Len(r)] \in P /\ Len(r) \in 1 .. Len(r)
<1>1. Len(r) \in Nat \ {0}
  BY EmptySeq
<1> QED
  BY <1>1, ElementOfSeq

LEMMA LastConcat ==
  ASSUME NEW P, NEW s \in Seq(P), NEW r \in Seq(P), r # <<>>, NEW y \in P
  PROVE  /\ (s \o r)[Len(s \o r)] = r[Len(r)]
         /\ [(s \o r) EXCEPT ![Len(s \o r)] = y] = s \o [r EXCEPT ![Len(r)] = y]
<1>1. /\ Len(s) \in Nat /\ Len(r) \in Nat /\ Len(r) # 0 /\ Len(r) \in 1 .. Len(r)
      /\ s \o r \in Seq(P) /\ Len(s \o r) = Len(s) + Len(r)
      /\ \A i \in 1 .. Len(s) + Len(r) :
           (s \o r)[i] = IF i <= Len(s) THEN s[i] ELSE r[i - Len(s)]
  BY EmptySeq, LenProperties, ConcatProperties, LastElement
<1>2. (s \o r)[Len(s \o r)] = r[Len(r)]
  BY <1>1
<1>3. PICK q : q = [r EXCEPT ![Len(r)] = y]
  OBVIOUS
<1>4. q \in Seq(P) /\ Len(q) = Len(r) /\ \A i \in 1 .. Len(r) : q[i] = IF i = Len(r) THEN y ELSE r[i]
  BY <1>1, <1>3, ExceptSeq
<1>5. PICK p : p = [(s \o r) EXCEPT ![Len(s \o r)] = y]
  OBVIOUS
<1>6. /\ p \in Seq(P) /\ Len(p) = Len(s) + Len(r)
      /\ \A i \in 1 .. Len(s) + Len(r) : p[i] = IF i = Len(s) + Len(r) THEN y ELSE (s \o r)[i]
  <2>1. PICK t \in Seq(P) : t = s \o r
    BY <1>1
  <2>2. Len(t) \in 1 .. Len(t) /\ Len(t) = Len(s) + Len(r)
    BY <1>1, <2>1
  <2>3. p = [t EXCEPT ![Len(t)] = y]
    BY <2>1, <1>5
  <2>4. /\ p \in Seq(P) /\ Len(p) = Len(t)
        /\ \A i \in 1 .. Len(t) : p[i] = IF i = Len(t) THEN y ELSE t[i]
    BY <2>2, <2>3, ExceptSeq
  <2> QED
    BY <2>1, <2>2, <2>4
<1>7. /\ s \o q \in Seq(P) /\ Len(s \o q) = Len(s) + Len(r)
      /\ \A i \in 1 .. Len(s) + Len(r) :
           (s \o q)[i] = IF i <= Len(s) THEN s[i] ELSE q[i - Len(s)]
  <2>1. /\ s \o q \in Seq(P) /\ Len(s \o q) = Len(s) + Len(q)
        /\ \A i \in 1 .. Len(s) + Len(q) :
             (s \o q)[i] = IF i <= Len(s) THEN s[i] ELSE q[i - Len(s)]
    BY <1>4, ConcatProperties
  <2> QED
    BY <1>4, <2>1
<1>8. ASSUME NEW i \in 1 .. Len(s) + Len(r) PROVE p[i] = (s \o q)[i]
  <2>1. CASE i <= Len(s)
    BY <2>1, <1>1, <1>6, <1>7
  <2>2. CASE ~(i <= Len(s))
    <3>1. PICK j \in 1 .. Len(r) : i = Len(s) + j /\ j = i - Len(s)
      BY <2>2, <1>1
    <3>2. q[j] = (IF j = Len(r) THEN y ELSE r[j]) /\ (s \o r)[i] = r[j] /\ (s \o q)[i] = q[j]
      BY <2>2, <3>1, <1>1, <1>4, <1>7
    <3>3. p[i] = IF i = Len(s) + Len(r) THEN y ELSE (s \o r)[i]
      BY <1>6
    <3>4. i = Len(s) + Len(r) <=> j = Len(r)
      BY <1>1, <3>1
    <3> QED
      BY <3>2, <3>3, <3>4
  <2> QED
    BY <2>1, <2>2
<1>9. p = s \o q
  BY <1>6, <1>7, <1>8, SeqEqual
<1> QED
  BY <1>2, <1>3, <1>5, <1>9

LEMMA StepConcat ==
  ASSUME NEW P, NEW s \in Seq(P), NEW r \in Seq(P), r # <<>>, <<>> \in P,
         NEW x, NEW sep, x # sep => Append(r[Len(r)], x) \in P
  PROVE  SplitStep(s \o r, x, sep) = s \o SplitStep(r, x, sep)
<1>1. CASE x = sep
  <2>1. s \o Append(r, <<>>) = Append(s \o r, <<>>)
    BY AppendConcat
  <2> QED
    BY <1>1, <2>1 DEF SplitStep
<1>2. CASE x # sep
  <2>1. PICK y \in P : y = Append(r[Len(r)], x)
    BY <1>2
  <2>2. (s \o r)[Len(s \o r)] = r[Len(r)]
    BY <2>1, LastConcat
  <2>3. [(s \o r) EXCEPT ![Len(s \o r)] = y] = s \o [r EXCEPT ![Len(r)] = y]
    BY LastConcat
  <2> QED
    BY <1>2, <2>1, <2>2, <2>3 DEF SplitStep
<1> QED
  BY <1>1, <1>2

LEMMA StepCat ==
  ASSUME NEW P, NEW s \in Seq(P), NEW r \in Seq(P), r # <<>>, <<>> \in P,
         NEW x, NEW sep, x # sep => Append(r[Len(r)], x) \in P
  PROVE  SplitStep(Cat(s, r), x, sep) = Cat(s, SplitStep(r, x, sep))
BY StepConcat DEF Cat

LEMMA SplitAdd ==
  ASSUME NEW sep, NEW A, NEW t \in Seq(A), NEW x \in A
  PROVE  Split(Add(t, x), sep) = SplitStep(Split(t, sep), x, sep)
BY SplitNext DEF Add

(* What the parts of a text are.                                           *)
LEMMA SplitType ==
  ASSUME NEW A, NEW sep
  PROVE  \A t \in Seq(A) : Split(t, sep) \in Seq(Seq(Free(A, sep))) /\ Split(t, sep) # <<>>
<1> DEFINE P == Seq(Seq(Free(A, sep)))
           ok == {t \in Seq(A) : Split(t, sep) \in P /\ Split(t, sep) # <<>>}
<1>1. <<>> \in ok
  <2>1. <<>> \in Seq(Free(A, sep)) /\ << <<>> >> \in P /\ << <<>> >> # <<>>
    OBVIOUS
  <2> QED
    BY <2>1, SplitNone, EmptySeq
<1>2. ASSUME NEW t \in Seq(A), t \in ok, NEW x \in A PROVE Add(t, x) \in ok
  <2>1. Add(t, x) \in Seq(A)
    BY AddType
  <2>2. Split(Add(t, x), sep) = SplitStep(Split(t, sep), x, sep)
    BY SplitAdd
  <2>3. PICK s \in P : s = Split(t, sep) /\ s # <<>>
    BY <1>2
  <2> HIDE DEF P
  <2>4. SplitStep(s, x, sep) \in P /\ SplitStep(s, x, sep) # <<>>
    <3>1. CASE x = sep
      <4>1. <<>> \in Seq(Free(A, sep))
        BY EmptySeq
      <4>2. Append(s, <<>>) \in P /\ Len(Append(s, <<>>)) = Len(s) + 1 /\ Len(s) \in Nat
        BY <4>1, AppendProperties, LenProperties DEF P
      <4>3. Append(s, <<>>) # <<>>
        BY <4>2, EmptySeq
      <4> QED
        BY <3>1, <4>2, <4>3 DEF SplitStep
    <3>2. CASE x # sep
      <4>1. Len(s) \in DOMAIN s /\ Len(s) \in Nat
        BY <2>3, EmptySeq, LenProperties DEF P
      <4>2. s[Len(s)] \in Seq(Free(A, sep))
        BY <4>1, ElementOfSeq, LenProperties DEF P
      <4>3. Append(s[Len(s)], x) \in Seq(Free(A, sep))
        BY <3>2, <4>2, AppendProperties, FreeType
      <4>4. [s EXCEPT ![Len(s)] = Append(@, x)] \in P
        BY <4>1, <4>3, ExceptSeq, LenProperties DEF P
      <4>5. Len([s EXCEPT ![Len(s)] = Append(@, x)]) = Len(s)
        BY <4>1, <4>3, ExceptSeq, LenProperties DEF P
      <4>6. [s EXCEPT ![Len(s)] = Append(@, x)] # <<>>
        BY <2>3, <4>5, EmptySeq DEF P
      <4> QED
        BY <3>2, <4>4, <4>6 DEF SplitStep
    <3> QED
      BY <3>1, <3>2
  <2> QED
    BY <2>1, <2>2, <2>3, <2>4
<1>3. Seq(A) \subseteq ok
  <2> HIDE DEF ok
  <2> QED
    BY <1>1, <1>2, SeqAdd
<1> QED
  BY <1>3

(* A text without the separator is one part.                               *)
LEMMA SplitFree ==
  ASSUME NEW A, NEW sep
  PROVE  \A t \in Seq(Free(A, sep)) : Split(t, sep) = <<t>>
<1> DEFINE ok == {t \in Seq(Free(A, sep)) : Split(t, sep) = <<t>>}
<1>1. <<>> \in ok
  BY SplitNone, EmptySeq
<1>2. ASSUME NEW t \in Seq(Free(A, sep)), t \in ok, NEW x \in Free(A, sep) PROVE Add(t, x) \in ok
  <2>1. Split(Add(t, x), sep) = SplitStep(<<t>>, x, sep)
    BY <1>2, SplitAdd
  <2>2. SplitStep(<<t>>, x, sep) = <<Append(t, x)>>
    BY FreeType DEF SplitStep
  <2> QED
    BY <2>1, <2>2, AddType DEF Add
<1>3. Seq(Free(A, sep)) \subseteq ok
  <2> HIDE DEF ok
  <2> QED
    BY <1>1, <1>2, SeqAdd
<1> QED
  BY <1>3

(* A separator ends a part.                                                *)
LEMMA SplitAt ==
  ASSUME NEW A, NEW sep \in A, NEW a \in Seq(A)
  PROVE  \A b \in Seq(A) : Split(Cat(Add(a, sep), b), sep) = Cat(Split(a, sep), Split(b, sep))
<1>e. PICK P : P = Seq(Free(A, sep))
  OBVIOUS
<1>c. PICK c \in Seq(A) : c = Add(a, sep)
  BY AddType
<1> DEFINE ok == {b \in Seq(A) : Split(Cat(c, b), sep) = Cat(Split(a, sep), Split(b, sep))}
<1>0. <<>> \in P
  BY <1>e, EmptySeq
<1>p. \A t \in Seq(A) : Split(t, sep) \in Seq(P) /\ Split(t, sep) # <<>>
  BY <1>e, SplitType
<1>q. \A t \in P : \A x \in A : x # sep => Append(t, x) \in P
  BY <1>e, AppendProperties, FreeType
<1>s. PICK s \in Seq(P) : s = Split(a, sep)
  BY <1>p
<1>1. <<>> \in ok
  <2>1. Split(c, sep) = Add(s, <<>>)
    BY <1>c, <1>s, SplitAdd DEF SplitStep, Add
  <2>2. PICK o \in Seq(P) : o = << <<>> >>
    BY <1>0, One
  <2>3. Add(s, <<>>) = Cat(s, o)
    BY <1>0, <2>2, AddIs
  <2>4. Cat(c, <<>>) = c
    BY CatNone
  <2>5. Split(<<>>, sep) = o
    BY <2>2, SplitNone
  <2> QED
    BY <1>s, <2>1, <2>3, <2>4, <2>5, EmptySeq
<1>2. ASSUME NEW b \in Seq(A), b \in ok, NEW x \in A PROVE Add(b, x) \in ok
  <2>1. Cat(c, Add(b, x)) = Add(Cat(c, b), x) /\ Cat(c, b) \in Seq(A) /\ Add(b, x) \in Seq(A)
    BY CatAdd, CatType, AddType
  <2>2. PICK r \in Seq(P) : r = Split(b, sep) /\ r # <<>>
    BY <1>p
  <2>3. Split(Add(Cat(c, b), x), sep) = SplitStep(Cat(s, r), x, sep)
    BY <1>2, <1>s, <2>1, <2>2, SplitAdd
  <2>4. Split(Add(b, x), sep) = SplitStep(r, x, sep)
    BY <2>2, SplitAdd
  <2>5. x # sep => Append(r[Len(r)], x) \in P
    BY <1>q, <2>2, LastElement
  <2>6. SplitStep(Cat(s, r), x, sep) = Cat(s, SplitStep(r, x, sep))
    BY <1>0, <2>2, <2>5, StepCat
  <2> QED
    BY <1>s, <2>1, <2>3, <2>4, <2>6
<1> HIDE DEF ok
<1>3. Seq(A) \subseteq ok
  BY <1>1, <1>2, SeqAdd
<1> QED
  BY <1>3, <1>c DEF ok

(* Up to the first separator.                                              *)
LEMMA FirstSep ==
  ASSUME NEW A, NEW sep
  PROVE  \A t \in Seq(A) : t \in Seq(Free(A, sep))
           \/ /\ sep \in A
              /\ \E a \in Seq(Free(A, sep)), b \in Seq(A) : t = Cat(Add(a, sep), b)
<1> DEFINE cut(t) == \E a \in Seq(Free(A, sep)), b \in Seq(A) : t = Cat(Add(a, sep), b)
           ok == {t \in Seq(A) : t \in Seq(Free(A, sep)) \/ (sep \in A /\ cut(t))}
<1>1. <<>> \in ok
  BY EmptySeq
<1>2. ASSUME NEW t \in Seq(A), t \in ok, NEW x \in A PROVE Add(t, x) \in ok
  <2>0. Add(t, x) \in Seq(A)
    BY AddType
  <2>1. CASE t \in Seq(Free(A, sep)) /\ x # sep
    <3>1. Add(t, x) \in Seq(Free(A, sep))
      BY <2>1, AddType, FreeType
    <3> QED
      BY <2>0, <3>1
  <2>2. CASE t \in Seq(Free(A, sep)) /\ x = sep
    <3>1. Add(t, x) = Cat(Add(t, x), <<>>) /\ <<>> \in Seq(A)
      BY <2>0, CatNone, EmptySeq
    <3> QED
      BY <2>0, <2>2, <3>1
  <2>3. CASE t \notin Seq(Free(A, sep))
    <3>1. PICK a \in Seq(Free(A, sep)), b \in Seq(A) : t = Cat(Add(a, sep), b)
      BY <1>2, <2>3
    <3>2. sep \in A
      BY <1>2, <2>3
    <3>3. PICK c \in Seq(A) : c = Add(a, sep)
      <4>1. a \in Seq(A)
        BY SeqMonotonic, FreeType
      <4> QED
        BY <3>2, <4>1, AddType
    <3>4. Add(Cat(c, b), x) = Cat(c, Add(b, x)) /\ Add(b, x) \in Seq(A)
      BY CatAdd, AddType
    <3>5. Add(t, x) = Cat(c, Add(b, x))
      BY <3>1, <3>3, <3>4
    <3> QED
      BY <2>0, <3>2, <3>3, <3>4, <3>5
  <2> QED
    BY <2>1, <2>2, <2>3
<1> HIDE DEF ok
<1>3. Seq(A) \subseteq ok
  BY <1>1, <1>2, SeqAdd
<1> QED
  BY <1>3 DEF ok

LEMMA SplitFirst ==
  ASSUME NEW A, NEW sep \in A, NEW a \in Seq(Free(A, sep)), NEW b \in Seq(A)
  PROVE  Split(Cat(Add(a, sep), b), sep) = Cat(<<a>>, Split(b, sep))
<1>1. a \in Seq(A)
  BY SeqMonotonic, FreeType
<1>2. Split(a, sep) = <<a>>
  BY SplitFree
<1> QED
  BY <1>1, <1>2, SplitAt

-----------------------------------------------------------------------------
(* Trim.                                                                   *)

LEMMA MinIs ==
  ASSUME NEW S \in SUBSET Nat, NEW i \in S, \A j \in S : i <= j
  PROVE  Min(S) = i
<1>1. \A k \in S : (\A j \in S : k <= j) => k = i
  OBVIOUS
<1> QED
  BY <1>1 DEF Min

LEMMA MaxIs ==
  ASSUME NEW S \in SUBSET Nat, NEW i \in S, \A j \in S : j <= i
  PROVE  Max(S) = i
<1>1. \A k \in S : (\A j \in S : k >= j) => k = i
  OBVIOUS
<1> QED
  BY <1>1 DEF Max

LEMMA MinIn ==
  ASSUME NEW S \in SUBSET Nat, S # {}
  PROVE  \E i \in S : \A j \in S : i <= j
<1>1. PICK n \in S : \A m \in S : <<m, n>> \notin OpToRel(<, Nat)
  BY NatLessThanWellFounded, WFMin
<1>2. \A m \in S : ~(m < n)
  BY <1>1 DEF OpToRel
<1> QED
  BY <1>2

LEMMA MaxIn ==
  ASSUME NEW n \in Nat, NEW S \in SUBSET (1 .. n), S # {}
  PROVE  \E i \in S : \A j \in S : j <= i
<1> DEFINE T == {n - i : i \in S}
<1>1. T \in SUBSET Nat /\ T # {}
  <2>1. \A i \in S : i \in 1 .. n /\ n - i \in Nat
    OBVIOUS
  <2> QED
    BY <2>1
<1>2. PICK k \in T : \A j \in T : k <= j
  BY <1>1, MinIn
<1>3. PICK i \in S : k = n - i
  OBVIOUS
<1>4. \A j \in S : n - i <= n - j
  BY <1>2, <1>3
<1> QED
  BY <1>4

(* Trim                                                                    *)
Tight(t) == t = <<>> \/ (t[1] \notin Blank /\ t[Len(t)] \notin Blank)

LEMMA TrimBlank ==
  ASSUME NEW A, NEW t \in Seq(A), \A k \in 1 .. Len(t) : t[k] \in Blank
  PROVE  Trim(t) = <<>>
<1>1. {i \in DOMAIN t : t[i] \notin Blank} = {}
  BY LenProperties
<1> QED
  BY <1>1 DEF Trim

LEMMA TrimIs ==
  ASSUME NEW A, NEW t \in Seq(A), NEW i \in 1 .. Len(t), NEW j \in 1 .. Len(t),
         t[i] \notin Blank, t[j] \notin Blank,
         \A k \in 1 .. Len(t) : t[k] \notin Blank => i <= k /\ k <= j
  PROVE  Trim(t) = SubSeq(t, i, j)
<1> DEFINE ink == {k \in DOMAIN t : t[k] \notin Blank}
<1>1. DOMAIN t = 1 .. Len(t) /\ Len(t) \in Nat
  BY LenProperties
<1>2. ink \in SUBSET Nat /\ i \in ink /\ j \in ink /\ \A k \in ink : i <= k /\ k <= j
  BY <1>1
<1>3. ink # {}
  BY <1>2
<1>4. Trim(t) = IF ink = {} THEN <<>> ELSE SubSeq(t, Min(ink), Max(ink))
  BY DEF Trim
<1> HIDE DEF ink
<1>5. Min(ink) = i /\ Max(ink) = j
  BY <1>2, MinIs, MaxIs
<1> QED
  BY <1>3, <1>4, <1>5

LEMMA TrimCases ==
  ASSUME NEW A, NEW t \in Seq(A)
  PROVE  \/ (\A k \in 1 .. Len(t) : t[k] \in Blank) /\ Trim(t) = <<>>
         \/ \E i, j \in 1 .. Len(t) :
              /\ i <= j /\ t[i] \notin Blank /\ t[j] \notin Blank
              /\ \A k \in 1 .. Len(t) : t[k] \notin Blank => i <= k /\ k <= j
              /\ Trim(t) = SubSeq(t, i, j)
<1> DEFINE ink == {k \in 1 .. Len(t) : t[k] \notin Blank}
<1>1. Len(t) \in Nat
  OBVIOUS
<1>2. CASE ink = {}
  <2>1. \A k \in 1 .. Len(t) : t[k] \in Blank
    BY <1>2
  <2> QED
    BY <2>1, TrimBlank
<1>3. CASE ink # {}
  <2>1. ink \in SUBSET Nat /\ ink \in SUBSET (1 .. Len(t))
    OBVIOUS
  <2>2. PICK i \in ink : \A k \in ink : i <= k
    <3> HIDE DEF ink
    <3> QED
      BY <1>3, <2>1, MinIn
  <2>3. PICK j \in ink : \A k \in ink : k <= j
    <3> HIDE DEF ink
    <3> QED
      BY <1>1, <1>3, <2>1, MaxIn
  <2>4. Trim(t) = SubSeq(t, i, j)
    BY <2>2, <2>3, TrimIs
  <2> QED
    BY <2>2, <2>3, <2>4
<1> QED
  BY <1>2, <1>3

LEMMA TrimType ==
  ASSUME NEW A, NEW t \in Seq(A)
  PROVE  Trim(t) \in Seq(A) /\ Tight(Trim(t))
<1>1. CASE Trim(t) = <<>>
  BY <1>1, EmptySeq DEF Tight
<1>2. CASE Trim(t) # <<>>
  <2>1. PICK i, j \in 1 .. Len(t) :
              /\ i <= j /\ t[i] \notin Blank /\ t[j] \notin Blank
              /\ Trim(t) = SubSeq(t, i, j)
    BY <1>2, TrimCases
  <2>2. /\ SubSeq(t, i, j) \in Seq(A)
        /\ Len(SubSeq(t, i, j)) = (j - i) + 1
        /\ \A k \in 1 .. (j - i) + 1 : SubSeq(t, i, j)[k] = t[(i + k) - 1]
    <3>1. i \in Int /\ j \in Int /\ \A k \in i .. j : t[k] \in A
      BY LenProperties
    <3> QED
      BY <2>1, <3>1, SubSeqProperties
  <2>3. SubSeq(t, i, j)[1] = t[i] /\ SubSeq(t, i, j)[(j - i) + 1] = t[j]
    <3>1. /\ 1 \in 1 .. (j - i) + 1 /\ (i + 1) - 1 = i
          /\ (j - i) + 1 \in 1 .. (j - i) + 1 /\ (i + ((j - i) + 1)) - 1 = j
      BY <2>1
    <3> QED
      BY <2>2, <3>1
  <2> QED
    BY <2>1, <2>2, <2>3 DEF Tight
<1> QED
  BY <1>1, <1>2

(* Blanks around a text do not count.                                      *)
LEMMA TrimPad ==
  ASSUME NEW A, NEW u \in Seq(A), NEW v \in Seq(A), NEW t \in Seq(A), Tight(t),
         \A i \in 1 .. Len(u) : u[i] \in Blank, \A i \in 1 .. Len(v) : v[i] \in Blank
  PROVE  Trim(Cat(u, Cat(t, v))) = t
<1>1. PICK x \in Seq(A) : x = Cat(t, v)
  BY CatType
<1>2. PICK w \in Seq(A) : w = Cat(u, x)
  BY CatType
<1>n. PICK n \in Nat : n = Len(u)
  OBVIOUS
<1>m. PICK m \in Nat : m = Len(t)
  OBVIOUS
<1>k. PICK k \in Nat : k = Len(v)
  OBVIOUS
<1>3. Len(x) = m + k /\ \A i \in 1 .. m + k : x[i] = IF i <= m THEN t[i] ELSE v[i - m]
  BY <1>1, <1>m, <1>k, CatType
<1>4. Len(w) = n + (m + k) /\ \A i \in 1 .. n + (m + k) : w[i] = IF i <= n THEN u[i] ELSE x[i - n]
  <2>1. Len(w) = Len(u) + Len(x) /\ \A i \in 1 .. Len(u) + Len(x) : w[i] = IF i <= Len(u) THEN u[i] ELSE x[i - Len(u)]
    BY <1>2, CatType
  <2> QED
    BY <2>1, <1>n, <1>3
<1>5. \A i \in 1 .. n : w[i] = u[i]
  BY <1>4
<1>6. \A i \in 1 .. m : w[n + i] = t[i]
  <2> TAKE i \in 1 .. m
  <2>1. n + i \in 1 .. n + (m + k) /\ ~(n + i <= n) /\ (n + i) - n = i /\ i \in 1 .. m + k /\ i <= m
    OBVIOUS
  <2> QED
    BY <2>1, <1>3, <1>4
<1>7. \A i \in 1 .. k : w[n + (m + i)] = v[i]
  <2> TAKE i \in 1 .. k
  <2>1. /\ n + (m + i) \in 1 .. n + (m + k) /\ ~(n + (m + i) <= n) /\ (n + (m + i)) - n = m + i
        /\ m + i \in 1 .. m + k /\ ~(m + i <= m) /\ (m + i) - m = i
    OBVIOUS
  <2>2. w[n + (m + i)] = x[m + i]
    BY <2>1, <1>4
  <2>3. x[m + i] = v[i]
    BY <2>1, <1>3
  <2> QED
    BY <2>2, <2>3
<1>8. \A i \in 1 .. Len(w) : w[i] \notin Blank => n + 1 <= i /\ i <= n + m
  <2> SUFFICES ASSUME NEW i \in 1 .. n + (m + k), w[i] \notin Blank PROVE n + 1 <= i /\ i <= n + m
    BY <1>4
  <2>1. ~(i \in 1 .. n)
    BY <1>5, <1>n
  <2>2. ~(i - (n + m) \in 1 .. k)
    <3> SUFFICES ASSUME i - (n + m) \in 1 .. k PROVE FALSE
      OBVIOUS
    <3>1. n + (m + (i - (n + m))) = i
      OBVIOUS
    <3>2. w[i] = v[i - (n + m)]
      BY <3>1, <1>7
    <3> QED
      BY <3>2, <1>k
  <2> QED
    BY <2>1, <2>2
<1>9. CASE t = <<>>
  <2>1. m = 0
    BY <1>9, <1>m
  <2>2. \A i \in 1 .. Len(w) : w[i] \in Blank
    BY <2>1, <1>8, <1>4
  <2> QED
    BY <1>1, <1>2, <1>9, <2>2, TrimBlank
<1>10. CASE t # <<>>
  <2>1. m >= 1 /\ t[1] \notin Blank /\ t[m] \notin Blank
    BY <1>10, <1>m, EmptySeq DEF Tight
  <2>2. w[n + 1] \notin Blank /\ w[n + m] \notin Blank
    BY <2>1, <1>6
  <2>3. n + 1 \in 1 .. Len(w) /\ n + m \in 1 .. Len(w)
    BY <2>1, <1>4
  <2>4. Trim(w) = SubSeq(w, n + 1, n + m)
    BY <2>2, <2>3, <1>8, TrimIs
  <2>5. /\ SubSeq(w, n + 1, n + m) \in Seq(A) /\ Len(SubSeq(w, n + 1, n + m)) = m
        /\ \A i \in 1 .. m : SubSeq(w, n + 1, n + m)[i] = w[n + i]
    <3>1. n + 1 \in Int /\ n + m \in Int /\ \A i \in (n + 1) .. (n + m) : w[i] \in A
      BY <2>3, LenProperties
    <3>2. /\ SubSeq(w, n + 1, n + m) \in Seq(A)
          /\ Len(SubSeq(w, n + 1, n + m)) = IF n + 1 <= n + m THEN (n + m) - (n + 1) + 1 ELSE 0
          /\ \A i \in 1 .. (n + m) - (n + 1) + 1 : SubSeq(w, n + 1, n + m)[i] = w[(n + 1) + i - 1]
      <4>1. PICK j \in Int : j = n + 1
        BY <3>1
      <4>2. PICK k2 \in Int : k2 = n + m
        BY <3>1
      <4>3. \A i \in j .. k2 : w[i] \in A
        BY <3>1, <4>1, <4>2
      <4>4. /\ SubSeq(w, j, k2) \in Seq(A) /\ Len(SubSeq(w, j, k2)) = IF j <= k2 THEN k2 - j + 1 ELSE 0
            /\ \A i \in 1 .. k2 - j + 1 : SubSeq(w, j, k2)[i] = w[j + i - 1]
        BY <4>3, SubSeqProperties
      <4> QED
        BY <4>1, <4>2, <4>4
    <3>3. (n + m) - (n + 1) + 1 = m /\ n + 1 <= n + m
      BY <2>1
    <3>4. \A i \in 1 .. m : (n + 1) + i - 1 = n + i
      OBVIOUS
    <3> QED
      BY <3>2, <3>3, <3>4
  <2>6. SubSeq(w, n + 1, n + m) = t
    BY <2>5, <1>6, <1>m, SeqEqual
  <2> QED
    BY <2>4, <2>6, <1>1, <1>2
<1> QED
  BY <1>9, <1>10

Blanks(A) == Seq(A \cap Blank)

LEMMA BlanksType ==
  ASSUME NEW A
  PROVE  /\ <<>> \in Blanks(A)
         /\ \A u \in Blanks(A) :
              /\ u \in Seq(A)
              /\ \A i \in 1 .. Len(u) : u[i] \in Blank
              /\ \A v \in Blanks(A) : Cat(u, v) \in Blanks(A)
              /\ \A x \in A : x \in Blank => Add(u, x) \in Blanks(A)
<1>1. <<>> \in Blanks(A)
  BY EmptySeq DEF Blanks
<1>2. ASSUME NEW u \in Seq(A \cap Blank)
      PROVE  /\ u \in Seq(A)
             /\ \A i \in 1 .. Len(u) : u[i] \in Blank
             /\ \A v \in Seq(A \cap Blank) : Cat(u, v) \in Seq(A \cap Blank)
             /\ \A x \in A : x \in Blank => Add(u, x) \in Seq(A \cap Blank)
  <2>0. A \cap Blank \subseteq A
    OBVIOUS
  <2>1. u \in Seq(A)
    BY <2>0, SeqMonotonic
  <2>2. \A i \in 1 .. Len(u) : u[i] \in Blank
    BY ElementOfSeq
  <2>3. \A v \in Seq(A \cap Blank) : Cat(u, v) \in Seq(A \cap Blank)
    BY CatType
  <2>4. \A x \in A : x \in Blank => Add(u, x) \in Seq(A \cap Blank)
    BY AddType
  <2> QED
    BY <2>1, <2>2, <2>3, <2>4
<1> QED
  BY <1>1, <1>2 DEF Blanks

LEMMA TrimPadded ==
  ASSUME NEW A, NEW u \in Blanks(A), NEW v \in Blanks(A),
         NEW t \in Seq(A), Tight(t)
  PROVE  Trim(Cat(u, Cat(t, v))) = t
<1>1. u \in Seq(A) /\ v \in Seq(A)
  BY SeqMonotonic, BlanksType
<1>2. (\A i \in 1 .. Len(u) : u[i] \in Blank) /\ \A i \in 1 .. Len(v) : v[i] \in Blank
  BY BlanksType
<1> QED
  BY <1>1, <1>2, TrimPad

LEMMA TrimTight ==
  ASSUME NEW A, NEW t \in Seq(A), Tight(t)
  PROVE  Trim(t) = t
<1>1. PICK e \in Blanks(A) : e = <<>> /\ e \in Seq(A)
  BY BlanksType
<1>2. Cat(t, e) = t /\ Cat(e, t) = t
  BY <1>1, CatNone
<1>3. Trim(Cat(e, Cat(t, e))) = t
  BY TrimPadded
<1> QED
  BY <1>2, <1>3

(* What is cut off.                                                        *)
LEMMA TrimCut ==
  ASSUME NEW A
  PROVE  \A t \in Seq(A) : \E u, v \in Blanks(A), c \in Seq(A) :
           Tight(c) /\ t = Cat(u, Cat(c, v))
<1> DEFINE cut(t) == \E u, v \in Blanks(A), c \in Seq(A) :
                       Tight(c) /\ t = Cat(u, Cat(c, v))
           ok == {t \in Seq(A) : cut(t)}
<1>0. <<>> \in Blanks(A) /\ <<>> \in Seq(A) /\ Tight(<<>>)
  BY EmptySeq, BlanksType DEF Tight
<1>1. <<>> \in ok
  <2>1. Cat(<<>>, <<>>) = <<>>
    BY <1>0, CatNone
  <2>2. <<>> = Cat(<<>>, Cat(<<>>, <<>>))
    BY <2>1
  <2>3. cut(<<>>)
    BY <1>0, <2>2
  <2> QED
    BY <1>0, <2>3
<1>2. ASSUME NEW t \in Seq(A), t \in ok, NEW x \in A PROVE Add(t, x) \in ok
  <2>0. Add(t, x) \in Seq(A)
    BY AddType
  <2>1. PICK u \in Blanks(A), v \in Blanks(A), c \in Seq(A) :
          Tight(c) /\ t = Cat(u, Cat(c, v))
    BY <1>2
  <2>2. u \in Seq(A) /\ v \in Seq(A)
    BY SeqMonotonic, BlanksType
  <2>3. Add(t, x) = Cat(u, Cat(c, Add(v, x)))
    <3>1. Cat(c, v) \in Seq(A)
      BY <2>2, CatType
    <3>2. Cat(c, Add(v, x)) = Add(Cat(c, v), x)
      BY <2>2, CatAdd
    <3>3. Cat(u, Add(Cat(c, v), x)) = Add(Cat(u, Cat(c, v)), x)
      BY <2>2, <3>1, CatAdd
    <3> QED
      BY <2>1, <3>2, <3>3
  <2>4. CASE x \in Blank
    <3>1. Add(v, x) \in Blanks(A)
      BY <2>4, BlanksType
    <3> QED
      BY <2>0, <2>1, <2>3, <3>1
  <2>5. CASE x \notin Blank
    <3>1. PICK d \in Seq(A) : d = Add(v, x)
      BY <2>2, AddType
    <3>e. Len(Add(v, x)) = Len(v) + 1 /\ Add(v, x)[Len(v) + 1] = x
      BY <2>2, AddType
    <3>d. /\ Len(d) = Len(v) + 1 /\ Len(v) \in Nat /\ d[Len(v) + 1] = x
      BY <3>1, <3>e
    <3>2. CASE c = <<>>
      <4>1. Cat(c, d) = d
        BY <3>2, CatNone
      <4>2. d = Cat(v, <<x>>) /\ <<x>> \in Seq(A)
        BY <2>2, <3>1, AddIs, One
      <4>3. PICK o \in Seq(A) : o = <<x>> /\ Tight(o)
        BY <2>5, <4>2 DEF Tight
      <4>4. Cat(u, Cat(v, o)) = Cat(Cat(u, v), o) /\ Cat(u, v) \in Blanks(A)
        BY <2>2, CatCat, BlanksType
      <4>5. Cat(o, <<>>) = o
        BY CatNone
      <4>6. Add(t, x) = Cat(Cat(u, v), Cat(o, <<>>))
        BY <2>3, <3>1, <4>1, <4>2, <4>3, <4>4, <4>5
      <4> QED
        BY <1>0, <2>0, <4>3, <4>4, <4>6
    <3>3. CASE c # <<>>
      <4>1. PICK w \in Seq(A) : w = Cat(c, d)
        BY CatType
      <4>2. Len(c) \in Nat /\ Len(c) >= 1
        BY <3>3, EmptySeq
      <4>3. /\ Len(w) = Len(c) + Len(d)
            /\ \A i \in 1 .. Len(c) + Len(d) : w[i] = IF i <= Len(c) THEN c[i] ELSE d[i - Len(c)]
        BY <4>1, CatType
      <4>4. w[1] = c[1]
        BY <4>2, <4>3, <3>d
      <4>5. w[Len(w)] = x
        <5>1. PICK i \in Nat : i = Len(c) + Len(d)
          BY <4>2, <3>d
        <5>2. i \in 1 .. Len(c) + Len(d) /\ ~(i <= Len(c)) /\ i - Len(c) = Len(v) + 1
          BY <5>1, <4>2, <3>d
        <5>3. w[i] = d[i - Len(c)]
          BY <5>2, <4>3
        <5> QED
          BY <5>1, <5>2, <5>3, <4>3, <3>d
      <4>6. c[1] \notin Blank
        BY <2>1, <3>3 DEF Tight
      <4>7. Tight(w)
        BY <2>5, <4>4, <4>5, <4>6 DEF Tight
      <4>8. Cat(w, <<>>) = w
        BY CatNone
      <4>9. Add(t, x) = Cat(u, Cat(w, <<>>))
        BY <2>3, <3>1, <4>1, <4>8
      <4> QED
        BY <1>0, <2>0, <4>7, <4>9
    <3> QED
      BY <3>2, <3>3
  <2> QED
    BY <2>4, <2>5
<1> HIDE DEF ok
<1>3. Seq(A) \subseteq ok
  BY <1>1, <1>2, SeqAdd
<1> QED
  BY <1>3 DEF ok

LEMMA TrimLeft ==
  ASSUME NEW A, NEW b \in Blanks(A), NEW t \in Seq(A)
  PROVE  Trim(Cat(b, t)) = Trim(t)
<1>1. PICK u \in Blanks(A), v \in Blanks(A), c \in Seq(A) :
        Tight(c) /\ t = Cat(u, Cat(c, v))
  <2>1. \E u, v \in Blanks(A), c \in Seq(A) : Tight(c) /\ t = Cat(u, Cat(c, v))
    BY TrimCut
  <2> QED
    BY <2>1
<1>2. b \in Seq(A) /\ u \in Seq(A) /\ v \in Seq(A) /\ Cat(c, v) \in Seq(A)
  BY BlanksType, CatType
<1>3. Cat(b, Cat(u, Cat(c, v))) = Cat(Cat(b, u), Cat(c, v)) /\ Cat(b, u) \in Blanks(A)
  BY <1>2, CatCat, BlanksType
<1>4. Trim(Cat(Cat(b, u), Cat(c, v))) = c /\ Trim(Cat(u, Cat(c, v))) = c
  BY <1>1, <1>3, TrimPadded
<1> QED
  BY <1>1, <1>3, <1>4

LEMMA TrimRight ==
  ASSUME NEW A, NEW b \in Blanks(A), NEW t \in Seq(A)
  PROVE  Trim(Cat(t, b)) = Trim(t)
<1>1. PICK u \in Blanks(A), v \in Blanks(A), c \in Seq(A) :
        Tight(c) /\ t = Cat(u, Cat(c, v))
  <2>1. \E u, v \in Blanks(A), c \in Seq(A) : Tight(c) /\ t = Cat(u, Cat(c, v))
    BY TrimCut
  <2> QED
    BY <2>1
<1>2. b \in Seq(A) /\ u \in Seq(A) /\ v \in Seq(A) /\ Cat(c, v) \in Seq(A)
  BY BlanksType, CatType
<1>3. Cat(Cat(u, Cat(c, v)), b) = Cat(u, Cat(Cat(c, v), b))
  BY <1>2, CatCat
<1>4. Cat(Cat(c, v), b) = Cat(c, Cat(v, b)) /\ Cat(v, b) \in Blanks(A)
  BY <1>2, CatCat, BlanksType
<1>5. Trim(Cat(u, Cat(c, Cat(v, b)))) = c /\ Trim(Cat(u, Cat(c, v))) = c
  BY <1>1, <1>4, TrimPadded
<1> QED
  BY <1>1, <1>3, <1>4, <1>5

(* The first separator.                                                    *)
LEMMA WhereFree ==
  ASSUME NEW A, NEW sep, NEW t \in Seq(Free(A, sep))
  PROVE  Where(t, sep) = 0
<1>1. {i \in 1 .. Len(t) : t[i] = sep} = {}
  BY ElementOfSeq, FreeType
<1> QED
  BY <1>1 DEF Where, SelectInSeq

LEMMA WhereIs ==
  ASSUME NEW A, NEW sep, NEW t \in Seq(A), NEW n \in 1 .. Len(t), t[n] = sep,
         \A i \in 1 .. Len(t) : t[i] = sep => n <= i
  PROVE  Where(t, sep) = n
<1> DEFINE I == {i \in 1 .. Len(t) : t[i] = sep}
<1>1. I \in SUBSET Nat /\ n \in I /\ I # {} /\ \A i \in I : n <= i
  BY LenProperties
<1>2. Where(t, sep) = IF I # {} THEN Min(I) ELSE 0
  BY DEF Where, SelectInSeq
<1> HIDE DEF I
<1>3. Min(I) = n
  BY <1>1, MinIs
<1> QED
  BY <1>1, <1>2, <1>3

LEMMA AtFirst ==
  ASSUME NEW A, NEW sep \in A, NEW a \in Seq(Free(A, sep)), NEW b \in Seq(A)
  PROVE  \E t \in Seq(A) :
           /\ t = Cat(Add(a, sep), b)
           /\ Len(t) = Len(a) + 1 + Len(b) /\ Where(t, sep) = Len(a) + 1
           /\ SubSeq(t, 1, Len(a)) = a /\ SubSeq(t, Len(a) + 2, Len(t)) = b
<1>0. a \in Seq(A)
  BY SeqMonotonic, FreeType
<1>1. PICK h \in Seq(A) : h = Add(a, sep)
  BY <1>0, AddType
<1>n. PICK n \in Nat : n = Len(a)
  OBVIOUS
<1>m. PICK m \in Nat : m = Len(b)
  OBVIOUS
<1>2. Len(h) = n + 1 /\ h[n + 1] = sep /\ \A i \in 1 .. n : h[i] = a[i]
  <2>1. Len(Add(a, sep)) = Len(a) + 1 /\ Add(a, sep)[Len(a) + 1] = sep
        /\ \A i \in 1 .. Len(a) : Add(a, sep)[i] = a[i]
    BY <1>0, AddType
  <2> QED
    BY <2>1, <1>1, <1>n
<1>3. PICK t \in Seq(A) : t = Cat(h, b)
  BY CatType
<1>4. Len(t) = (n + 1) + m /\ \A i \in 1 .. (n + 1) + m : t[i] = IF i <= n + 1 THEN h[i] ELSE b[i - (n + 1)]
  <2>1. Len(t) = Len(h) + Len(b) /\ \A i \in 1 .. Len(h) + Len(b) : t[i] = IF i <= Len(h) THEN h[i] ELSE b[i - Len(h)]
    BY <1>3, CatType
  <2> QED
    BY <2>1, <1>2, <1>m
<1>5. t[n + 1] = sep /\ (\A i \in 1 .. n : t[i] = a[i]) /\ \A i \in 1 .. m : t[(n + 1) + i] = b[i]
  <2>1. t[n + 1] = sep /\ (\A i \in 1 .. n : t[i] = a[i])
    BY <1>2, <1>4
  <2>2. ASSUME NEW i \in 1 .. m PROVE t[(n + 1) + i] = b[i]
    <3>1. (n + 1) + i \in 1 .. (n + 1) + m /\ ~((n + 1) + i <= n + 1) /\ ((n + 1) + i) - (n + 1) = i
      OBVIOUS
    <3> QED
      BY <3>1, <1>4
  <2> QED
    BY <2>1, <2>2
<1>6. \A i \in 1 .. n : a[i] \in A /\ a[i] # sep
  BY <1>n, ElementOfSeq, FreeType
<1>7. Where(t, sep) = n + 1
  <2>1. n + 1 \in 1 .. Len(t)
    BY <1>4
  <2>2. \A i \in 1 .. Len(t) : t[i] = sep => n + 1 <= i
    BY <1>4, <1>5, <1>6
  <2>3. PICK k \in 1 .. Len(t) : k = n + 1
    BY <2>1
  <2>4. t[k] = sep /\ \A i \in 1 .. Len(t) : t[i] = sep => k <= i
    BY <2>2, <2>3, <1>5
  <2>5. Where(t, sep) = k
    BY <2>4, WhereIs
  <2> QED
    BY <2>3, <2>5
<1>8. SubSeq(t, 1, n) = a
  <2>1. /\ SubSeq(t, 1, n) \in Seq(A) /\ Len(SubSeq(t, 1, n)) = IF 1 <= n THEN n - 1 + 1 ELSE 0
        /\ \A i \in 1 .. n - 1 + 1 : SubSeq(t, 1, n)[i] = t[1 + i - 1]
    <3>1. 1 \in Int /\ n \in Int /\ \A i \in 1 .. n : t[i] \in A
      BY <1>5, <1>6
    <3> QED
      BY <3>1, SubSeqProperties
  <2>2. Len(SubSeq(t, 1, n)) = n /\ \A i \in 1 .. n : SubSeq(t, 1, n)[i] = a[i]
    <3>1. n - 1 + 1 = n /\ \A i \in 1 .. n : 1 + i - 1 = i
      OBVIOUS
    <3> QED
      BY <2>1, <3>1, <1>5
  <2> QED
    BY <2>1, <2>2, <1>0, <1>n, SeqEqual
<1>9. SubSeq(t, n + 2, (n + 1) + m) = b
  <2>1. /\ SubSeq(t, n + 2, (n + 1) + m) \in Seq(A)
        /\ Len(SubSeq(t, n + 2, (n + 1) + m)) = IF n + 2 <= (n + 1) + m THEN (n + 1) + m - (n + 2) + 1 ELSE 0
        /\ \A i \in 1 .. (n + 1) + m - (n + 2) + 1 : SubSeq(t, n + 2, (n + 1) + m)[i] = t[n + 2 + i - 1]
    <3>1. ASSUME NEW i \in n + 2 .. (n + 1) + m PROVE t[i] \in A
      <4>1. i \in 1 .. Len(t)
        BY <1>4
      <4> QED
        BY <4>1, ElementOfSeq
    <3>2. n + 2 \in Int /\ (n + 1) + m \in Int
      OBVIOUS
    <3> QED
      BY <3>1, <3>2, SubSeqProperties
  <2>2. Len(SubSeq(t, n + 2, (n + 1) + m)) = m /\ \A i \in 1 .. m : SubSeq(t, n + 2, (n + 1) + m)[i] = b[i]
    <3>1. (n + 1) + m - (n + 2) + 1 = m /\ (\A i \in 1 .. m : n + 2 + i - 1 = (n + 1) + i)
          /\ (n + 2 <= (n + 1) + m <=> m # 0)
      OBVIOUS
    <3> QED
      BY <2>1, <3>1, <1>5
  <2> QED
    BY <2>1, <2>2, <1>m, SeqEqual
<1> QED
  BY <1>1, <1>n, <1>m, <1>3, <1>4, <1>7, <1>8, <1>9

LEMMA WhereFirst ==
  ASSUME NEW A, NEW sep \in A, NEW a \in Seq(Free(A, sep)), NEW b \in Seq(A)
  PROVE  Where(Cat(Add(a, sep), b), sep) = Len(a) + 1
<1>1. PICK t \in Seq(A) :
           /\ t = Cat(Add(a, sep), b)
           /\ Len(t) = Len(a) + 1 + Len(b) /\ Where(t, sep) = Len(a) + 1
           /\ SubSeq(t, 1, Len(a)) = a /\ SubSeq(t, Len(a) + 2, Len(t)) = b
  BY AtFirst
<1> QED
  BY <1>1

LEMMA LeftFree ==
  ASSUME NEW A, NEW sep, NEW t \in Seq(Free(A, sep))
  PROVE  Left(t, sep) = Trim(t) /\ Right(t, sep) = <<>>
BY WhereFree DEF Left, Right

LEMMA LeftFirst ==
  ASSUME NEW A, NEW sep \in A, NEW a \in Seq(Free(A, sep)), NEW b \in Seq(A)
  PROVE  /\ Left(Cat(Add(a, sep), b), sep) = Trim(a)
         /\ Right(Cat(Add(a, sep), b), sep) = Trim(b)
<1>1. PICK t \in Seq(A) :
           /\ t = Cat(Add(a, sep), b)
           /\ Len(t) = Len(a) + 1 + Len(b) /\ Where(t, sep) = Len(a) + 1
           /\ SubSeq(t, 1, Len(a)) = a /\ SubSeq(t, Len(a) + 2, Len(t)) = b
  BY AtFirst
<1>n. PICK n \in Nat : n = Len(a)
  OBVIOUS
<1>2. Where(t, sep) = n + 1 /\ n + 1 # 0 /\ (n + 1) - 1 = n /\ (n + 1) + 1 = n + 2
  BY <1>1, <1>n
<1>3. Left(t, sep) = Trim(a)
  BY <1>1, <1>n, <1>2 DEF Left
<1>4. Right(t, sep) = Trim(b)
  BY <1>1, <1>n, <1>2 DEF Right
<1> QED
  BY <1>1, <1>3, <1>4

-----------------------------------------------------------------------------
(* Trimmed and Filled.                                                     *)

LEMMA FreeCat ==
  ASSUME NEW A, NEW c, NEW s \in Seq(Free(A, c)), NEW t \in Seq(Free(A, c))
  PROVE  Cat(s, t) \in Seq(Free(A, c))
BY CatType

(* Trimmed                                                                 *)
LEMMA TrimmedIs ==
  ASSUME NEW A, NEW p \in Seq(Seq(A))
  PROVE  /\ Trimmed(p) \in Seq(Seq(A)) /\ Len(Trimmed(p)) = Len(p)
         /\ \A i \in 1 .. Len(p) : Trimmed(p)[i] = Trim(p[i])
<1>1. \A i \in 1 .. Len(p) : Trim(p[i]) \in Seq(A)
  BY ElementOfSeq, TrimType
<1>2. DOMAIN p = 1 .. Len(p) /\ Len(p) \in Nat
  BY LenProperties
<1>3. PICK q : q = [i \in 1 .. Len(p) |-> Trim(p[i])]
  OBVIOUS
<1>4. q \in Seq(Seq(A)) /\ Len(q) = Len(p) /\ \A i \in 1 .. Len(p) : q[i] = Trim(p[i])
  BY <1>1, <1>2, <1>3
<1>5. Trimmed(p) = q
  BY <1>2, <1>3 DEF Trimmed
<1> QED
  BY <1>4, <1>5

LEMMA TrimmedAdd ==
  ASSUME NEW A, NEW p \in Seq(Seq(A)), NEW x \in Seq(A)
  PROVE  Trimmed(Add(p, x)) = Add(Trimmed(p), Trim(x))
<1>n. PICK n \in Nat : n = Len(p)
  OBVIOUS
<1>1. PICK a \in Seq(Seq(A)) : a = Add(p, x)
  BY AddType
<1>2. Len(a) = n + 1 /\ a[n + 1] = x /\ \A i \in 1 .. n : a[i] = p[i]
  <2>1. Len(Add(p, x)) = Len(p) + 1 /\ Add(p, x)[Len(p) + 1] = x
        /\ \A i \in 1 .. Len(p) : Add(p, x)[i] = p[i]
    BY AddType
  <2> QED
    BY <2>1, <1>1, <1>n
<1>3. PICK q \in Seq(Seq(A)) : q = Trimmed(p) /\ Len(q) = n /\ \A i \in 1 .. n : q[i] = Trim(p[i])
  BY <1>n, TrimmedIs
<1>x. PICK z \in Seq(A) : z = Trim(x)
  BY TrimType
<1>4. PICK r \in Seq(Seq(A)) : r = Add(q, z)
  BY AddType
<1>5. Len(r) = n + 1 /\ r[n + 1] = z /\ \A i \in 1 .. n : r[i] = q[i]
  <2>1. Len(Add(q, z)) = Len(q) + 1 /\ Add(q, z)[Len(q) + 1] = z
        /\ \A i \in 1 .. Len(q) : Add(q, z)[i] = q[i]
    BY AddType
  <2> QED
    BY <2>1, <1>3, <1>4
<1>6. PICK b \in Seq(Seq(A)) : b = Trimmed(a) /\ Len(b) = n + 1 /\ \A i \in 1 .. n + 1 : b[i] = Trim(a[i])
  <2>1. /\ Trimmed(a) \in Seq(Seq(A)) /\ Len(Trimmed(a)) = Len(a)
        /\ \A i \in 1 .. Len(a) : Trimmed(a)[i] = Trim(a[i])
    BY TrimmedIs
  <2> QED
    BY <2>1, <1>2
<1>7. \A i \in 1 .. n + 1 : b[i] = r[i]
  <2> TAKE i \in 1 .. n + 1
  <2>1. CASE i = n + 1
    BY <2>1, <1>2, <1>5, <1>6, <1>x
  <2>2. CASE i \in 1 .. n
    BY <2>2, <1>2, <1>3, <1>5, <1>6
  <2> QED
    BY <2>1, <2>2
<1>8. b = r
  BY <1>5, <1>6, <1>7, SeqEqual
<1> QED
  BY <1>1, <1>3, <1>4, <1>6, <1>8, <1>x

LEMMA TrimmedNone == Trimmed(<<>>) = <<>>
<1>1. Trimmed(<<>>) \in Seq(Seq({})) /\ Len(Trimmed(<<>>)) = Len(<<>>)
  BY EmptySeq, TrimmedIs
<1> QED
  BY <1>1, EmptySeq

LEMMA TrimmedOne ==
  ASSUME NEW A, NEW x \in Seq(A)
  PROVE  Trimmed(<<x>>) = <<Trim(x)>>
<1>1. Add(<<>>, x) = <<x>> /\ Add(<<>>, Trim(x)) = <<Trim(x)>>
  BY One, TrimType
<1>2. Trimmed(Add(<<>>, x)) = Add(Trimmed(<<>>), Trim(x))
  BY EmptySeq, TrimmedAdd
<1> QED
  BY <1>1, <1>2, TrimmedNone

LEMMA TrimmedCat ==
  ASSUME NEW A, NEW p \in Seq(Seq(A)), NEW q \in Seq(Seq(A))
  PROVE  Trimmed(Cat(p, q)) = Cat(Trimmed(p), Trimmed(q))
<1> DEFINE ok == {r \in Seq(Seq(A)) : Trimmed(Cat(p, r)) = Cat(Trimmed(p), Trimmed(r))}
<1>0. PICK t \in Seq(Seq(A)) : t = Trimmed(p)
  BY TrimmedIs
<1>1. <<>> \in ok
  <2>1. Cat(p, <<>>) = p /\ Cat(t, <<>>) = t
    BY CatNone
  <2> QED
    BY <1>0, <2>1, TrimmedNone, EmptySeq
<1>2. ASSUME NEW r \in Seq(Seq(A)), r \in ok, NEW x \in Seq(A) PROVE Add(r, x) \in ok
  <2>1. Cat(p, Add(r, x)) = Add(Cat(p, r), x) /\ Cat(p, r) \in Seq(Seq(A)) /\ Add(r, x) \in Seq(Seq(A))
    BY CatAdd, CatType, AddType
  <2>2. PICK s \in Seq(Seq(A)) : s = Trimmed(r)
    BY TrimmedIs
  <2>3. PICK z \in Seq(A) : z = Trim(x)
    BY TrimType
  <2>4. Trimmed(Add(Cat(p, r), x)) = Add(Cat(t, s), z)
    BY <1>2, <1>0, <2>1, <2>2, <2>3, TrimmedAdd
  <2>5. Trimmed(Add(r, x)) = Add(s, z)
    BY <2>2, <2>3, TrimmedAdd
  <2>6. Cat(t, Add(s, z)) = Add(Cat(t, s), z)
    BY CatAdd
  <2> QED
    BY <1>0, <2>1, <2>4, <2>5, <2>6
<1> HIDE DEF ok
<1>3. Seq(Seq(A)) \subseteq ok
  BY <1>1, <1>2, SeqAdd
<1> QED
  BY <1>3 DEF ok

(* Parts that are trimmed.                                                 *)
LEMMA TrimmedSame ==
  ASSUME NEW A, NEW p \in Seq(Seq(A)), \A i \in 1 .. Len(p) : Tight(p[i])
  PROVE  Trimmed(p) = p
<1>1. /\ Trimmed(p) \in Seq(Seq(A)) /\ Len(Trimmed(p)) = Len(p)
      /\ \A i \in 1 .. Len(p) : Trimmed(p)[i] = Trim(p[i])
  BY TrimmedIs
<1>2. \A i \in 1 .. Len(p) : Trim(p[i]) = p[i]
  BY ElementOfSeq, TrimTight
<1>3. PICK q \in Seq(Seq(A)) : q = Trimmed(p) /\ Len(q) = Len(p) /\ \A i \in 1 .. Len(q) : q[i] = p[i]
  BY <1>1, <1>2
<1> QED
  BY <1>3, SeqEqual

(* Filled                                                                  *)
Fill(t) == IF t = <<>> THEN <<>> ELSE <<t>>

LEMMA FillType ==
  ASSUME NEW S, NEW t \in S
  PROVE  Fill(t) \in Seq(S) /\ Fill(t) \in Seq(S \ {<<>>})
<1>1. CASE t = <<>>
  BY <1>1, EmptySeq DEF Fill
<1>2. CASE t # <<>>
  <2>1. t \in S \ {<<>>}
    BY <1>2
  <2> QED
    BY <1>2, <2>1, One DEF Fill
<1> QED
  BY <1>1, <1>2

LEMMA FilledNone == Filled(<<>>) = <<>>
<1>1. [i \in DOMAIN <<>> |-> IF <<>>[i] = <<>> THEN <<>> ELSE << <<>>[i] >>] = <<>>
  OBVIOUS
<1> QED
  BY <1>1, FlattenNone DEF Filled

LEMMA FilledAdd ==
  ASSUME NEW S, NEW p \in Seq(S), NEW x \in S
  PROVE  Filled(Add(p, x)) = Cat(Filled(p), Fill(x))
<1>n. PICK n \in Nat : n = Len(p)
  OBVIOUS
<1>1. PICK a \in Seq(S) : a = Add(p, x)
  BY AddType
<1>2. Len(a) = n + 1 /\ a[n + 1] = x /\ \A i \in 1 .. n : a[i] = p[i]
  <2>1. Len(Add(p, x)) = Len(p) + 1 /\ Add(p, x)[Len(p) + 1] = x
        /\ \A i \in 1 .. Len(p) : Add(p, x)[i] = p[i]
    BY AddType
  <2> QED
    BY <2>1, <1>1, <1>n
<1>3. PICK f \in Seq(Seq(S)) : f = [i \in 1 .. n |-> Fill(p[i])] /\ Len(f) = n
  <2>1. PICK e : e = [i \in 1 .. n |-> Fill(p[i])]
    OBVIOUS
  <2>2. \A i \in 1 .. n : Fill(p[i]) \in Seq(S)
    BY <1>n, ElementOfSeq, FillType
  <2>3. e \in Seq(Seq(S)) /\ Len(e) = n
    BY <2>1, <2>2
  <2> QED
    BY <2>1, <2>3
<1>4. PICK g : g = [i \in 1 .. n + 1 |-> Fill(a[i])]
  OBVIOUS
<1>6. g \in Seq(Seq(S)) /\ Len(g) = n + 1
  <2>1. \A i \in 1 .. n + 1 : Fill(a[i]) \in Seq(S)
    BY <1>2, ElementOfSeq, FillType
  <2> QED
    BY <2>1, <1>4
<1>y. PICK y \in Seq(S) : y = Fill(x)
  BY FillType
<1>7. PICK h \in Seq(Seq(S)) : h = Add(f, y)
  BY AddType
<1>8. Len(h) = n + 1 /\ h[n + 1] = Fill(x) /\ \A i \in 1 .. n : h[i] = f[i]
  <2>1. Len(Add(f, y)) = Len(f) + 1 /\ Add(f, y)[Len(f) + 1] = y
        /\ \A i \in 1 .. Len(f) : Add(f, y)[i] = f[i]
    BY AddType
  <2> QED
    BY <2>1, <1>3, <1>7, <1>y
<1>9. \A i \in 1 .. n + 1 : g[i] = h[i]
  <2> TAKE i \in 1 .. n + 1
  <2>1. CASE i = n + 1
    BY <2>1, <1>2, <1>4, <1>8
  <2>2. CASE i \in 1 .. n
    BY <2>2, <1>2, <1>3, <1>4, <1>8
  <2> QED
    BY <2>1, <2>2
<1>10. g = h
  BY <1>6, <1>8, <1>9, SeqEqual
<1>11. Filled(p) = FlattenSeq(f) /\ Filled(a) = FlattenSeq(g)
  <2>1. DOMAIN p = 1 .. n /\ DOMAIN a = 1 .. n + 1
    BY <1>n, <1>2, LenProperties
  <2> QED
    BY <2>1, <1>3, <1>4 DEF Filled, Fill
<1>12. FlattenSeq(Add(f, y)) = Cat(FlattenSeq(f), y)
  BY <1>y, FlattenAdd
<1> QED
  BY <1>1, <1>7, <1>10, <1>11, <1>12, <1>y

LEMMA FilledType ==
  ASSUME NEW S
  PROVE  \A p \in Seq(S) : Filled(p) \in Seq(S \ {<<>>})
<1> DEFINE ok == {p \in Seq(S) : Filled(p) \in Seq(S \ {<<>>})}
<1>1. <<>> \in ok
  BY EmptySeq, FilledNone
<1>2. ASSUME NEW p \in Seq(S), p \in ok, NEW x \in S PROVE Add(p, x) \in ok
  <2>1. Filled(p) \in Seq(S \ {<<>>}) /\ Fill(x) \in Seq(S \ {<<>>})
    BY <1>2, FillType
  <2>2. Cat(Filled(p), Fill(x)) \in Seq(S \ {<<>>})
    BY <2>1, CatType
  <2> QED
    BY <2>2, FilledAdd, AddType
<1> HIDE DEF ok
<1>3. Seq(S) \subseteq ok
  BY <1>1, <1>2, SeqAdd
<1> QED
  BY <1>3 DEF ok

LEMMA FilledSame ==
  ASSUME NEW S
  PROVE  \A p \in Seq(S \ {<<>>}) : Filled(p) = p
<1> DEFINE ok == {p \in Seq(S \ {<<>>}) : Filled(p) = p}
<1>1. <<>> \in ok
  BY EmptySeq, FilledNone
<1>2. ASSUME NEW p \in Seq(S \ {<<>>}), p \in ok, NEW x \in S \ {<<>>} PROVE Add(p, x) \in ok
  <2>1. Fill(x) = <<x>>
    BY DEF Fill
  <2>2. Filled(Add(p, x)) = Cat(p, Fill(x))
    BY <1>2, FilledAdd
  <2>3. Add(p, x) = Cat(p, <<x>>)
    BY AddIs
  <2> QED
    BY <2>1, <2>2, <2>3, AddType
<1> HIDE DEF ok
<1>3. Seq(S \ {<<>>}) \subseteq ok
  BY <1>1, <1>2, SeqAdd
<1> QED
  BY <1>3 DEF ok

-----------------------------------------------------------------------------
(* Join.                                                                   *)

LEMMA JoinNone == ASSUME NEW sep PROVE Join(<<>>, sep) = <<>>
<1>1. [i \in DOMAIN <<>> |-> IF i = 1 THEN <<>>[1] ELSE sep \o <<>>[i]] = <<>>
  OBVIOUS
<1> QED
  BY <1>1, FlattenNone DEF Join

LEMMA JoinAdd ==
  ASSUME NEW A, NEW p \in Seq(Seq(A)), NEW x \in Seq(A), NEW sep \in Seq(A)
  PROVE  Join(Add(p, x), sep) = IF p = <<>> THEN x ELSE Cat(Join(p, sep), Cat(sep, x))
<1>n. PICK n \in Nat : n = Len(p)
  OBVIOUS
<1>0. p = <<>> <=> n = 0
  BY <1>n, EmptySeq
<1>1. PICK a \in Seq(Seq(A)) : a = Add(p, x)
  BY AddType
<1>2. Len(a) = n + 1 /\ a[n + 1] = x /\ \A i \in 1 .. n : a[i] = p[i]
  <2>1. Len(Add(p, x)) = Len(p) + 1 /\ Add(p, x)[Len(p) + 1] = x
        /\ \A i \in 1 .. Len(p) : Add(p, x)[i] = p[i]
    BY AddType
  <2> QED
    BY <2>1, <1>1, <1>n
<1>3. PICK f \in Seq(Seq(A)) : f = [i \in 1 .. n |-> IF i = 1 THEN p[1] ELSE Cat(sep, p[i])] /\ Len(f) = n
  <2>1. PICK e : e = [i \in 1 .. n |-> IF i = 1 THEN p[1] ELSE Cat(sep, p[i])]
    OBVIOUS
  <2>2. \A i \in 1 .. n : p[i] \in Seq(A) /\ Cat(sep, p[i]) \in Seq(A)
    BY <1>n, ElementOfSeq, CatType
  <2>3. e \in Seq(Seq(A)) /\ Len(e) = n
    BY <2>1, <2>2
  <2> QED
    BY <2>1, <2>3
<1>4. PICK g \in Seq(Seq(A)) : g = [i \in 1 .. n + 1 |-> IF i = 1 THEN a[1] ELSE Cat(sep, a[i])] /\ Len(g) = n + 1
  <2>1. PICK e : e = [i \in 1 .. n + 1 |-> IF i = 1 THEN a[1] ELSE Cat(sep, a[i])]
    OBVIOUS
  <2>2. \A i \in 1 .. n + 1 : a[i] \in Seq(A) /\ Cat(sep, a[i]) \in Seq(A)
    BY <1>2, ElementOfSeq, CatType
  <2>3. e \in Seq(Seq(A)) /\ Len(e) = n + 1
    BY <2>1, <2>2
  <2> QED
    BY <2>1, <2>3
<1>y. PICK y \in Seq(A) : y = IF n = 0 THEN x ELSE Cat(sep, x)
  BY CatType
<1>5. PICK h \in Seq(Seq(A)) : h = Add(f, y)
  BY AddType
<1>6. Len(h) = n + 1 /\ h[n + 1] = y /\ \A i \in 1 .. n : h[i] = f[i]
  <2>1. Len(Add(f, y)) = Len(f) + 1 /\ Add(f, y)[Len(f) + 1] = y
        /\ \A i \in 1 .. Len(f) : Add(f, y)[i] = f[i]
    BY AddType
  <2> QED
    BY <2>1, <1>3, <1>5
<1>7. \A i \in 1 .. n + 1 : g[i] = h[i]
  <2> TAKE i \in 1 .. n + 1
  <2>1. CASE i = n + 1 /\ n = 0
    BY <2>1, <1>2, <1>4, <1>6, <1>y
  <2>2. CASE i = n + 1 /\ n # 0
    <3>1. g[i] = Cat(sep, a[i])
      BY <2>2, <1>4
    <3>2. h[i] = Cat(sep, x) /\ a[i] = x
      BY <2>2, <1>2, <1>6, <1>y
    <3> QED
      BY <3>1, <3>2
  <2>3. CASE i \in 1 .. n
    <3>1. g[i] = IF i = 1 THEN a[1] ELSE Cat(sep, a[i])
      BY <1>4
    <3>2. h[i] = IF i = 1 THEN p[1] ELSE Cat(sep, p[i])
      BY <2>3, <1>3, <1>6
    <3>3. a[i] = p[i] /\ (i = 1 => a[1] = p[1])
      BY <2>3, <1>2
    <3> QED
      BY <3>1, <3>2, <3>3
  <2> QED
    BY <2>1, <2>2, <2>3
<1>8. g = h
  BY <1>4, <1>6, <1>7, SeqEqual
<1>9. Join(p, sep) = FlattenSeq(f) /\ Join(a, sep) = FlattenSeq(g)
  <2>1. DOMAIN p = 1 .. n /\ DOMAIN a = 1 .. n + 1
    BY <1>n, <1>2, LenProperties
  <2> QED
    BY <2>1, <1>3, <1>4 DEF Join, Cat
<1>10. FlattenSeq(Add(f, y)) = Cat(FlattenSeq(f), y)
  BY FlattenAdd
<1>11. Join(a, sep) = Cat(Join(p, sep), y)
  BY <1>5, <1>8, <1>9, <1>10
<1>12. CASE p = <<>>
  <2>1. Cat(<<>>, x) = x
    BY CatNone
  <2> QED
    BY <1>0, <1>1, <1>11, <1>12, <1>y, <2>1, JoinNone
<1>13. CASE p # <<>>
  BY <1>0, <1>1, <1>11, <1>13, <1>y
<1> QED
  BY <1>12, <1>13

LEMMA JoinOne ==
  ASSUME NEW A, NEW x \in Seq(A), NEW sep \in Seq(A)
  PROVE  Join(<<x>>, sep) = x
<1>1. Add(<<>>, x) = <<x>> /\ <<>> \in Seq(Seq(A))
  BY One, EmptySeq
<1>2. Join(Add(<<>>, x), sep) = x
  BY <1>1, JoinAdd
<1> QED
  BY <1>1, <1>2

LEMMA JoinType ==
  ASSUME NEW A, NEW sep \in Seq(A)
  PROVE  \A p \in Seq(Seq(A)) : Join(p, sep) \in Seq(A)
<1> DEFINE ok == {p \in Seq(Seq(A)) : Join(p, sep) \in Seq(A)}
<1>1. <<>> \in ok
  BY EmptySeq, JoinNone
<1>2. ASSUME NEW p \in Seq(Seq(A)), p \in ok, NEW x \in Seq(A) PROVE Add(p, x) \in ok
  <2>1. Join(p, sep) \in Seq(A) /\ Cat(sep, x) \in Seq(A)
    BY <1>2, CatType
  <2>2. Cat(Join(p, sep), Cat(sep, x)) \in Seq(A)
    BY <2>1, CatType
  <2>3. Join(Add(p, x), sep) \in Seq(A)
    BY <2>2, JoinAdd
  <2> QED
    BY <2>3, AddType
<1> HIDE DEF ok
<1>3. Seq(Seq(A)) \subseteq ok
  BY <1>1, <1>2, SeqAdd
<1> QED
  BY <1>3 DEF ok

(* The first item and the rest.                                            *)
LEMMA JoinFirst ==
  ASSUME NEW A, NEW sep \in Seq(A), NEW x \in Seq(A), NEW q \in Seq(Seq(A)), q # <<>>
  PROVE  Join(Cat(<<x>>, q), sep) = Cat(x, Cat(sep, Join(q, sep)))
<1> DEFINE ok == {r \in Seq(Seq(A)) :
                    r # <<>> => Join(Cat(<<x>>, r), sep) = Cat(x, Cat(sep, Join(r, sep)))}
<1>o. PICK o \in Seq(Seq(A)) : o = <<x>> /\ o # <<>>
  BY One
<1>1. <<>> \in ok
  BY EmptySeq
<1>2. ASSUME NEW r \in Seq(Seq(A)), r \in ok, NEW y \in Seq(A) PROVE Add(r, y) \in ok
  <2>0. Add(r, y) \in Seq(Seq(A))
    BY AddType
  <2>1. CASE r = <<>>
    <3>1. Add(r, y) = <<y>> /\ Cat(o, Add(r, y)) = Add(Cat(o, r), y) /\ Cat(o, r) = o
      <4>1. Add(r, y) = <<y>>
        BY <2>1, One
      <4>2. Cat(o, Add(r, y)) = Add(Cat(o, r), y)
        BY CatAdd
      <4>3. Cat(o, r) = o
        BY <2>1, CatNone
      <4> QED
        BY <4>1, <4>2, <4>3
    <3>2. Join(Add(o, y), sep) = Cat(Join(o, sep), Cat(sep, y))
      <4>1. o # <<>> /\ Join(Add(o, y), sep) = IF o = <<>> THEN y ELSE Cat(Join(o, sep), Cat(sep, y))
        BY <1>o, JoinAdd
      <4> QED
        BY <4>1
    <3>3. Join(<<y>>, sep) = y /\ Join(o, sep) = x
      BY <1>o, JoinOne
    <3> QED
      BY <1>o, <2>0, <3>1, <3>2, <3>3
  <2>2. CASE r # <<>>
    <3>1. Cat(o, Add(r, y)) = Add(Cat(o, r), y) /\ Cat(o, r) \in Seq(Seq(A))
      BY CatAdd, CatType
    <3>2. Cat(o, r) # <<>>
      <4>1. Len(Cat(o, r)) = Len(o) + Len(r) /\ Len(r) \in Nat /\ Len(o) = 1
        BY <1>o, CatType, LenProperties
      <4> QED
        BY <4>1, EmptySeq
    <3>3. PICK j \in Seq(A) : j = Join(r, sep)
      BY JoinType
    <3>4. Join(Cat(o, r), sep) = Cat(x, Cat(sep, j))
      BY <1>2, <1>o, <2>2, <3>3
    <3>5. Join(Add(Cat(o, r), y), sep) = Cat(Cat(x, Cat(sep, j)), Cat(sep, y))
      BY <3>1, <3>2, <3>4, JoinAdd
    <3>6. PICK k \in Seq(A) : k = Cat(sep, y)
      BY CatType
    <3>7. Cat(sep, j) \in Seq(A) /\ Cat(Cat(x, Cat(sep, j)), k) = Cat(x, Cat(Cat(sep, j), k))
      <4>1. PICK e \in Seq(A) : e = Cat(sep, j)
        BY CatType
      <4>2. Cat(Cat(x, e), k) = Cat(x, Cat(e, k))
        BY CatCat
      <4> QED
        BY <4>1, <4>2
    <3>8. Cat(Cat(sep, j), k) = Cat(sep, Cat(j, k))
      BY CatCat
    <3>9. Join(Add(r, y), sep) = Cat(j, k)
      BY <2>2, <3>3, <3>6, JoinAdd
    <3> QED
      BY <1>o, <2>0, <3>1, <3>5, <3>6, <3>7, <3>8, <3>9
  <2> QED
    BY <2>1, <2>2
<1> HIDE DEF ok
<1>3. Seq(Seq(A)) \subseteq ok
  BY <1>1, <1>2, SeqAdd
<1> QED
  BY <1>3 DEF ok

(* A joined list is taken apart where it was joined.                       *)
LEMMA JoinSingle ==
  ASSUME NEW A, NEW c \in A, NEW sep \in Seq(A), NEW lead \in Blanks(Free(A, c)),
         NEW x \in Seq(Free(A, c)), NEW z, z = <<Trim(x)>>
  PROVE  Trimmed(Split(Cat(lead, Join(<<x>>, sep)), c)) = z
<1>F. PICK F : F = Free(A, c)
  OBVIOUS
<1>0. lead \in Seq(F) /\ x \in Seq(F) /\ lead \in Blanks(F) /\ x \in Seq(A)
  BY <1>F, BlanksType, FreeType
<1>2. Join(<<x>>, sep) = x
  BY <1>0, JoinOne
<1>3. Cat(lead, x) \in Seq(F) /\ Trim(Cat(lead, x)) = Trim(x)
  BY <1>0, CatType, TrimLeft
<1>4. Split(Cat(lead, x), c) = <<Cat(lead, x)>>
  BY <1>F, <1>3, SplitFree
<1>5. Trimmed(<<Cat(lead, x)>>) = <<Trim(Cat(lead, x))>>
  BY <1>3, TrimmedOne
<1> QED
  BY <1>2, <1>3, <1>4, <1>5

LEMMA JoinStep ==
  ASSUME NEW A, NEW c \in A, NEW pre \in Blanks(Free(A, c)), NEW post \in Blanks(Free(A, c)),
         NEW sep \in Seq(A), sep = Cat(Add(pre, c), post),
         NEW lead \in Blanks(Free(A, c)),
         NEW x \in Seq(Free(A, c)), NEW q \in Seq(Seq(Free(A, c))), q # <<>>, NEW z, z = <<Trim(x)>>
  PROVE  Trimmed(Split(Cat(lead, Join(Cat(<<x>>, q), sep)), c))
           = Cat(z, Trimmed(Split(Cat(post, Join(q, sep)), c)))
<1>F. PICK F : F = Free(A, c)
  OBVIOUS
<1>0. /\ lead \in Seq(F) /\ pre \in Seq(F) /\ post \in Seq(F) /\ x \in Seq(F)
      /\ lead \in Blanks(F) /\ pre \in Blanks(F)
      /\ \A t \in Seq(F) : t \in Seq(A)
  BY <1>F, BlanksType, SeqMonotonic, FreeType
<1> QED
  <2>q. q \in Seq(Seq(A))
    <3>1. Seq(Free(A, c)) \subseteq Seq(A)
      BY SeqMonotonic, FreeType
    <3> QED
      BY <3>1, SeqMonotonic
  <2>j. PICK j \in Seq(A) : j = Join(q, sep)
    BY <2>q, JoinType
  <2>1. Join(Cat(<<x>>, q), sep) = Cat(x, Cat(sep, j))
    BY <1>0, <2>q, <2>j, JoinFirst
  <2>h. PICK h \in Seq(F) : h = Cat(x, pre)
    BY <1>0, CatType
  <2>g. PICK g \in Seq(F) : g = Cat(lead, h)
    BY <1>0, CatType
  <2>k. PICK k \in Seq(A) : k = Cat(post, j)
    BY <1>0, CatType
  <2>2. Cat(lead, Cat(x, Cat(sep, j))) = Cat(Add(g, c), k)
    <3>1. PICK a \in Seq(A) : a = Add(pre, c)
      BY <1>0, AddType
    <3>2. Cat(sep, j) = Cat(a, k)
      <4>1. Cat(Cat(a, post), j) = Cat(a, Cat(post, j))
        BY <1>0, CatCat
      <4> QED
        BY <3>1, <4>1, <2>k
    <3>3. Cat(x, Cat(a, k)) = Cat(Cat(x, a), k) /\ Cat(x, a) \in Seq(A)
      <4>1. Cat(x, Cat(a, k)) = Cat(Cat(x, a), k)
        BY <1>0, CatCat
      <4>2. Cat(x, a) \in Seq(A)
        BY <1>0, CatType
      <4> QED
        BY <4>1, <4>2
    <3>4. Cat(lead, Cat(Cat(x, a), k)) = Cat(Cat(lead, Cat(x, a)), k)
      BY <1>0, <3>3, CatCat
    <3>5. Cat(x, a) = Add(h, c)
      BY <1>0, <2>h, <3>1, CatAdd
    <3>6. Cat(lead, Add(h, c)) = Add(g, c)
      BY <1>0, <2>g, CatAdd
    <3> QED
      BY <3>2, <3>3, <3>4, <3>5, <3>6
  <2>3. Split(Cat(Add(g, c), k), c) = Cat(<<g>>, Split(k, c))
    BY <1>F, SplitFirst
  <2>4. Trim(g) = Trim(x)
    <3>1. Trim(Cat(lead, h)) = Trim(h) /\ Trim(Cat(x, pre)) = Trim(x)
      BY <1>0, TrimLeft, TrimRight
    <3> QED
      BY <3>1, <2>h, <2>g
  <2>5. Trimmed(Cat(<<g>>, Split(k, c))) = Cat(<<Trim(g)>>, Trimmed(Split(k, c)))
    <3>1. PICK o \in Seq(Seq(F)) : o = <<g>>
      BY One
    <3>2. PICK r \in Seq(Seq(F)) : r = Split(k, c)
      BY <1>F, SplitType
    <3>3. Trimmed(Cat(o, r)) = Cat(Trimmed(o), Trimmed(r))
      BY TrimmedCat
    <3>4. Trimmed(o) = <<Trim(g)>>
      BY <3>1, TrimmedOne
    <3> QED
      BY <3>1, <3>2, <3>3, <3>4
  <2> QED
    BY <2>1, <2>j, <2>2, <2>3, <2>4, <2>5, <2>k

LEMMA JoinParts ==
  ASSUME NEW A, NEW c \in A, NEW pre \in Blanks(Free(A, c)), NEW post \in Blanks(Free(A, c)),
         NEW sep \in Seq(A), sep = Cat(Add(pre, c), post)
  PROVE  \A lead \in Blanks(Free(A, c)), p \in Seq(Seq(Free(A, c))) :
           p # <<>> => Trimmed(Split(Cat(lead, Join(p, sep)), c)) = Trimmed(p)
<1>F. PICK F : F = Free(A, c)
  OBVIOUS
<1> DEFINE ok == {p \in Seq(Seq(F)) : p # <<>> =>
                    \A lead \in Blanks(F) :
                      Trimmed(Split(Cat(lead, Join(p, sep)), c)) = Trimmed(p)}
<1>1. <<>> \in ok
  BY EmptySeq
<1>2. ASSUME NEW q \in Seq(Seq(F)), q \in ok, NEW x \in Seq(F) PROVE Cat(<<x>>, q) \in ok
  <2>o. PICK o \in Seq(Seq(F)) : o = <<x>>
    BY One
  <2>0. Cat(<<x>>, q) \in Seq(Seq(F))
    BY <2>o, CatType
  <2> SUFFICES ASSUME NEW lead \in Blanks(F)
               PROVE  Trimmed(Split(Cat(lead, Join(Cat(<<x>>, q), sep)), c)) = Trimmed(Cat(<<x>>, q))
    BY <2>0
  <2>a. /\ x \in Seq(Free(A, c)) /\ q \in Seq(Seq(Free(A, c))) /\ lead \in Blanks(Free(A, c))
    BY <1>F
  <2>z. PICK z \in Seq(Seq(Free(A, c))) : z = <<Trim(x)>>
    BY <2>a, TrimType, One
  <2>b. q # <<>> =>
         Trimmed(Split(Cat(lead, Join(Cat(<<x>>, q), sep)), c))
                = Cat(z, Trimmed(Split(Cat(post, Join(q, sep)), c)))
    BY <2>z, <2>a, JoinStep
  <2>2. Trimmed(Cat(<<x>>, q)) = Cat(<<Trim(x)>>, Trimmed(q))
    <3>1. Trimmed(Cat(o, q)) = Cat(Trimmed(o), Trimmed(q))
      BY TrimmedCat
    <3>2. Trimmed(o) = <<Trim(x)>>
      BY <2>o, TrimmedOne
    <3> QED
      BY <2>o, <3>1, <3>2
  <2>3. CASE q = <<>>
    <3>1. Cat(o, q) = o
      BY <2>3, CatNone
    <3>2. Trimmed(o) = z
      BY <2>o, <2>z, TrimmedOne
    <3>3. Trimmed(Split(Cat(lead, Join(<<x>>, sep)), c)) = z
      BY <2>a, <2>z, JoinSingle
    <3> QED
      BY <2>o, <3>1, <3>2, <3>3
  <2>4. CASE q # <<>>
    <3>1. Trimmed(Split(Cat(post, Join(q, sep)), c)) = Trimmed(q)
      BY <1>2, <1>F, <2>4
    <3> QED
      BY <2>z, <2>b, <2>2, <2>4, <3>1
  <2> QED
    BY <2>3, <2>4
<1> HIDE DEF ok
<1>3. Seq(Seq(F)) \subseteq ok
  BY <1>1, <1>2, SeqFront
<1> QED
  BY <1>3, <1>F DEF ok

(* The same without the trimming, when the separator is alone.             *)
LEMMA JoinExact ==
  ASSUME NEW A, NEW c \in A
  PROVE  \A p \in Seq(Seq(Free(A, c))) : p # <<>> => Split(Join(p, <<c>>), c) = p
<1>F. PICK F : F = Free(A, c)
  OBVIOUS
<1>s. PICK sep \in Seq(A) : sep = <<c>>
  BY One
<1> DEFINE ok == {p \in Seq(Seq(F)) : p # <<>> => Split(Join(p, sep), c) = p}
<1>0. \A t \in Seq(F) : t \in Seq(A)
  BY <1>F, SeqMonotonic, FreeType
<1>1. <<>> \in ok
  BY EmptySeq
<1>2. ASSUME NEW q \in Seq(Seq(F)), q \in ok, NEW x \in Seq(F) PROVE Cat(<<x>>, q) \in ok
  <2>o. PICK o \in Seq(Seq(F)) : o = <<x>>
    BY One
  <2>0. Cat(o, q) \in Seq(Seq(F))
    BY CatType
  <2>1. CASE q = <<>>
    <3>1. Cat(o, q) = o
      BY <2>1, CatNone
    <3>2. Join(<<x>>, sep) = x
      BY <1>0, JoinOne
    <3>3. Split(x, c) = <<x>>
      BY <1>F, SplitFree
    <3> QED
      BY <2>0, <2>o, <3>1, <3>2, <3>3
  <2>2. CASE q # <<>>
    <3>q. q \in Seq(Seq(A))
      <4>1. Seq(Free(A, c)) \subseteq Seq(A)
        BY SeqMonotonic, FreeType
      <4> QED
        BY <1>F, <4>1, SeqMonotonic
    <3>j. PICK j \in Seq(A) : j = Join(q, sep)
      BY <3>q, JoinType
    <3>1. Join(Cat(<<x>>, q), sep) = Cat(x, Cat(sep, j))
      BY <1>0, <2>2, <3>q, <3>j, JoinFirst
    <3>2. Cat(x, Cat(sep, j)) = Cat(Add(x, c), j)
      <4>1. Cat(x, Cat(sep, j)) = Cat(Cat(x, sep), j)
        BY <1>0, CatCat
      <4>2. Add(x, c) = Cat(x, <<c>>)
        BY <1>0, AddIs
      <4> QED
        BY <1>s, <4>1, <4>2
    <3>3. Split(Cat(Add(x, c), j), c) = Cat(<<x>>, Split(j, c))
      BY <1>F, SplitFirst
    <3>4. Split(j, c) = q
      BY <1>2, <2>2, <3>j
    <3> QED
      BY <2>0, <2>o, <3>1, <3>2, <3>3, <3>4
  <2> QED
    BY <2>o, <2>1, <2>2
<1> HIDE DEF ok
<1>3. Seq(Seq(F)) \subseteq ok
  BY <1>1, <1>2, SeqFront
<1> QED
  BY <1>3, <1>F, <1>s DEF ok

-----------------------------------------------------------------------------
(* Texts, lines and the states of the reader.                              *)

(* All that a text is made of.                                             *)
(* The keys the reader knows, and the one that is written for the eye.    *)
Keys == Key \cup {"cycles"}

Known == Section \cup {"plan", "phases"}

Mark ==
  Keys \cup Known \cup {"[", "]", ":", " ", "\t", "\n", ",", "|", " -> ", " (", ")", " :: ",
    "(none)", "(placeholder)", "0", "1", "fk", "unique", "pk", "cs=", "part=", "pk=", "uk=",
    "fk=", "partn=", "ser=", "cc=", "ppk=", "cpk="}
  \cup {"discovered", "defined", "graph", "plan", "stripped", "loaded", "rebuilt",
        "fk_defined", "stats_updated", "done", "end"}

Token == Word \cup Mark

Text == Seq(Token)

Row == Seq(Free(Token, "\n"))

LEMMA MarkToken ==
  /\ \A k \in Keys : k \in Mark /\ k \in Token /\ k \notin Blank /\ k # "[" /\ k # ":" /\ k # "\n"
  /\ \A k \in Known : k \in Mark /\ k \in Token /\ k # "\n"
  /\ \A k \in Mark : k \in Token
<1>1. \A k \in Keys : k \in Mark /\ k \notin Blank /\ k # "[" /\ k # ":" /\ k # "\n"
  BY DEF Keys, Key, Blank, Mark
<1>2. \A k \in Known : k \in Mark /\ k # "\n"
  BY DEF Known, Section, Mark
<1> QED
  BY <1>1, <1>2 DEF Token

LEMMA RowType ==
  ASSUME NEW t \in Row
  PROVE  t \in Text /\ Split(t, "\n") = <<t>> /\ Trim(t) \in Row /\ Tight(Trim(t))
<1>1. t \in Text
  BY FreeType DEF Row, Text
<1>2. Split(t, "\n") = <<t>>
  BY SplitFree DEF Row
<1>3. Trim(t) \in Row /\ Tight(Trim(t))
  BY TrimType DEF Row
<1> QED
  BY <1>1, <1>2, <1>3

(* What begins with ink still does when it is trimmed.                     *)
LEMMA TrimHead ==
  ASSUME NEW A, NEW t \in Seq(A), t # <<>>, t[1] \notin Blank
  PROVE  Trim(t) # <<>> /\ Trim(t)[1] = t[1]
<1>n. Len(t) \in Nat /\ Len(t) >= 1
  BY EmptySeq
<1>1. ~(\A k \in 1 .. Len(t) : t[k] \in Blank)
  BY <1>n
<1>2. PICK i \in 1 .. Len(t), j \in 1 .. Len(t) :
              /\ i <= j /\ t[i] \notin Blank /\ t[j] \notin Blank
              /\ \A k \in 1 .. Len(t) : t[k] \notin Blank => i <= k /\ k <= j
              /\ Trim(t) = SubSeq(t, i, j)
  BY <1>1, TrimCases
<1>3. i = 1
  <2>1. 1 \in 1 .. Len(t)
    BY <1>n
  <2>2. i <= 1
    BY <1>2, <2>1
  <2> QED
    BY <2>2
<1>4. /\ SubSeq(t, i, j) \in Seq(A) /\ Len(SubSeq(t, i, j)) = j
      /\ SubSeq(t, i, j)[1] = t[1]
  <2>1. 1 \in Int /\ j \in Int /\ \A k \in 1 .. j : t[k] \in A
    BY ElementOfSeq, <1>n
  <2>2. /\ SubSeq(t, 1, j) \in Seq(A)
        /\ Len(SubSeq(t, 1, j)) = IF 1 <= j THEN j - 1 + 1 ELSE 0
        /\ \A k \in 1 .. j - 1 + 1 : SubSeq(t, 1, j)[k] = t[1 + k - 1]
    BY <2>1, SubSeqProperties
  <2>3. 1 \in 1 .. j - 1 + 1 /\ 1 <= j /\ j - 1 + 1 = j /\ 1 + 1 - 1 = 1
    OBVIOUS
  <2> QED
    BY <1>3, <2>2, <2>3
<1>5. PICK u \in Seq(A) : u = Trim(t) /\ Len(u) = j /\ u[1] = t[1]
  BY <1>2, <1>4
<1>6. u # <<>>
  BY <1>5
<1> QED
  BY <1>5, <1>6

(* The states of the reader.                                               *)
Field9 == {"phase", "has", "planned", "graph", "strip", "load", "rebuild", "validate",
           "fkdefine", "stats", "triggers"}

IsSum(m) == m = [f \in Field9 |-> m[f]]

Put(m, s, v) == [m EXCEPT ![s] = v]

At(h, m) == [section |-> h, m |-> m]

LEMMA AtIs ==
  ASSUME NEW h, NEW m
  PROVE  At(h, m).section = h /\ At(h, m).m = m
BY DEF At

LEMMA PutIs ==
  ASSUME NEW m, IsSum(m), NEW s \in Field9, NEW v
  PROVE  /\ IsSum(Put(m, s, v)) /\ Put(m, s, v)[s] = v
         /\ \A f \in Field9 : f # s => Put(m, s, v)[f] = m[f]
         /\ \A w : Put(Put(m, s, v), s, w) = Put(m, s, w)
         /\ Put(m, s, m[s]) = m
<1>1. DOMAIN m = Field9
  BY DEF IsSum
<1>2. PICK p : p = Put(m, s, v)
  OBVIOUS
<1>3. DOMAIN p = Field9 /\ p[s] = v /\ \A f \in Field9 : f # s => p[f] = m[f]
  BY <1>1, <1>2 DEF Put
<1>4. IsSum(p)
  BY <1>1, <1>2, <1>3 DEF IsSum, Put
<1>5. \A w : Put(Put(m, s, v), s, w) = Put(m, s, w)
  BY <1>1 DEF Put, IsSum
<1>6. Put(m, s, m[s]) = m
  BY <1>1 DEF Put, IsSum
<1> QED
  BY <1>2, <1>3, <1>4, <1>5, <1>6

(* Tuples.                                                                 *)
LEMMA PairIs ==
  ASSUME NEW A, NEW x \in A, NEW y \in A
  PROVE  <<x, y>> \in Seq(A) /\ <<x, y>> = Add(<<x>>, y)
<1>1. PICK o \in Seq(A) : o = <<x>> /\ Len(o) = 1 /\ o[1] = x
  BY One
<1>0. <<x, y>> \in Seq(A) /\ Len(<<x, y>>) = 2 /\ <<x, y>>[1] = x /\ <<x, y>>[2] = y
  OBVIOUS
<1>2. PICK s \in Seq(A) : s = <<x, y>> /\ Len(s) = 2 /\ s[1] = x /\ s[2] = y
  BY <1>0
<1>3. /\ Add(o, y) \in Seq(A) /\ Len(Add(o, y)) = Len(o) + 1 /\ Add(o, y)[Len(o) + 1] = y
      /\ \A i \in 1 .. Len(o) : Add(o, y)[i] = o[i]
  BY AddType
<1>4. PICK t \in Seq(A) : t = Add(o, y) /\ Len(t) = 2 /\ t[1] = x /\ t[2] = y
  BY <1>1, <1>3
<1>5. s = t
  BY <1>2, <1>4, SeqEqual
<1> QED
  BY <1>1, <1>2, <1>4, <1>5

LEMMA TripleSeq ==
  ASSUME NEW A, NEW x \in A, NEW y \in A, NEW z \in A
  PROVE  <<x, y, z>> \in Seq(A) /\ <<x, y, z>> = Add(<<x, y>>, z)
<1>0. <<x, y>> \in Seq(A) /\ Len(<<x, y>>) = 2 /\ <<x, y>>[1] = x /\ <<x, y>>[2] = y
  OBVIOUS
<1>1. PICK o \in Seq(A) : o = <<x, y>> /\ Len(o) = 2 /\ o[1] = x /\ o[2] = y
  BY <1>0
<1>00. /\ <<x, y, z>> \in Seq(A) /\ Len(<<x, y, z>>) = 3
       /\ <<x, y, z>>[1] = x /\ <<x, y, z>>[2] = y /\ <<x, y, z>>[3] = z
  OBVIOUS
<1>2. PICK s \in Seq(A) : s = <<x, y, z>> /\ Len(s) = 3 /\ s[1] = x /\ s[2] = y /\ s[3] = z
  BY <1>00
<1>3. /\ Add(o, z) \in Seq(A) /\ Len(Add(o, z)) = Len(o) + 1 /\ Add(o, z)[Len(o) + 1] = z
      /\ \A i \in 1 .. Len(o) : Add(o, z)[i] = o[i]
  BY AddType
<1>4. PICK t \in Seq(A) : t = Add(o, z) /\ Len(t) = 3 /\ t[1] = x /\ t[2] = y /\ t[3] = z
  BY <1>1, <1>3
<1>5. s = t
  <2>1. \A i \in 1 .. 3 : s[i] = t[i]
    BY <1>2, <1>4
  <2> QED
    BY <2>1, <1>2, <1>4, SeqEqual
<1> QED
  BY <1>1, <1>2, <1>4, <1>5

(* A line of a key and a value.                                            *)
Triple(x, y, z, s) == <<x, y, z>> \o s

LEMMA TripleIs ==
  ASSUME NEW A, NEW key \in A, NEW colon \in A, NEW space \in A, NEW val \in Seq(A)
  PROVE  /\ Triple(key, colon, space, val) \in Seq(A) /\ Triple(key, colon, space, val)[1] = key /\ Triple(key, colon, space, val) # <<>>
         /\ Triple(key, colon, space, val) = Cat(Add(<<key>>, colon), Cat(<<space>>, val))
<1>1. PICK k \in Seq(A) : k = <<key>> /\ Len(k) = 1 /\ k[1] = key
  BY One
<1>2. PICK b \in Seq(A) : b = <<space>> /\ Len(b) = 1
  BY One
<1>3. PICK h \in Seq(A) : h = Add(k, colon) /\ Len(h) = 2 /\ h[1] = key
  <2>0. Add(k, colon) \in Seq(A) /\ Len(Add(k, colon)) = Len(k) + 1 /\ \A i \in 1 .. Len(k) : Add(k, colon)[i] = k[i]
    BY AddType
  <2>1. PICK h \in Seq(A) : h = Add(k, colon) /\ Len(h) = Len(k) + 1 /\ \A i \in 1 .. Len(k) : h[i] = k[i]
    BY <2>0
  <2>2. Len(h) = 2 /\ h[1] = key
    BY <2>1, <1>1
  <2> QED
    BY <2>1, <2>2
<1>4. PICK p \in Seq(A) : p = <<key, colon, space>> /\ p = Cat(h, b)
  <2>0. <<key, colon>> = Add(<<key>>, colon)
    BY PairIs
  <2>1. h = <<key, colon>>
    BY <2>0, <1>1, <1>3
  <2>4. <<key, colon, space>> = Add(<<key, colon>>, space)
    BY TripleSeq
  <2>5. Add(h, space) = Cat(h, <<space>>)
    BY AddIs
  <2>2. Cat(h, b) = <<key, colon, space>>
    BY <2>4, <2>5, <1>2, <2>1
  <2>3. Cat(h, b) \in Seq(A)
    BY CatType
  <2> QED
    BY <2>2, <2>3
<1>5. Triple(key, colon, space, val) = Cat(p, val)
  BY <1>4 DEF Triple, Cat
<1>6. PICK r \in Seq(A) : r = Cat(b, val)
  BY CatType
<1>7. Cat(Cat(h, b), val) = Cat(h, Cat(b, val))
  BY CatCat
<1>8. Triple(key, colon, space, val) = Cat(h, r)
  BY <1>4, <1>5, <1>6, <1>7
<1>9. /\ Cat(h, r) \in Seq(A) /\ Len(Cat(h, r)) = Len(h) + Len(r)
      /\ \A i \in 1 .. Len(h) + Len(r) : Cat(h, r)[i] = IF i <= Len(h) THEN h[i] ELSE r[i - Len(h)]
  BY CatType
<1>10. PICK t \in Seq(A) : /\ t = Cat(h, r) /\ Len(t) = Len(h) + Len(r)
      /\ \A i \in 1 .. Len(h) + Len(r) : t[i] = IF i <= Len(h) THEN h[i] ELSE r[i - Len(h)]
  BY <1>9
<1>11. Len(r) \in Nat
  OBVIOUS
<1>12. 1 \in 1 .. Len(h) + Len(r) /\ 1 <= Len(h) /\ Len(h) + Len(r) # 0
  BY <1>3, <1>11
<1>13. t[1] = key /\ t # <<>>
  BY <1>3, <1>10, <1>12, EmptySeq
<1> QED
  BY <1>1, <1>2, <1>3, <1>6, <1>8, <1>10, <1>13

LEMMA LineIs ==
  ASSUME NEW key \in Token, NEW val \in Text
  PROVE  /\ Line(key, val) \in Text /\ Line(key, val)[1] = key /\ Line(key, val) # <<>>
         /\ Line(key, val) = Cat(Add(<<key>>, ":"), Cat(<<" ">>, val))
<1>1. PICK colon \in Token : colon = ":"
  BY MarkToken DEF Mark
<1>2. PICK space \in Token : space = " "
  BY MarkToken DEF Mark
<1>3. val \in Seq(Token)
  BY DEF Text
<1>4. /\ Triple(key, colon, space, val) \in Seq(Token) /\ Triple(key, colon, space, val)[1] = key
      /\ Triple(key, colon, space, val) # <<>>
      /\ Triple(key, colon, space, val) = Cat(Add(<<key>>, colon), Cat(<<space>>, val))
  BY <1>3, TripleIs
<1>5. Triple(key, colon, space, val) = Line(key, val)
  BY <1>1, <1>2 DEF Triple, Line
<1> QED
  BY <1>1, <1>2, <1>4, <1>5 DEF Text

LEMMA AtLine ==
  ASSUME NEW h, NEW m, NEW key \in Keys, NEW val \in Text
  PROVE  ReadLine(At(h, m), Line(key, val)) = At(h, ReadEntry(m, h, key, Trim(val)))
<1>0. /\ key \in Token /\ key \notin Blank /\ key # "[" /\ key # ":"
      /\ ":" \in Token /\ " " \in Token /\ ":" \notin Blank /\ " " \in Blank /\ " " # ":"
  BY MarkToken DEF Mark, Blank
<1>1. PICK l \in Text : /\ l = Line(key, val) /\ l[1] = key /\ l # <<>>
                        /\ l = Cat(Add(<<key>>, ":"), Cat(<<" ">>, val))
  BY <1>0, LineIs
<1>2. PICK k \in Seq(Free(Token, ":")) : k = <<key>> /\ k \in Text
  <2>1. key \in Free(Token, ":")
    BY <1>0, FreeType
  <2> QED
    BY <1>0, <2>1, One DEF Text
<1>3. PICK b \in Blanks(Token) : b = <<" ">> /\ b \in Text
  <2>1. <<" ">> \in Seq(Token \cap Blank)
    BY <1>0, One
  <2> QED
    BY <2>1, BlanksType DEF Blanks, Text
<1>4. PICK r \in Text : r = Cat(b, val)
  <2>1. b \in Seq(Token) /\ val \in Seq(Token)
    BY <1>3 DEF Text
  <2>2. Cat(b, val) \in Seq(Token)
    BY <2>1, CatType
  <2> QED
    BY <2>2 DEF Text
<1>5. l = Cat(Add(k, ":"), r)
  BY <1>1, <1>2, <1>3, <1>4
<1>6. Trim(l) # <<>> /\ Trim(l)[1] # "["
  BY <1>0, <1>1, TrimHead DEF Text
<1>7. Where(l, ":") # 0
  <2>1. Where(Cat(Add(k, ":"), r), ":") = Len(k) + 1
    BY <1>0, WhereFirst DEF Text
  <2>2. Len(k) \in Nat
    OBVIOUS
  <2> QED
    BY <1>5, <2>1, <2>2
<1>8. Left(l, ":") = Trim(k) /\ Right(l, ":") = Trim(r)
  <2>1. r \in Seq(Token)
    BY DEF Text
  <2>2. Left(Cat(Add(k, ":"), r), ":") = Trim(k) /\ Right(Cat(Add(k, ":"), r), ":") = Trim(r)
    BY <1>0, <2>1, LeftFirst
  <2> QED
    BY <1>5, <2>2
<1>9. Trim(k) = k
  <2>1. Tight(k)
    BY <1>0, <1>2 DEF Tight
  <2> QED
    BY <2>1, TrimTight
<1>10. Trim(r) = Trim(val)
  BY <1>4, TrimLeft DEF Text
<1>11. Len(Left(l, ":")) = 1 /\ Left(l, ":")[1] = key
  BY <1>2, <1>8, <1>9
<1>12. ReadLine(At(h, m), l) = [At(h, m) EXCEPT !.m = ReadEntry(@, At(h, m).section, key, Right(l, ":"))]
  BY <1>6, <1>7, <1>11 DEF ReadLine
<1> QED
  BY <1>1, <1>8, <1>10, <1>12 DEF At

-----------------------------------------------------------------------------
(* Values and the lines they are printed on.                               *)

(* A value may go on after its first line, with lines that are not the     *)
(* reader's own.                                                           *)
ForeignRow == {l \in Row : Foreign(l)}

Prose == {t \in Text : \/ t \in Row
                       \/ \E a \in Row, b \in Text :
                            /\ t = Cat(Add(a, "\n"), b)
                            /\ Split(b, "\n") \in Seq(ForeignRow)}

LEMMA RowCat ==
  ASSUME NEW s \in Row, NEW t \in Row
  PROVE  Cat(s, t) \in Row
BY FreeCat DEF Row

LEMMA BreakToken == "\n" \in Token
BY DEF Token, Mark

LEMMA PunctuationFree ==
  /\ "[" \in Free(Token, "\n") /\ "]" \in Free(Token, "\n")
  /\ ":" \in Free(Token, "\n") /\ " " \in Free(Token, "\n")
<1>1. "[" \in Mark /\ "]" \in Mark /\ ":" \in Mark /\ " " \in Mark
  BY DEF Mark
<1>2. PICK M : M = Mark
  OBVIOUS
<1>3. "[" \in Token /\ "]" \in Token /\ ":" \in Token /\ " " \in Token
  BY <1>1, <1>2 DEF Token
<1>4. "[" # "\n" /\ "]" # "\n" /\ ":" # "\n" /\ " " # "\n"
  OBVIOUS
<1> QED
  BY <1>3, <1>4, FreeType

(* What is put before a value on its line.                                 *)
LEMMA ProseCat ==
  ASSUME NEW r \in Row, NEW t \in Prose
  PROVE  Cat(r, t) \in Prose
<1>1. r \in Text /\ t \in Text /\ r \in Seq(Token) /\ t \in Seq(Token)
  BY RowType DEF Prose, Text
<1>2. Cat(r, t) \in Text
  BY <1>1, CatType DEF Text
<1>3. CASE t \in Row
  BY <1>2, <1>3, RowCat DEF Prose
<1>4. CASE t \notin Row
  <2>1. PICK a \in Row, b \in Text : t = Cat(Add(a, "\n"), b) /\ Split(b, "\n") \in Seq(ForeignRow)
    BY <1>4 DEF Prose
  <2>2. a \in Seq(Token) /\ b \in Seq(Token)
    BY <2>1, RowType DEF Text
  <2>3. PICK n \in Token : n = "\n"
    BY BreakToken
  <2>4. PICK x \in Seq(Token) : x = Add(a, n)
    BY <2>2, AddType
  <2>5. Cat(r, Cat(x, b)) = Cat(Cat(r, x), b)
    BY <1>1, <2>2, CatCat
  <2>6. Cat(r, x) = Add(Cat(r, a), n)
    BY <1>1, <2>2, <2>4, CatAdd
  <2>7. PICK y \in Row : y = Cat(r, a)
    BY RowCat
  <2>8. Cat(r, t) = Cat(Add(y, "\n"), b)
    BY <2>1, <2>3, <2>4, <2>5, <2>6, <2>7
  <2> QED
    BY <1>2, <2>1, <2>7, <2>8 DEF Prose
<1> QED
  BY <1>3, <1>4

LEMMA RowProse ==
  ASSUME NEW t \in Row
  PROVE  t \in Prose
BY RowType DEF Prose

(* The lines a value is printed on.                                        *)
LEMMA ProseLines ==
  ASSUME NEW t \in Prose
  PROVE  \/ t \in Row /\ Split(t, "\n") = <<t>>
         \/ \E a \in Row, rest \in Seq(ForeignRow) :
              /\ Split(t, "\n") = Cat(<<a>>, rest)
              /\ \E b \in Text : t = Cat(Add(a, "\n"), b) /\ rest = Split(b, "\n")
<1>1. CASE t \in Row
  BY <1>1, RowType
<1>2. CASE t \notin Row
  <2>1. PICK a \in Row, b \in Text : t = Cat(Add(a, "\n"), b) /\ Split(b, "\n") \in Seq(ForeignRow)
    BY <1>2 DEF Prose
  <2>2. Split(Cat(Add(a, "\n"), b), "\n") = Cat(<<a>>, Split(b, "\n"))
    BY BreakToken, SplitFirst DEF Row, Text
  <2> QED
    BY <2>1, <2>2
<1> QED
  BY <1>1, <1>2

(* Lines that are no header of this program.                               *)
Plain == {l \in Row : Trim(l) \notin {Header(s) : s \in Known}}

LEMMA ForeignPlain == ForeignRow \subseteq Plain
BY DEF ForeignRow, Plain, Foreign, Known

(* The entries of a section.                                               *)
Entry == {Line(key, val) : key \in Keys, val \in Prose}

LEMMA HeaderHead ==
  ASSUME NEW s
  PROVE  Header(s) # <<>> /\ Header(s)[1] = "["
BY DEF Header

LEMMA EntryPlain ==
  ASSUME NEW key \in Keys, NEW val \in Row
  PROVE  Line(key, val) \in Plain
<1>1. key \in Token /\ key \in Free(Token, "\n") /\ key \notin Blank /\ key # "["
  BY MarkToken, FreeType
<1>2. PICK colon \in Free(Token, "\n") : colon = ":"
  BY PunctuationFree
<1>3. PICK space \in Free(Token, "\n") : space = " "
  BY PunctuationFree
<1>4. val \in Text /\ val \in Seq(Free(Token, "\n"))
  BY RowType DEF Row
<1>5. Triple(key, colon, space, val) \in Seq(Free(Token, "\n"))
  BY <1>1, <1>4, TripleIs
<1>6. Line(key, val) \in Row
  BY <1>2, <1>3, <1>5 DEF Triple, Line, Row
<1>7. PICK l \in Row : l = Line(key, val)
  BY <1>6
<1>8. l \in Seq(Token) /\ l # <<>> /\ l[1] = key
  BY <1>1, <1>4, <1>7, LineIs, RowType DEF Text
<1>9. Trim(l)[1] = key
  BY <1>1, <1>8, TrimHead
<1>10. \A s : Trim(l) # Header(s)
  BY <1>1, <1>9, HeaderHead
<1> QED
  BY <1>7, <1>10 DEF Plain

LEMMA LineCat ==
  ASSUME NEW key \in Keys
  PROVE  \E r \in Row : \A val \in Text : Line(key, val) = Cat(r, val)
<1>1. key \in Free(Token, "\n")
  BY MarkToken, FreeType
<1>2. PICK colon \in Free(Token, "\n") : colon = ":"
  BY PunctuationFree
<1>3. PICK space \in Free(Token, "\n") : space = " "
  BY PunctuationFree
<1>4. <<key, colon, space>> \in Row
  BY <1>1, TripleSeq DEF Row
<1>5. PICK r \in Row : r = <<key, ":", " ">>
  BY <1>2, <1>3, <1>4
<1>6. \A val \in Text : Line(key, val) = Cat(r, val)
  BY <1>5 DEF Line, Cat
<1> QED
  BY <1>6

LEMMA LineProse ==
  ASSUME NEW key \in Keys, NEW val \in Prose
  PROVE  Line(key, val) \in Prose
<1>1. val \in Text
  BY DEF Prose
<1>2. PICK r \in Row : \A v \in Text : Line(key, v) = Cat(r, v)
  BY LineCat
<1>3. Cat(r, val) \in Prose
  BY ProseCat
<1> QED
  BY <1>1, <1>2, <1>3

(* An entry is printed on a line of its own and the foreign ones after it. *)
LEMMA EntrySplit ==
  ASSUME NEW key \in Keys, NEW val \in Prose
  PROVE  \/ val \in Row /\ Split(Line(key, val), "\n") = <<Line(key, val)>>
         \/ \E a \in Row, rest \in Seq(ForeignRow) :
              /\ Split(Line(key, val), "\n") = Cat(<<Line(key, a)>>, rest)
              /\ Split(val, "\n") = Cat(<<a>>, rest)
<1>1. CASE val \in Row
  <2>1. Line(key, val) \in Row
    BY <1>1, EntryPlain DEF Plain
  <2> QED
    BY <1>1, <2>1, RowType
<1>2. CASE val \notin Row
  <2>1. PICK a \in Row, rest \in Seq(ForeignRow) :
              /\ Split(val, "\n") = Cat(<<a>>, rest)
              /\ \E b \in Text : val = Cat(Add(a, "\n"), b) /\ rest = Split(b, "\n")
    BY <1>2, ProseLines
  <2>2. PICK b \in Text : val = Cat(Add(a, "\n"), b) /\ rest = Split(b, "\n")
    BY <2>1
  <2>3. PICK r \in Row : \A v \in Text : Line(key, v) = Cat(r, v)
    BY LineCat
  <2>4. r \in Seq(Token) /\ a \in Seq(Token) /\ b \in Seq(Token)
    BY RowType DEF Text
  <2>5. PICK n \in Token : n = "\n"
    BY BreakToken
  <2>6. PICK x \in Seq(Token) : x = Add(a, n)
    BY <2>4, AddType
  <2>7. Cat(r, Cat(x, b)) = Cat(Cat(r, x), b)
    BY <2>4, CatCat
  <2>8. Cat(r, x) = Add(Cat(r, a), n)
    BY <2>4, <2>6, CatAdd
  <2>9. Line(key, val) = Cat(r, val) /\ Line(key, a) = Cat(r, a)
    <3>1. val \in Text /\ a \in Text
      BY RowType DEF Prose
    <3> QED
      BY <2>3, <3>1
  <2>10. PICK y \in Row : y = Line(key, a)
    BY <2>9, RowCat
  <2>11. Line(key, val) = Cat(Add(y, "\n"), b)
    BY <2>2, <2>5, <2>6, <2>7, <2>8, <2>9, <2>10
  <2>12. Split(Cat(Add(y, "\n"), b), "\n") = Cat(<<y>>, Split(b, "\n"))
    BY BreakToken, <2>4, SplitFirst DEF Row
  <2>13. Split(Line(key, val), "\n") = Cat(<<Line(key, a)>>, rest)
    BY <2>2, <2>10, <2>11, <2>12
  <2> QED
    BY <2>1, <2>13
<1> QED
  BY <1>1, <1>2

LEMMA EntryLines ==
  ASSUME NEW l \in Entry
  PROVE  l \in Text /\ Split(l, "\n") \in Seq(Plain)
<1>1. PICK key \in Keys, val \in Prose : l = Line(key, val)
  BY DEF Entry
<1>2. l \in Text
  BY <1>1, LineProse DEF Prose
<1>3. CASE val \in Row /\ Split(Line(key, val), "\n") = <<Line(key, val)>>
  <2>1. PICK y \in Plain : y = Line(key, val)
    BY <1>3, EntryPlain
  <2>2. <<y>> \in Seq(Plain)
    BY One
  <2> QED
    BY <1>1, <1>2, <1>3, <2>1, <2>2
<1>4. ASSUME NEW a \in Row, NEW rest \in Seq(ForeignRow),
             Split(Line(key, val), "\n") = Cat(<<Line(key, a)>>, rest)
      PROVE  Split(l, "\n") \in Seq(Plain)
  <2>1. PICK y \in Plain : y = Line(key, a)
    BY EntryPlain
  <2>2. <<y>> \in Seq(Plain)
    BY One
  <2>3. rest \in Seq(Plain)
    BY ForeignPlain, SeqMonotonic
  <2>4. Cat(<<y>>, rest) \in Seq(Plain)
    BY <2>2, <2>3, CatType
  <2> QED
    BY <1>1, <1>4, <2>1, <2>4
<1> QED
  BY <1>1, <1>2, <1>3, <1>4, EntrySplit

-----------------------------------------------------------------------------
(* Images and Printed.                                                     *)

(* What a function makes of the elements of a sequence.                    *)
Image(p, F) == [i \in DOMAIN p |-> F[p[i]]]

LEMMA ImageIs ==
  ASSUME NEW S, NEW T, NEW F \in [S -> T], NEW p \in Seq(S)
  PROVE  /\ Image(p, F) \in Seq(T) /\ Len(Image(p, F)) = Len(p)
         /\ \A i \in 1 .. Len(p) : Image(p, F)[i] = F[p[i]]
<1>1. \A i \in 1 .. Len(p) : F[p[i]] \in T
  BY ElementOfSeq
<1>2. DOMAIN p = 1 .. Len(p) /\ Len(p) \in Nat
  BY LenProperties
<1>3. PICK e : e = [i \in 1 .. Len(p) |-> F[p[i]]]
  OBVIOUS
<1>4. e \in Seq(T) /\ Len(e) = Len(p) /\ \A i \in 1 .. Len(p) : e[i] = F[p[i]]
  BY <1>1, <1>2, <1>3
<1> QED
  BY <1>2, <1>3, <1>4 DEF Image

LEMMA ImageNone == ASSUME NEW F PROVE Image(<<>>, F) = <<>>
<1>1. [i \in DOMAIN <<>> |-> F[<<>>[i]]] = <<>>
  OBVIOUS
<1> QED
  BY <1>1 DEF Image

LEMMA ImageAdd ==
  ASSUME NEW S, NEW T, NEW F \in [S -> T], NEW p \in Seq(S), NEW x \in S
  PROVE  Image(Add(p, x), F) = Add(Image(p, F), F[x])
<1>n. PICK n \in Nat : n = Len(p)
  OBVIOUS
<1>1. PICK a \in Seq(S) : a = Add(p, x) /\ Len(a) = n + 1 /\ a[n + 1] = x /\ \A i \in 1 .. n : a[i] = p[i]
  <2>1. /\ Add(p, x) \in Seq(S) /\ Len(Add(p, x)) = Len(p) + 1 /\ Add(p, x)[Len(p) + 1] = x
        /\ \A i \in 1 .. Len(p) : Add(p, x)[i] = p[i]
    BY AddType
  <2> QED
    BY <2>1, <1>n
<1>2. PICK b \in Seq(T) : b = Image(p, F) /\ Len(b) = n /\ \A i \in 1 .. n : b[i] = F[p[i]]
  <2>1. /\ Image(p, F) \in Seq(T) /\ Len(Image(p, F)) = Len(p)
        /\ \A i \in 1 .. Len(p) : Image(p, F)[i] = F[p[i]]
    BY ImageIs
  <2> QED
    BY <2>1, <1>n
<1>3. PICK c \in Seq(T) : c = Image(a, F) /\ Len(c) = n + 1 /\ \A i \in 1 .. n + 1 : c[i] = F[a[i]]
  <2>1. /\ Image(a, F) \in Seq(T) /\ Len(Image(a, F)) = Len(a)
        /\ \A i \in 1 .. Len(a) : Image(a, F)[i] = F[a[i]]
    BY ImageIs
  <2> QED
    BY <2>1, <1>1
<1>4. PICK d \in Seq(T) : d = Add(b, F[x]) /\ Len(d) = n + 1 /\ d[n + 1] = F[x] /\ \A i \in 1 .. n : d[i] = b[i]
  <2>0. F[x] \in T
    OBVIOUS
  <2>1. /\ Add(b, F[x]) \in Seq(T) /\ Len(Add(b, F[x])) = Len(b) + 1 /\ Add(b, F[x])[Len(b) + 1] = F[x]
        /\ \A i \in 1 .. Len(b) : Add(b, F[x])[i] = b[i]
    BY <2>0, AddType
  <2> QED
    BY <2>1, <1>2
<1>5. \A i \in 1 .. n + 1 : c[i] = d[i]
  <2> TAKE i \in 1 .. n + 1
  <2>1. CASE i = n + 1
    BY <2>1, <1>1, <1>3, <1>4
  <2>2. CASE i \in 1 .. n
    BY <2>2, <1>1, <1>2, <1>3, <1>4
  <2> QED
    BY <2>1, <2>2
<1>6. c = d
  BY <1>3, <1>4, <1>5, SeqEqual
<1> QED
  BY <1>1, <1>2, <1>3, <1>4, <1>6

LEMMA ImageCat ==
  ASSUME NEW S, NEW T, NEW F \in [S -> T], NEW p \in Seq(S), NEW q \in Seq(S)
  PROVE  Image(Cat(p, q), F) = Cat(Image(p, F), Image(q, F))
<1> DEFINE ok == {r \in Seq(S) : Image(Cat(p, r), F) = Cat(Image(p, F), Image(r, F))}
<1>0. PICK b \in Seq(T) : b = Image(p, F)
  BY ImageIs
<1>1. <<>> \in ok
  <2>1. Cat(p, <<>>) = p /\ Cat(b, <<>>) = b
    BY CatNone
  <2> QED
    BY <2>1, <1>0, ImageNone, EmptySeq
<1>2. ASSUME NEW r \in Seq(S), r \in ok, NEW x \in S PROVE Add(r, x) \in ok
  <2>1. PICK c \in Seq(T) : c = Image(r, F)
    BY ImageIs
  <2>2. PICK s \in Seq(S) : s = Cat(p, r)
    BY CatType
  <2>3. Cat(p, Add(r, x)) = Add(s, x)
    BY <2>2, CatAdd
  <2>4. Image(Add(s, x), F) = Add(Image(s, F), F[x])
    BY ImageAdd
  <2>5. Image(Add(r, x), F) = Add(c, F[x])
    BY <2>1, ImageAdd
  <2>6. F[x] \in T
    OBVIOUS
  <2>7. Cat(b, Add(c, F[x])) = Add(Cat(b, c), F[x])
    BY <2>6, CatAdd
  <2>8. Image(s, F) = Cat(b, c)
    BY <1>0, <1>2, <2>1, <2>2
  <2>9. Image(Cat(p, Add(r, x)), F) = Cat(Image(p, F), Image(Add(r, x), F))
    BY <1>0, <2>3, <2>4, <2>5, <2>7, <2>8
  <2>10. Add(r, x) \in Seq(S)
    BY AddType
  <2> QED
    BY <2>9, <2>10
<1> HIDE DEF ok
<1>3. Seq(S) \subseteq ok
  BY <1>1, <1>2, SeqAdd
<1> QED
  BY <1>3 DEF ok

(* The printed lines.                                                      *)
Rows == [l \in Text |-> Split(l, "\n")]

LEMMA RowsType ==
  /\ Rows \in [Text -> Seq(Row)]
  /\ \A l \in Text : Rows[l] = Split(l, "\n")
<1>1. \A l \in Text : Split(l, "\n") \in Seq(Row)
  BY SplitType DEF Text, Row
<1> QED
  BY <1>1 DEF Rows

LEMMA PrintedIs ==
  ASSUME NEW lines \in Seq(Text)
  PROVE  Printed(lines) = FlattenSeq(Image(lines, Rows))
<1>1. \A i \in DOMAIN lines : Rows[lines[i]] = Split(lines[i], "\n")
  BY RowsType, LenProperties, ElementOfSeq
<1>2. Image(lines, Rows) = [i \in DOMAIN lines |-> Split(lines[i], "\n")]
  BY <1>1 DEF Image
<1> QED
  BY <1>2 DEF Printed

LEMMA PrintedNone == Printed(<<>>) = <<>>
<1>1. <<>> \in Seq(Text)
  BY EmptySeq
<1> QED
  BY <1>1, PrintedIs, ImageNone, FlattenNone

LEMMA PrintedAdd ==
  ASSUME NEW p \in Seq(Text), NEW l \in Text
  PROVE  Printed(Add(p, l)) = Cat(Printed(p), Split(l, "\n"))
<1>1. PICK q \in Seq(Text) : q = Add(p, l)
  BY AddType
<1>2. PICK b \in Seq(Seq(Row)) : b = Image(p, Rows)
  BY RowsType, ImageIs
<1>3. PICK r \in Seq(Row) : r = Rows[l]
  BY RowsType
<1>4. Image(Add(p, l), Rows) = Add(Image(p, Rows), Rows[l])
  BY RowsType, ImageAdd
<1>5. FlattenSeq(Add(b, r)) = Cat(FlattenSeq(b), r)
  BY FlattenAdd
<1>6. Printed(q) = FlattenSeq(Image(q, Rows)) /\ Printed(p) = FlattenSeq(Image(p, Rows))
  BY PrintedIs
<1> QED
  BY <1>1, <1>2, <1>3, <1>4, <1>5, <1>6, RowsType

LEMMA PrintedType ==
  /\ \A p \in Seq(Text) : Printed(p) \in Seq(Row)
  /\ \A p \in Seq(Entry) : p \in Seq(Text) /\ Printed(p) \in Seq(Plain)
<1>1. \A p \in Seq(Text) : Printed(p) \in Seq(Row)
  <2> TAKE p \in Seq(Text)
  <2>1. Image(p, Rows) \in Seq(Seq(Row))
    BY RowsType, ImageIs
  <2> QED
    BY <2>1, PrintedIs, FlattenType
<1>2. Entry \subseteq Text
  BY EntryLines
<1>3. Seq(Entry) \subseteq Seq(Text)
  BY <1>2, SeqMonotonic
<1> DEFINE ok == {p \in Seq(Entry) : Printed(p) \in Seq(Plain)}
<1>4. <<>> \in ok
  BY PrintedNone, EmptySeq
<1>5. ASSUME NEW p \in Seq(Entry), p \in ok, NEW l \in Entry PROVE Add(p, l) \in ok
  <2>1. Printed(Add(p, l)) = Cat(Printed(p), Split(l, "\n"))
    BY <1>2, <1>3, PrintedAdd
  <2>2. Cat(Printed(p), Split(l, "\n")) \in Seq(Plain)
    BY <1>5, EntryLines, CatType
  <2>3. Add(p, l) \in Seq(Entry)
    BY AddType
  <2> QED
    BY <2>1, <2>2, <2>3
<1> HIDE DEF ok
<1>6. Seq(Entry) \subseteq ok
  BY <1>4, <1>5, SeqAdd
<1> QED
  BY <1>1, <1>3, <1>6 DEF ok

LEMMA PrintedCat ==
  ASSUME NEW p \in Seq(Text), NEW q \in Seq(Text)
  PROVE  Printed(Cat(p, q)) = Cat(Printed(p), Printed(q))
<1>1. PICK b \in Seq(Seq(Row)) : b = Image(p, Rows)
  BY RowsType, ImageIs
<1>2. PICK c \in Seq(Seq(Row)) : c = Image(q, Rows)
  BY RowsType, ImageIs
<1>3. PICK r \in Seq(Text) : r = Cat(p, q)
  BY CatType
<1>4. Image(Cat(p, q), Rows) = Cat(Image(p, Rows), Image(q, Rows))
  BY RowsType, ImageCat
<1>5. FlattenSeq(Cat(b, c)) = Cat(FlattenSeq(b), FlattenSeq(c))
  BY FlattenCat
<1>6. /\ Printed(p) = FlattenSeq(Image(p, Rows)) /\ Printed(q) = FlattenSeq(Image(q, Rows))
      /\ Printed(r) = FlattenSeq(Image(r, Rows))
  BY PrintedIs
<1> QED
  BY <1>1, <1>2, <1>3, <1>4, <1>5, <1>6

LEMMA PrintedOne ==
  ASSUME NEW l \in Text
  PROVE  Printed(<<l>>) = Split(l, "\n")
<1>1. <<>> \in Seq(Text) /\ Add(<<>>, l) = <<l>>
  BY One, EmptySeq
<1>2. Printed(<<l>>) = Cat(<<>>, Split(l, "\n"))
  BY <1>1, PrintedAdd, PrintedNone
<1>3. Split(l, "\n") \in Seq(Row)
  BY RowsType
<1> QED
  BY <1>2, <1>3, CatNone

(* What the reader keeps to while the lines do.                            *)
LEMMA TakeStays ==
  ASSUME NEW S, NEW L, \A st \in S, l \in L : ReadLine(st, l) \in S, NEW st \in S
  PROVE  \A lines \in Seq(L) : ReadLines(st, lines) \in S
<1> DEFINE ok == {p \in Seq(L) : ReadLines(st, p) \in S}
<1>1. <<>> \in ok
  BY ReadNone, EmptySeq
<1>2. ASSUME NEW p \in Seq(L), p \in ok, NEW l \in L PROVE Add(p, l) \in ok
  <2>1. ReadLines(st, Add(p, l)) = ReadLine(ReadLines(st, p), l)
    BY ReadAdd
  <2>2. Add(p, l) \in Seq(L)
    BY AddType
  <2> QED
    BY <1>2, <2>1, <2>2
<1> HIDE DEF ok
<1>3. Seq(L) \subseteq ok
  BY <1>1, <1>2, SeqAdd
<1> QED
  BY <1>3 DEF ok

-----------------------------------------------------------------------------
(* The kinds of records that reading keeps.                                *)

(* What the parser makes of a row are rows.                                *)
LEMMA LeftType ==
  ASSUME NEW A, NEW sep, NEW t \in Seq(A)
  PROVE  Left(t, sep) \in Seq(A) /\ Right(t, sep) \in Seq(A)
         /\ Tight(Left(t, sep)) /\ Tight(Right(t, sep))
<1>e. <<>> \in Seq(A) /\ Tight(<<>>)
  BY EmptySeq DEF Tight
<1>1. CASE t \in Seq(Free(A, sep))
  <2>1. Left(t, sep) = Trim(t) /\ Right(t, sep) = <<>>
    BY <1>1, LeftFree
  <2> QED
    BY <1>e, <2>1, TrimType
<1>2. CASE t \notin Seq(Free(A, sep))
  <2>1. PICK a \in Seq(Free(A, sep)), b \in Seq(A) : sep \in A /\ t = Cat(Add(a, sep), b)
    BY <1>2, FirstSep
  <2>2. Left(t, sep) = Trim(a) /\ Right(t, sep) = Trim(b)
    BY <2>1, LeftFirst
  <2>3. a \in Seq(A)
    BY FreeType
  <2> QED
    BY <2>2, <2>3, TrimType
<1> QED
  BY <1>1, <1>2

LEMMA RowLeft ==
  ASSUME NEW t \in Row, NEW sep
  PROVE  Left(t, sep) \in Row /\ Right(t, sep) \in Row
BY LeftType DEF Row

LEMMA RowSplit ==
  ASSUME NEW t \in Row, NEW sep
  PROVE  /\ Split(t, sep) \in Seq(Row) /\ Split(t, sep) # <<>>
         /\ Trimmed(Split(t, sep)) \in Seq(Row) /\ Filled(Trimmed(Split(t, sep))) \in Seq(Row)
<1>1. Split(t, sep) \in Seq(Row) /\ Split(t, sep) # <<>>
  <2>1. Split(t, sep) \in Seq(Seq(Free(Free(Token, "\n"), sep))) /\ Split(t, sep) # <<>>
    BY SplitType DEF Row
  <2> QED
    BY <2>1, FreeType DEF Row
<1>2. PICK p \in Seq(Row) : p = Split(t, sep)
  BY <1>1
<1>3. PICK q \in Seq(Row) : q = Trimmed(p)
  BY TrimmedIs DEF Row
<1>4. Filled(q) \in Seq(Row \ {<<>>})
  BY FilledType
<1>5. Filled(q) \in Seq(Row)
  BY <1>4, SeqMonotonic
<1> QED
  BY <1>1, <1>2, <1>3, <1>5

LEMMA RowNone == <<>> \in Row
BY EmptySeq DEF Row

LEMMA ParseListType ==
  ASSUME NEW t \in Row
  PROVE  ParseList(t) \in Seq(Row)
<1>1. CASE Trim(t) = NoneMarker
  BY <1>1, EmptySeq DEF ParseList
<1>2. CASE Trim(t) # NoneMarker
  <2>1. Trim(t) \in Row
    BY RowType
  <2>2. Filled(Trimmed(Split(Trim(t), ","))) \in Seq(Row)
    BY <2>1, RowSplit
  <2> QED
    BY <1>2, <2>2 DEF ParseList
<1> QED
  BY <1>1, <1>2

LEMMA SplitRecordType ==
  ASSUME NEW t \in Row
  PROVE  SplitRecord(t) \in Seq(Row)
<1>1. Trimmed(Split(t, "\t")) \in Seq(Row)
  BY RowSplit
<1>2. PICK w \in Seq(Row) : w = Filled(Trimmed(Split(Left(t, " :: "), " ")))
  BY RowLeft, RowSplit
<1>3. Append(w, Right(t, " :: ")) \in Seq(Row)
  <2>1. PICK r \in Row : r = Right(t, " :: ")
    BY RowLeft
  <2>2. Append(w, r) \in Seq(Row)
    BY AddType DEF Add
  <2> QED
    BY <2>1, <2>2
<1> QED
  BY <1>1, <1>2, <1>3 DEF SplitRecord

LEMMA FieldType ==
  ASSUME NEW f \in Seq(Row)
  PROVE  /\ \A i : Field(f, i) \in Row
         /\ \A i \in 1 .. Len(f) : f[i] \in Row /\ Trim(f[i]) \in Row
<1>1. DOMAIN f = 1 .. Len(f)
  BY LenProperties
<1>2. \A i \in 1 .. Len(f) : f[i] \in Row
  BY ElementOfSeq
<1>3. \A i : Field(f, i) \in Row
  BY <1>1, <1>2, RowNone DEF Field
<1> QED
  BY <1>2, <1>3, RowType

LEMMA TailType ==
  ASSUME NEW A, NEW t \in Seq(A), t # <<>>
  PROVE  Tail(t) \in Seq(A)
BY HeadTailProperties

LEMMA FieldValType ==
  ASSUME NEW f \in Seq(Row), NEW from \in Nat \ {0}, NEW key
  PROVE  FieldVal(f, from, key) \in Row
<1> DEFINE found == {i \in from .. Len(f) : f[i] # <<>> /\ f[i][1] = key}
<1>1. CASE found = {}
  BY <1>1, RowNone DEF FieldVal
<1>2. CASE found # {}
  <2>n. Len(f) \in Nat
    OBVIOUS
  <2>1. found \in SUBSET Nat
    BY <2>n
  <2>2. PICK i \in found : \A j \in found : i <= j
    BY <1>2, <2>1, MinIn
  <2>3. Min(found) = i
    BY <2>1, <2>2, MinIs
  <2>4. i \in 1 .. Len(f) /\ f[i] # <<>>
    BY <2>2, <2>n
  <2>5. f[i] \in Row
    BY <2>4, FieldType
  <2>6. Tail(f[i]) \in Row
    BY <2>4, <2>5, TailType DEF Row
  <2> QED
    BY <1>2, <2>3, <2>6 DEF FieldVal
<1> QED
  BY <1>1, <1>2

LEMMA EdgeRefType ==
  ASSUME NEW t \in Row
  PROVE  ParseEdgeRef(t) \in [child : Row, parent : Row, name : Row]
<1>1. PICK rest \in Row : rest = Right(t, " -> ")
  BY RowLeft
<1>2. Left(t, " -> ") \in Row /\ Left(rest, " (") \in Row /\ Right(rest, " (") \in Row
  BY RowLeft
<1>3. Left(Right(rest, " ("), ")") \in Row
  BY <1>2, RowLeft
<1> QED
  BY <1>1, <1>2, <1>3, RowNone DEF ParseEdgeRef

(* The types that reading keeps.                                           *)
Triples == [child : Row, parent : Row, name : Row]

LooseNode ==
  [name : Row, cs : {"0", "1"}, part : {"0", "1"}, pk : Row, unique : Seq(Row), fk : Seq(Row),
   partitions : Seq(Row), serials : Seq(Row)]

LooseEdge ==
  [child : Row, parent : Row, name : Row, cols : Seq(Row), parentPk : Seq(Row),
   childPk : Seq(Row)]

LooseGraph ==
  [nodes : Seq(LooseNode), edges : Seq(LooseEdge), supers : Seq([child : Row, super : Row]),
   cycles : Seq(Seq(Row)), skipped : Seq(Row), levels : Seq(Seq(Row))]

LooseConstraint == [kind : Row, cls : Row, name : Row]

LooseLoad ==
  [rows : Row, failed : Row, files : Seq([file : Row, rows : Row, failed : Row])]

LooseRebuild ==
  [rebuilt : Seq(LooseConstraint),
   pending : Seq([kind : Row, cls : Row, name : Row, reason : Prose, readd : Prose]),
   indexes : Seq(Row), failed : Seq([name : Row, reason : Prose]),
   withheld : Seq([child : Row, parent : Row, name : Row, reason : Row])]

LooseValidate == Seq([child : Row, parent : Row, name : Row, status : Row])

LooseFkdefine ==
  [defined : Seq(Triples),
   withheld : Seq([child : Row, parent : Row, name : Row, reason : Prose, readd : Prose])]

LooseStats == [updated : Row, failed : Seq([cls : Row, reason : Prose])]

LooseTriggers == [file : Row, defined : Row, failed : Row]

Loose(m) ==
  /\ IsSum(m)
  /\ m.graph \in LooseGraph
  /\ m.strip \in Seq(LooseConstraint)
  /\ m.load \in LooseLoad
  /\ m.rebuild \in LooseRebuild
  /\ m.validate \in LooseValidate
  /\ m.fkdefine \in LooseFkdefine
  /\ m.stats \in LooseStats
  /\ m.triggers \in LooseTriggers

(* A part of the summary, and what else there is.                          *)
Kinds ==
  [graph |-> LooseGraph, strip |-> Seq(LooseConstraint), load |-> LooseLoad,
   rebuild |-> LooseRebuild, validate |-> LooseValidate, fkdefine |-> LooseFkdefine,
   stats |-> LooseStats, triggers |-> LooseTriggers]

LEMMA LooseIs ==
  ASSUME NEW m
  PROVE  Loose(m) <=> IsSum(m) /\ \A s \in Section : m[s] \in Kinds[s]
BY DEF Loose, Section, Kinds

LEMMA LoosePut ==
  ASSUME NEW m, Loose(m), NEW s \in Section, NEW v \in Kinds[s]
  PROVE  Loose(Put(m, s, v)) /\ Put(m, s, v).has = m.has /\ Put(m, s, v).phase = m.phase
         /\ Put(m, s, v).planned = m.planned
<1>1. s \in Field9 /\ Section \subseteq Field9
  BY DEF Section, Field9
<1>2. IsSum(m) /\ \A x \in Section : m[x] \in Kinds[x]
  BY LooseIs
<1>3. PICK p : p = Put(m, s, v)
  OBVIOUS
<1>4. IsSum(p) /\ p[s] = v /\ \A f \in Field9 : f # s => p[f] = m[f]
  BY <1>1, <1>2, <1>3, PutIs
<1>5. \A x \in Section : p[x] \in Kinds[x]
  BY <1>1, <1>2, <1>4
<1>6. "has" \in Field9 /\ "phase" \in Field9 /\ "planned" \in Field9 /\ s # "has" /\ s # "phase" /\ s # "planned"
  BY DEF Section, Field9
<1>7. p.has = m.has /\ p.phase = m.phase /\ p.planned = m.planned
  BY <1>4, <1>6
<1>8. Loose(p)
  BY <1>4, <1>5, LooseIs
<1> QED
  BY <1>3, <1>7, <1>8

-----------------------------------------------------------------------------
(* What each line of a section adds has that kind.                         *)

(* An entry that is read changes one section, within its type.             *)
LEMMA ReadPlanType ==
  ASSUME NEW m, Loose(m), NEW key, NEW val \in Row
  PROVE  \/ ReadPlan(m, key, val) = m
         \/ \E v \in LooseGraph : ReadPlan(m, key, val) = Put(m, "graph", v)
<1> SUFFICES ASSUME ReadPlan(m, key, val) # m
             PROVE  \E v \in LooseGraph : ReadPlan(m, key, val) = Put(m, "graph", v)
  OBVIOUS
<1>1. PICK parts \in Seq(Row) : parts = Split(val, "|")
  BY RowSplit
<1>2. PICK levels : levels = [i \in DOMAIN parts |-> ParseList(parts[i])]
  OBVIOUS
<1>3. levels \in Seq(Seq(Row))
  <2>1. DOMAIN parts = 1 .. Len(parts) /\ Len(parts) \in Nat
    BY LenProperties
  <2>2. \A i \in 1 .. Len(parts) : ParseList(parts[i]) \in Seq(Row)
    BY FieldType, ParseListType
  <2> QED
    BY <1>2, <2>1, <2>2
<1>4. Filled(levels) \in Seq(Seq(Row) \ {<<>>})
  BY <1>3, FilledType
<1>5. PICK l \in Seq(Seq(Row)) : l = Filled(levels)
  BY <1>4, SeqMonotonic
<1>6. ReadPlan(m, key, val) = [m EXCEPT !.graph.levels = l]
  BY <1>1, <1>2, <1>5 DEF ReadPlan
<1>7. m.graph \in LooseGraph
  BY DEF Loose
<1>8. PICK v \in LooseGraph : v = [m.graph EXCEPT !.levels = l]
  BY <1>7 DEF LooseGraph
<1>9. [m EXCEPT !.graph.levels = l] = Put(m, "graph", v)
  BY <1>8 DEF Put
<1> QED
  BY <1>6, <1>9

LEMMA ReadStripType ==
  ASSUME NEW m, Loose(m), NEW key, NEW val \in Row
  PROVE  \/ ReadStrip(m, key, val) = m
         \/ \E v \in Seq(LooseConstraint) : ReadStrip(m, key, val) = Put(m, "strip", v)
<1> SUFFICES ASSUME ReadStrip(m, key, val) # m
             PROVE  \E v \in Seq(LooseConstraint) : ReadStrip(m, key, val) = Put(m, "strip", v)
  OBVIOUS
<1>1. PICK f \in Seq(Row) : f = SplitRecord(val)
  BY SplitRecordType
<1>2. IsConstraint(f) /\ ReadStrip(m, key, val) = [m EXCEPT !.strip = Append(@, Constraint(f))]
  BY <1>1 DEF ReadStrip
<1>3. Len(f) \in Nat /\ Len(f) >= 3
  BY <1>2 DEF IsConstraint
<1>4. PICK c \in LooseConstraint : c = Constraint(f)
  <2>1. f[1] \in Row /\ f[2] \in Row /\ f[3] \in Row
    BY <1>3, FieldType
  <2> QED
    BY <2>1 DEF Constraint, LooseConstraint
<1>5. PICK v \in Seq(LooseConstraint) : v = Add(m.strip, c)
  BY AddType DEF Loose
<1>6. [m EXCEPT !.strip = Append(@, Constraint(f))] = Put(m, "strip", v)
  BY <1>4, <1>5 DEF Put, Add
<1> QED
  BY <1>2, <1>6

LEMMA ReadLoadType ==
  ASSUME NEW m, Loose(m), NEW key, NEW val \in Row
  PROVE  \/ ReadLoad(m, key, val) = m
         \/ \E v \in LooseLoad : ReadLoad(m, key, val) = Put(m, "load", v)
<1>1. PICK f \in Seq(Row) : f = Split(Trim(val), " ")
  BY RowType, RowSplit
<1>2. PICK n \in Nat : n = Len(f)
  OBVIOUS
<1>3. PICK l \in LooseLoad : l = m.load
  BY DEF Loose
<1>4. CASE key = "total_rows"
  <2>1. PICK v \in LooseLoad : v = [l EXCEPT !.rows = val]
    BY DEF LooseLoad
  <2>2. ReadLoad(m, key, val) = [m EXCEPT !.load.rows = val]
    BY <1>4 DEF ReadLoad
  <2> QED
    BY <1>3, <2>1, <2>2 DEF Put
<1>5. CASE key = "total_failed"
  <2>1. PICK v \in LooseLoad : v = [l EXCEPT !.failed = val]
    BY DEF LooseLoad
  <2>2. ReadLoad(m, key, val) = [m EXCEPT !.load.failed = val]
    BY <1>5 DEF ReadLoad
  <2> QED
    BY <1>3, <2>1, <2>2 DEF Put
<1>6. CASE key = "file" /\ n >= 3
  <2>1. f[n - 2] \in Row /\ f[n - 1] \in Row /\ f[n] \in Row
    <3>1. n - 2 \in 1 .. n /\ n - 1 \in 1 .. n /\ n \in 1 .. n
      BY <1>6
    <3> QED
      BY <3>1, <1>2, FieldType
  <2>2. PICK x \in [file : Row, rows : Row, failed : Row] :
          x = [file |-> f[n - 2], rows |-> f[n - 1], failed |-> f[n]]
    BY <2>1
  <2>3. PICK fs \in Seq([file : Row, rows : Row, failed : Row]) : fs = Add(l.files, x)
    BY AddType DEF LooseLoad
  <2>4. PICK v \in LooseLoad : v = [l EXCEPT !.files = fs]
    BY DEF LooseLoad
  <2>5. ReadLoad(m, key, val) = [m EXCEPT !.load.files = Append(@, x)]
    BY <1>6, <1>1, <1>2, <2>2 DEF ReadLoad
  <2> QED
    BY <1>3, <2>3, <2>4, <2>5 DEF Put, Add
<1>7. CASE key \notin {"total_rows", "total_failed"} /\ ~(key = "file" /\ n >= 3)
  BY <1>1, <1>2, <1>7 DEF ReadLoad
<1> QED
  BY <1>4, <1>5, <1>6, <1>7

LEMMA ReadValidateType ==
  ASSUME NEW m, Loose(m), NEW key, NEW val \in Row
  PROVE  \/ ReadValidate(m, key, val) = m
         \/ \E v \in LooseValidate : ReadValidate(m, key, val) = Put(m, "validate", v)
<1> SUFFICES ASSUME ReadValidate(m, key, val) # m
             PROVE  \E v \in LooseValidate : ReadValidate(m, key, val) = Put(m, "validate", v)
  OBVIOUS
<1>1. Left(val, " :: ") \in Row /\ Right(val, " :: ") \in Row
  BY RowLeft
<1>2. ParseEdgeRef(Left(val, " :: ")) \in [child : Row, parent : Row, name : Row]
  BY <1>1, EdgeRefType
<1>3. PICK x \in [child : Row, parent : Row, name : Row, status : Row] :
        x = WithStatus(ParseEdgeRef(Left(val, " :: ")), Right(val, " :: "))
  BY <1>1, <1>2 DEF WithStatus
<1>4. PICK v \in LooseValidate : v = Add(m.validate, x)
  BY AddType DEF Loose, LooseValidate
<1>5. ReadValidate(m, key, val) = [m EXCEPT !.validate = Append(@, x)]
  BY <1>3 DEF ReadValidate
<1> QED
  BY <1>4, <1>5 DEF Put, Add

LEMMA ReadStatsType ==
  ASSUME NEW m, Loose(m), NEW key, NEW val \in Row
  PROVE  \/ ReadStats(m, key, val) = m
         \/ \E v \in LooseStats : ReadStats(m, key, val) = Put(m, "stats", v)
<1>3. PICK l \in LooseStats : l = m.stats
  BY DEF Loose
<1>4. CASE key = "updated"
  <2>1. PICK v \in LooseStats : v = [l EXCEPT !.updated = val]
    BY DEF LooseStats
  <2>2. ReadStats(m, key, val) = [m EXCEPT !.stats.updated = val]
    BY <1>4 DEF ReadStats
  <2> QED
    BY <1>3, <2>1, <2>2 DEF Put
<1>5. CASE key = "fail"
  <2>1. Left(val, " :: ") \in Row /\ Right(val, " :: ") \in Prose
    BY RowLeft, RowProse
  <2>2. PICK x \in [cls : Row, reason : Prose] :
          x = [cls |-> Left(val, " :: "), reason |-> Right(val, " :: ")]
    BY <2>1
  <2>3. PICK fs \in Seq([cls : Row, reason : Prose]) : fs = Add(l.failed, x)
    BY AddType DEF LooseStats
  <2>4. PICK v \in LooseStats : v = [l EXCEPT !.failed = fs]
    BY DEF LooseStats
  <2>5. ReadStats(m, key, val) = [m EXCEPT !.stats.failed = Append(@, x)]
    BY <1>5, <2>2 DEF ReadStats
  <2> QED
    BY <1>3, <2>3, <2>4, <2>5 DEF Put, Add
<1>6. CASE key \notin {"updated", "fail"}
  BY <1>6 DEF ReadStats
<1> QED
  BY <1>4, <1>5, <1>6

LEMMA ReadTriggersType ==
  ASSUME NEW m, Loose(m), NEW key, NEW val \in Row
  PROVE  \/ ReadTriggers(m, key, val) = m
         \/ \E v \in LooseTriggers : ReadTriggers(m, key, val) = Put(m, "triggers", v)
<1>1. PICK l \in LooseTriggers : l = m.triggers
  BY DEF Loose
<1>2. [l EXCEPT !.file = val] \in LooseTriggers /\ [l EXCEPT !.defined = val] \in LooseTriggers
      /\ [l EXCEPT !.failed = val] \in LooseTriggers
  BY DEF LooseTriggers
<1>3. \/ ReadTriggers(m, key, val) = m
      \/ ReadTriggers(m, key, val) = [m EXCEPT !.triggers.file = val]
      \/ ReadTriggers(m, key, val) = [m EXCEPT !.triggers.defined = val]
      \/ ReadTriggers(m, key, val) = [m EXCEPT !.triggers.failed = val]
  BY DEF ReadTriggers
<1>4. ASSUME ReadTriggers(m, key, val) = [m EXCEPT !.triggers.file = val]
      PROVE  ReadTriggers(m, key, val) = Put(m, "triggers", [l EXCEPT !.file = val])
  BY <1>1, <1>4 DEF Put
<1>5. ASSUME ReadTriggers(m, key, val) = [m EXCEPT !.triggers.defined = val]
      PROVE  ReadTriggers(m, key, val) = Put(m, "triggers", [l EXCEPT !.defined = val])
  BY <1>1, <1>5 DEF Put
<1>6. ASSUME ReadTriggers(m, key, val) = [m EXCEPT !.triggers.failed = val]
      PROVE  ReadTriggers(m, key, val) = Put(m, "triggers", [l EXCEPT !.failed = val])
  BY <1>1, <1>6 DEF Put
<1> QED
  BY <1>2, <1>3, <1>4, <1>5, <1>6

LEMMA LastReaddType ==
  ASSUME NEW R, NEW records \in Seq(R), NEW val,
         \A r \in R : [r EXCEPT !.readd = val] \in R
  PROVE  LastReadd(records, val) \in Seq(R)
<1>1. CASE records = <<>>
  BY <1>1 DEF LastReadd
<1>2. CASE records # <<>>
  <2>1. PICK n \in Nat : n = Len(records) /\ n \in 1 .. n
    BY <1>2, EmptySeq
  <2>2. records[n] \in R
    BY <2>1, ElementOfSeq
  <2>3. PICK x \in R : x = [records[n] EXCEPT !.readd = val]
    BY <2>2
  <2>4. LastReadd(records, val) = [records EXCEPT ![n] = x]
    BY <1>2, <2>1, <2>3 DEF LastReadd
  <2>5. [records EXCEPT ![n] = x] \in Seq(R)
    BY <2>1, ExceptSeq
  <2> QED
    BY <2>4, <2>5
<1> QED
  BY <1>1, <1>2

LoosePending == [kind : Row, cls : Row, name : Row, reason : Prose, readd : Prose]
LooseFailed == [name : Row, reason : Prose]
LooseCascade == [child : Row, parent : Row, name : Row, reason : Row]

LEMMA ReadRebuildType ==
  ASSUME NEW m, Loose(m), NEW key, NEW val \in Row
  PROVE  \/ ReadRebuild(m, key, val) = m
         \/ \E v \in LooseRebuild : ReadRebuild(m, key, val) = Put(m, "rebuild", v)
<1>1. PICK f \in Seq(Row) : f = SplitRecord(val)
  BY SplitRecordType
<1>2. PICK l \in LooseRebuild : l = m.rebuild
  BY DEF Loose
<1>3. /\ l.rebuilt \in Seq(LooseConstraint) /\ l.pending \in Seq(LoosePending)
      /\ l.indexes \in Seq(Row) /\ l.failed \in Seq(LooseFailed) /\ l.withheld \in Seq(LooseCascade)
  BY DEF LooseRebuild, LoosePending, LooseFailed, LooseCascade
<1>4. \A w \in Seq(LooseConstraint) : [l EXCEPT !.rebuilt = w] \in LooseRebuild
  BY DEF LooseRebuild
<1>5. \A w \in Seq(LoosePending) : [l EXCEPT !.pending = w] \in LooseRebuild
  BY DEF LooseRebuild, LoosePending
<1>6. \A w \in Seq(Row) : [l EXCEPT !.indexes = w] \in LooseRebuild
  BY DEF LooseRebuild
<1>7. \A w \in Seq(LooseFailed) : [l EXCEPT !.failed = w] \in LooseRebuild
  BY DEF LooseRebuild, LooseFailed
<1>8. \A w \in Seq(LooseCascade) : [l EXCEPT !.withheld = w] \in LooseRebuild
  BY DEF LooseRebuild, LooseCascade
<1>9. Len(f) \in Nat /\ (Field(f, 2) \in Prose /\ Field(f, 4) \in Prose /\ Field(f, 4) \in Row)
  BY FieldType, RowProse
<1>10. CASE key = "ok" /\ IsConstraint(f)
  <2>1. f[1] \in Row /\ f[2] \in Row /\ f[3] \in Row
    BY <1>9, <1>10, FieldType DEF IsConstraint
  <2>2. PICK x \in LooseConstraint : x = Constraint(f)
    BY <2>1 DEF LooseConstraint, Constraint
  <2>3. PICK w \in Seq(LooseConstraint) : w = Add(l.rebuilt, x)
    BY <1>3, AddType
  <2>4. ReadRebuild(m, key, val) = [m EXCEPT !.rebuild.rebuilt = Append(@, x)]
    BY <1>1, <1>10, <2>2 DEF ReadRebuild
  <2>5. PICK v \in LooseRebuild : v = [l EXCEPT !.rebuilt = w]
    BY <1>4
  <2> QED
    BY <1>2, <2>3, <2>4, <2>5 DEF Put, Add
<1>11. CASE key = "fail" /\ IsConstraint(f)
  <2>1. f[1] \in Row /\ f[2] \in Row /\ f[3] \in Row
    BY <1>9, <1>11, FieldType DEF IsConstraint
  <2>2. PICK x \in LoosePending : x = [kind |-> f[1], cls |-> f[2], name |-> f[3],
                                      reason |-> Field(f, 4), readd |-> <<>>]
    BY <2>1, <1>9, RowNone, RowProse DEF LoosePending
  <2>3. PICK w \in Seq(LoosePending) : w = Add(l.pending, x)
    BY <1>3, AddType
  <2>4. ReadRebuild(m, key, val) = [m EXCEPT !.rebuild.pending = Append(@, x)]
    BY <1>1, <1>11, <2>2 DEF ReadRebuild
  <2>5. PICK v \in LooseRebuild : v = [l EXCEPT !.pending = w]
    BY <1>5
  <2> QED
    BY <1>2, <2>3, <2>4, <2>5 DEF Put, Add
<1>12. CASE key = "fail_readd"
  <2>1. \A r \in LoosePending : [r EXCEPT !.readd = val] \in LoosePending
    BY RowProse DEF LoosePending
  <2>3. PICK w \in Seq(LoosePending) : w = LastReadd(l.pending, val)
    BY <1>3, <2>1, LastReaddType
  <2>4. ReadRebuild(m, key, val) = [m EXCEPT !.rebuild.pending = LastReadd(@, val)]
    BY <1>1, <1>12 DEF ReadRebuild
  <2>5. PICK v \in LooseRebuild : v = [l EXCEPT !.pending = w]
    BY <1>5
  <2> QED
    BY <1>2, <2>3, <2>4, <2>5 DEF Put
<1>13. CASE key = "index"
  <2>2. PICK x \in Row : x = Trim(val)
    BY RowType
  <2>3. PICK w \in Seq(Row) : w = Add(l.indexes, x)
    BY <1>3, AddType
  <2>4. ReadRebuild(m, key, val) = [m EXCEPT !.rebuild.indexes = Append(@, x)]
    BY <1>1, <1>13, <2>2 DEF ReadRebuild
  <2>5. PICK v \in LooseRebuild : v = [l EXCEPT !.indexes = w]
    BY <1>6
  <2> QED
    BY <1>2, <2>3, <2>4, <2>5 DEF Put, Add
<1>14. CASE key = "index_fail" /\ Len(f) >= 1
  <2>1. f[1] \in Row
    BY <1>9, <1>14, FieldType
  <2>2. PICK x \in LooseFailed : x = [name |-> f[1], reason |-> Field(f, 2)]
    BY <2>1, <1>9 DEF LooseFailed
  <2>3. PICK w \in Seq(LooseFailed) : w = Add(l.failed, x)
    BY <1>3, AddType
  <2>4. ReadRebuild(m, key, val) = [m EXCEPT !.rebuild.failed = Append(@, x)]
    BY <1>1, <1>14, <2>2 DEF ReadRebuild
  <2>5. PICK v \in LooseRebuild : v = [l EXCEPT !.failed = w]
    BY <1>7
  <2> QED
    BY <1>2, <2>3, <2>4, <2>5 DEF Put, Add
<1>15. CASE key = "withhold" /\ Len(f) >= 3
  <2>1. f[1] \in Row /\ f[2] \in Row /\ f[3] \in Row
    BY <1>9, <1>15, FieldType
  <2>2. PICK x \in LooseCascade : x = [child |-> f[1], parent |-> f[2], name |-> f[3],
                                      reason |-> Field(f, 4)]
    BY <2>1, <1>9 DEF LooseCascade
  <2>3. PICK w \in Seq(LooseCascade) : w = Add(l.withheld, x)
    BY <1>3, AddType
  <2>4. ReadRebuild(m, key, val) = [m EXCEPT !.rebuild.withheld = Append(@, x)]
    BY <1>1, <1>15, <2>2 DEF ReadRebuild
  <2>5. PICK v \in LooseRebuild : v = [l EXCEPT !.withheld = w]
    BY <1>8
  <2> QED
    BY <1>2, <2>3, <2>4, <2>5 DEF Put, Add
<1>16. CASE /\ ~(key = "ok" /\ IsConstraint(f)) /\ ~(key = "fail" /\ IsConstraint(f))
            /\ key \notin {"fail_readd", "index"} /\ ~(key = "index_fail" /\ Len(f) >= 1)
            /\ ~(key = "withhold" /\ Len(f) >= 3)
  BY <1>1, <1>16 DEF ReadRebuild
<1> QED
  BY <1>10, <1>11, <1>12, <1>13, <1>14, <1>15, <1>16

LooseHeld == [child : Row, parent : Row, name : Row, reason : Prose, readd : Prose]

LEMMA ReadFkdefineType ==
  ASSUME NEW m, Loose(m), NEW key, NEW val \in Row
  PROVE  \/ ReadFkdefine(m, key, val) = m
         \/ \E v \in LooseFkdefine : ReadFkdefine(m, key, val) = Put(m, "fkdefine", v)
<1>1. PICK e \in [child : Row, parent : Row, name : Row] : e = ParseEdgeRef(Left(val, " :: "))
  BY RowLeft, EdgeRefType
<1>2. PICK l \in LooseFkdefine : l = m.fkdefine
  BY DEF Loose
<1>3. l.defined \in Seq(Triples) /\ l.withheld \in Seq(LooseHeld)
  BY DEF LooseFkdefine, LooseHeld
<1>4. \A w \in Seq(Triples) : [l EXCEPT !.defined = w] \in LooseFkdefine
  BY DEF LooseFkdefine
<1>5. \A w \in Seq(LooseHeld) : [l EXCEPT !.withheld = w] \in LooseFkdefine
  BY DEF LooseFkdefine, LooseHeld
<1>10. CASE key = "define"
  <2>1. PICK x \in Triples : x = ParseEdgeRef(Trim(val))
    BY RowType, EdgeRefType DEF Triples
  <2>3. PICK w \in Seq(Triples) : w = Add(l.defined, x)
    BY <1>3, AddType
  <2>4. ReadFkdefine(m, key, val) = [m EXCEPT !.fkdefine.defined = Append(@, x)]
    BY <1>10, <2>1 DEF ReadFkdefine
  <2>5. PICK v \in LooseFkdefine : v = [l EXCEPT !.defined = w]
    BY <1>4
  <2> QED
    BY <1>2, <2>3, <2>4, <2>5 DEF Put, Add
<1>11. CASE key = "withhold"
  <2>0. Right(val, " :: ") \in Prose /\ <<>> \in Prose
    BY RowLeft, RowProse, RowNone
  <2>1. PICK x \in LooseHeld : x = [child |-> e.child, parent |-> e.parent, name |-> e.name,
                                    reason |-> Right(val, " :: "), readd |-> <<>>]
    BY <2>0 DEF LooseHeld
  <2>3. PICK w \in Seq(LooseHeld) : w = Add(l.withheld, x)
    BY <1>3, AddType
  <2>4. ReadFkdefine(m, key, val) = [m EXCEPT !.fkdefine.withheld = Append(@, x)]
    BY <1>1, <1>11, <2>1 DEF ReadFkdefine
  <2>5. PICK v \in LooseFkdefine : v = [l EXCEPT !.withheld = w]
    BY <1>5
  <2> QED
    BY <1>2, <2>3, <2>4, <2>5 DEF Put, Add
<1>12. CASE key = "readd"
  <2>1. \A r \in LooseHeld : [r EXCEPT !.readd = val] \in LooseHeld
    BY RowProse DEF LooseHeld
  <2>3. PICK w \in Seq(LooseHeld) : w = LastReadd(l.withheld, val)
    BY <1>3, <2>1, LastReaddType
  <2>4. ReadFkdefine(m, key, val) = [m EXCEPT !.fkdefine.withheld = LastReadd(@, val)]
    BY <1>12 DEF ReadFkdefine
  <2>5. PICK v \in LooseFkdefine : v = [l EXCEPT !.withheld = w]
    BY <1>5
  <2> QED
    BY <1>2, <2>3, <2>4, <2>5 DEF Put
<1>13. CASE key \notin {"define", "withhold", "readd"}
  BY <1>13 DEF ReadFkdefine
<1> QED
  BY <1>10, <1>11, <1>12, <1>13

LEMMA ReadNodeType ==
  ASSUME NEW val \in Row
  PROVE  ReadNode(val) \in LooseNode
<1>1. PICK f \in Seq(Row) : f = Split(val, "\t") /\ f # <<>>
  BY RowSplit
<1>2. Len(f) \in Nat /\ Len(f) >= 1
  BY <1>1, EmptySeq
<1>3. Trim(f[1]) \in Row
  BY <1>2, FieldType
<1>4. \A key : FieldVal(f, 2, key) \in Row /\ ParseList(FieldVal(f, 2, key)) \in Seq(Row)
  BY FieldValType, ParseListType
<1>5. ReadNode(val) =
       [name |-> Trim(f[1]),
       cs |-> IF FieldVal(f, 2, "cs=") = <<"0">> THEN "0" ELSE "1",
       part |-> IF FieldVal(f, 2, "part=") = <<"1">> THEN "1" ELSE "0",
       pk |-> FieldVal(f, 2, "pk="), unique |-> ParseList(FieldVal(f, 2, "uk=")),
       fk |-> ParseList(FieldVal(f, 2, "fk=")),
       partitions |-> ParseList(FieldVal(f, 2, "partn=")),
       serials |-> ParseList(FieldVal(f, 2, "ser="))]
  BY <1>1 DEF ReadNode
<1>6. PICK v1, v2, v3, v4, v5 : /\ v1 = FieldVal(f, 2, "pk=") /\ v2 = ParseList(FieldVal(f, 2, "uk="))
                           /\ v3 = ParseList(FieldVal(f, 2, "fk=")) /\ v4 = ParseList(FieldVal(f, 2, "partn="))
                           /\ v5 = ParseList(FieldVal(f, 2, "ser="))
  OBVIOUS
<1>7. PICK c \in {"0", "1"} : c = IF FieldVal(f, 2, "cs=") = <<"0">> THEN "0" ELSE "1"
  OBVIOUS
<1>8. PICK d \in {"0", "1"} : d = IF FieldVal(f, 2, "part=") = <<"1">> THEN "1" ELSE "0"
  OBVIOUS
<1>9. v1 \in Row /\ v2 \in Seq(Row) /\ v3 \in Seq(Row) /\ v4 \in Seq(Row) /\ v5 \in Seq(Row)
  BY <1>4, <1>6
<1>10. ReadNode(val) = [name |-> Trim(f[1]), cs |-> c, part |-> d, pk |-> v1, unique |-> v2,
                        fk |-> v3, partitions |-> v4, serials |-> v5]
  BY <1>5, <1>6, <1>7, <1>8
<1> QED
  BY <1>3, <1>9, <1>10 DEF LooseNode

LEMMA ReadEdgeType ==
  ASSUME NEW val \in Row, Len(Split(val, "\t")) >= 3
  PROVE  ReadEdge(val) \in LooseEdge
<1>1. PICK f \in Seq(Row) : f = Split(val, "\t")
  BY RowSplit
<1>2. Len(f) \in Nat /\ Len(f) >= 3
  BY <1>1
<1>3. Trim(f[1]) \in Row /\ Trim(f[2]) \in Row /\ Trim(f[3]) \in Row
  BY <1>2, FieldType
<1>4. \A key : ParseList(FieldVal(f, 4, key)) \in Seq(Row)
  BY FieldValType, ParseListType
<1> QED
  BY <1>1, <1>3, <1>4 DEF ReadEdge, LooseEdge

LEMMA ReadGraphType ==
  ASSUME NEW m, Loose(m), NEW key, NEW val \in Row
  PROVE  \/ ReadGraph(m, key, val) = m
         \/ \E v \in LooseGraph : ReadGraph(m, key, val) = Put(m, "graph", v)
<1>1. PICK f \in Seq(Row) : f = Split(val, "\t")
  BY RowSplit
<1>2. PICK l \in LooseGraph : l = m.graph
  BY DEF Loose
<1>3. /\ l.nodes \in Seq(LooseNode) /\ l.edges \in Seq(LooseEdge)
      /\ l.supers \in Seq([child : Row, super : Row]) /\ l.cycles \in Seq(Seq(Row))
  BY DEF LooseGraph
<1>10. CASE key = "gnode" /\ Trim(f[1]) # <<>>
  <2>1. PICK x \in LooseNode : x = ReadNode(val)
    BY ReadNodeType
  <2>2. PICK w \in Seq(LooseNode) : w = Add(l.nodes, x)
    BY <1>3, AddType
  <2>3. PICK v \in LooseGraph : v = [l EXCEPT !.nodes = w]
    BY DEF LooseGraph
  <2>4. ReadGraph(m, key, val) = [m EXCEPT !.graph.nodes = Append(@, x)]
    BY <1>1, <1>10, <2>1 DEF ReadGraph
  <2> QED
    BY <1>2, <2>2, <2>3, <2>4 DEF Put, Add
<1>11. CASE key = "gfk" /\ Len(f) >= 3
  <2>1. PICK x \in LooseEdge : x = ReadEdge(val)
    BY <1>1, <1>11, ReadEdgeType
  <2>2. PICK w \in Seq(LooseEdge) : w = Add(l.edges, x)
    BY <1>3, AddType
  <2>3. PICK v \in LooseGraph : v = [l EXCEPT !.edges = w]
    BY DEF LooseGraph
  <2>4. ReadGraph(m, key, val) = [m EXCEPT !.graph.edges = Append(@, x)]
    BY <1>1, <1>11, <2>1 DEF ReadGraph
  <2> QED
    BY <1>2, <2>2, <2>3, <2>4 DEF Put, Add
<1>12. CASE key = "ginh" /\ Len(f) >= 2
  <2>0. Trim(f[1]) \in Row /\ Trim(f[2]) \in Row
    BY <1>12, FieldType
  <2>1. PICK x \in [child : Row, super : Row] : x = [child |-> Trim(f[1]), super |-> Trim(f[2])]
    BY <2>0
  <2>2. PICK w \in Seq([child : Row, super : Row]) : w = Add(l.supers, x)
    BY <1>3, AddType
  <2>3. PICK v \in LooseGraph : v = [l EXCEPT !.supers = w]
    BY DEF LooseGraph
  <2>4. ReadGraph(m, key, val) = [m EXCEPT !.graph.supers = Append(@, x)]
    BY <1>1, <1>12, <2>1 DEF ReadGraph
  <2> QED
    BY <1>2, <2>2, <2>3, <2>4 DEF Put, Add
<1>13. CASE key = "cycle"
  <2>1. PICK x \in Seq(Row) : x = ReadCycle(val)
    BY RowSplit DEF ReadCycle
  <2>2. PICK w \in Seq(Seq(Row)) : w = Add(l.cycles, x)
    BY <1>3, AddType
  <2>3. PICK v \in LooseGraph : v = [l EXCEPT !.cycles = w]
    BY DEF LooseGraph
  <2>4. ReadGraph(m, key, val) = [m EXCEPT !.graph.cycles = Append(@, x)]
    BY <1>1, <1>13, <2>1 DEF ReadGraph
  <2> QED
    BY <1>2, <2>2, <2>3, <2>4 DEF Put, Add
<1>14. CASE key = "skipped_classes"
  <2>1. PICK x \in Seq(Row) : x = ParseList(val)
    BY ParseListType
  <2>3. PICK v \in LooseGraph : v = [l EXCEPT !.skipped = x]
    BY DEF LooseGraph
  <2>4. ReadGraph(m, key, val) = [m EXCEPT !.graph.skipped = x]
    BY <1>1, <1>14, <2>1 DEF ReadGraph
  <2> QED
    BY <1>2, <2>3, <2>4 DEF Put
<1>15. CASE /\ key \notin {"cycle", "skipped_classes"} /\ ~(key = "gnode" /\ Trim(f[1]) # <<>>)
            /\ ~(key = "gfk" /\ Len(f) >= 3) /\ ~(key = "ginh" /\ Len(f) >= 2)
  BY <1>1, <1>15 DEF ReadGraph
<1> QED
  BY <1>10, <1>11, <1>12, <1>13, <1>14, <1>15

-----------------------------------------------------------------------------
(* Reading one line, and one section.                                      *)

(* The summaries that the reader may have made when it has seen the        *)
(* headers hs.                                                             *)
Sums(hs, ph, pl) ==
  [phase : {ph}, has : {hs}, planned : {pl}, graph : LooseGraph, strip : Seq(LooseConstraint),
   load : LooseLoad, rebuild : LooseRebuild, validate : LooseValidate,
   fkdefine : LooseFkdefine, stats : LooseStats, triggers : LooseTriggers]

LEMMA SumsIs ==
  ASSUME NEW hs, NEW ph, NEW pl
  PROVE  /\ \A m \in Sums(hs, ph, pl) : Loose(m) /\ m.has = hs /\ m.phase = ph /\ m.planned = pl
         /\ \A m : Loose(m) /\ m.has = hs /\ m.phase = ph /\ m.planned = pl => m \in Sums(hs, ph, pl)
<1>1. ASSUME NEW m \in Sums(hs, ph, pl)
      PROVE  Loose(m) /\ m.has = hs /\ m.phase = ph /\ m.planned = pl
  BY DEF Sums, Loose, IsSum, Field9
<1>2. ASSUME NEW m, Loose(m), m.has = hs, m.phase = ph, m.planned = pl
      PROVE  m \in Sums(hs, ph, pl)
  <2>1. m = [f \in Field9 |-> m[f]]
    BY <1>2 DEF Loose, IsSum
  <2>2. m = [phase |-> ph, has |-> hs, planned |-> pl, graph |-> m.graph, strip |-> m.strip,
             load |-> m.load, rebuild |-> m.rebuild, validate |-> m.validate,
             fkdefine |-> m.fkdefine, stats |-> m.stats, triggers |-> m.triggers]
    BY <1>2, <2>1 DEF Field9
  <2> QED
    BY <1>2, <2>2 DEF Loose, Sums
<1> QED
  BY <1>1, <1>2

LEMMA ReadEntryType ==
  ASSUME NEW hs, NEW ph, NEW pl, NEW m \in Sums(hs, ph, pl), NEW h, h # Header("phases"), NEW key,
         NEW val \in Row
  PROVE  ReadEntry(m, h, key, val) \in Sums(hs, ph, pl)
<1>0. Loose(m) /\ m.has = hs /\ m.phase = ph /\ m.planned = pl
  BY SumsIs
<1>1. ASSUME NEW s \in Section, NEW v \in Kinds[s], NEW n, n = Put(m, s, v)
      PROVE  n \in Sums(hs, ph, pl)
  BY <1>0, <1>1, LoosePut, SumsIs
<1>2. /\ Kinds["graph"] = LooseGraph /\ Kinds["strip"] = Seq(LooseConstraint) /\ Kinds["load"] = LooseLoad
      /\ Kinds["rebuild"] = LooseRebuild /\ Kinds["validate"] = LooseValidate
      /\ Kinds["fkdefine"] = LooseFkdefine /\ Kinds["stats"] = LooseStats
      /\ Kinds["triggers"] = LooseTriggers
  BY DEF Kinds
<1>3. /\ "graph" \in Section /\ "strip" \in Section /\ "load" \in Section /\ "rebuild" \in Section
      /\ "validate" \in Section /\ "fkdefine" \in Section /\ "stats" \in Section
      /\ "triggers" \in Section
  BY DEF Section
<1>4. ReadPlan(m, key, val) \in Sums(hs, ph, pl)
  BY <1>0, <1>1, <1>2, <1>3, ReadPlanType
<1>5. ReadGraph(m, key, val) \in Sums(hs, ph, pl)
  BY <1>0, <1>1, <1>2, <1>3, ReadGraphType
<1>6. ReadStrip(m, key, val) \in Sums(hs, ph, pl)
  BY <1>0, <1>1, <1>2, <1>3, ReadStripType
<1>7. ReadLoad(m, key, val) \in Sums(hs, ph, pl)
  BY <1>0, <1>1, <1>2, <1>3, ReadLoadType
<1>8. ReadRebuild(m, key, val) \in Sums(hs, ph, pl)
  BY <1>0, <1>1, <1>2, <1>3, ReadRebuildType
<1>9. ReadValidate(m, key, val) \in Sums(hs, ph, pl)
  BY <1>0, <1>1, <1>2, <1>3, ReadValidateType
<1>10. ReadFkdefine(m, key, val) \in Sums(hs, ph, pl)
  BY <1>0, <1>1, <1>2, <1>3, ReadFkdefineType
<1>11. ReadStats(m, key, val) \in Sums(hs, ph, pl)
  BY <1>0, <1>1, <1>2, <1>3, ReadStatsType
<1>12. ReadTriggers(m, key, val) \in Sums(hs, ph, pl)
  BY <1>0, <1>1, <1>2, <1>3, ReadTriggersType
<1>13. ReadEntry(m, h, key, val) \in
         {ReadPlan(m, key, val), ReadGraph(m, key, val), ReadStrip(m, key, val), ReadLoad(m, key, val),
          ReadRebuild(m, key, val), ReadValidate(m, key, val), ReadFkdefine(m, key, val),
          ReadStats(m, key, val), ReadTriggers(m, key, val), m}
  BY DEF ReadEntry
<1> QED
  BY <1>4, <1>5, <1>6, <1>7, <1>8, <1>9, <1>10, <1>11, <1>12, <1>13

(* Sections.                                                               *)
LEMMA HeaderIs ==
  /\ \A s, t : Header(s) = Header(t) => s = t
  /\ \A s \in Known : /\ Header(s) \in Row /\ Trim(Header(s)) = Header(s)
                      /\ Header(s) # <<>> /\ Header(s)[1] = "["
<1>1. ASSUME NEW s, NEW t, Header(s) = Header(t) PROVE s = t
  <2>1. Header(s)[2] = s /\ Header(t)[2] = t
    BY DEF Header
  <2> QED
    BY <1>1, <2>1
<1>2. ASSUME NEW s \in Known
      PROVE  Header(s) \in Row /\ Trim(Header(s)) = Header(s)
  <2>1. PICK a \in Free(Token, "\n") : a = "["
    BY PunctuationFree
  <2>2. PICK b \in Free(Token, "\n") : b = "]"
    BY PunctuationFree
  <2>3. s \in Free(Token, "\n")
    BY MarkToken, FreeType
  <2>4. <<a, s, b>> \in Row
    BY <2>3, TripleSeq DEF Row
  <2>5. PICK t \in Row : t = Header(s)
    BY <2>1, <2>2, <2>4 DEF Header
  <2>6. Header(s)[1] = "[" /\ Len(Header(s)) = 3 /\ Header(s)[3] = "]"
    BY DEF Header
  <2>7. Tight(t)
    BY <2>5, <2>6 DEF Tight, Blank
  <2>8. Trim(t) = t
    BY <2>7, TrimTight DEF Row
  <2> QED
    BY <2>5, <2>8
<1> QED
  BY <1>1, <1>2, HeaderHead

LEMMA AtHeader ==
  ASSUME NEW h, NEW m, NEW s \in Known
  PROVE  ReadLine(At(h, m), Header(s)) = At(Header(s), Put(m, "has", m.has \cup ({s} \cap Section)))
<1>1. {x \in Section : Header(s) = Header(x)} = {s} \cap Section
  BY HeaderIs
<1>2. PICK t : t = Header(s) /\ Trim(t) = t /\ t # <<>> /\ t[1] = "["
  BY HeaderIs
<1>3. ReadLine(At(h, m), t) = [section |-> t,
            m |-> [At(h, m).m EXCEPT !.has = @ \cup {x \in Section : t = Header(x)}]]
  BY <1>2 DEF ReadLine
<1>4. PICK z : z = {s} \cap Section /\ {x \in Section : t = Header(x)} = z
  BY <1>1, <1>2
<1> QED
  BY <1>2, <1>3, <1>4, AtIs DEF At, Put

LEMMA EmptyText == <<>> \in Text
BY EmptySeq DEF Text

(* The reader in a section that is not the last.                           *)
Readers(hs, ph, pl) == {At(h, m) : h \in Text \ {Header("phases")}, m \in Sums(hs, ph, pl)}

LEMMA PlainStays ==
  ASSUME NEW hs, NEW ph, NEW pl, NEW st \in Readers(hs, ph, pl), NEW l \in Plain
  PROVE  ReadLine(st, l) \in Readers(hs, ph, pl)
<1>1. PICK h \in Text \ {Header("phases")}, m \in Sums(hs, ph, pl) : st = At(h, m)
  BY DEF Readers
<1>2. l \in Row /\ Trim(l) \in Row /\ \A s \in Known : Trim(l) # Header(s)
  BY RowType DEF Plain
<1>3. st.section = h /\ st.m = m
  BY <1>1, AtIs
<1>4. CASE Trim(l) = <<>>
  BY <1>4 DEF ReadLine
<1>5. CASE Trim(l) # <<>> /\ Trim(l)[1] = "["
  <2>1. {s \in Section : Trim(l) = Header(s)} = {}
    BY <1>2 DEF Known
  <2>2. PICK t \in Text \ {Header("phases")} : t = Trim(l)
    BY <1>2, RowType DEF Known
  <2>3. PICK z : z = {} /\ {s \in Section : t = Header(s)} = z
    BY <2>1, <2>2
  <2>4. ReadLine(st, l) = [section |-> t, m |-> [m EXCEPT !.has = @ \cup z]]
    BY <1>3, <1>5, <2>2, <2>3 DEF ReadLine
  <2>5. m.has \cup z = hs /\ m.has = hs
    BY <2>3, SumsIs
  <2>6. [m EXCEPT !.has = @ \cup z] \in Sums(hs, ph, pl)
    BY <2>5 DEF Sums
  <2>7. ReadLine(st, l) = At(t, [m EXCEPT !.has = @ \cup z])
    BY <2>4 DEF At
  <2> QED
    BY <2>6, <2>7 DEF Readers
<1>6. CASE Trim(l) # <<>> /\ Trim(l)[1] # "[" /\ (Where(l, ":") = 0 \/ Len(Left(l, ":")) # 1)
  BY <1>6 DEF ReadLine
<1>7. CASE Trim(l) # <<>> /\ Trim(l)[1] # "[" /\ ~(Where(l, ":") = 0 \/ Len(Left(l, ":")) # 1)
  <2>1. PICK n : n = ReadEntry(m, h, Left(l, ":")[1], Right(l, ":"))
    OBVIOUS
  <2>2. n \in Sums(hs, ph, pl)
    BY <1>2, <2>1, RowLeft, ReadEntryType
  <2>3. ReadLine(st, l) = [st EXCEPT !.m = n]
    BY <1>3, <1>7, <2>1 DEF ReadLine
  <2>4. ReadLine(st, l) = At(h, n)
    BY <1>1, <2>3 DEF At
  <2> QED
    BY <2>2, <2>4 DEF Readers
<1> QED
  BY <1>4, <1>5, <1>6, <1>7

LEMMA PartType ==
  ASSUME NEW d, NEW s \in Known, NEW lines \in Seq(Entry)
  PROVE  Part(d, s, lines) \in Seq(Row)
<1>1. PICK x \in Row : x = Header(s)
  BY HeaderIs
<1>2. <<x>> \in Seq(Row) /\ <<>> \in Seq(Row)
  BY One, EmptySeq
<1>3. Printed(lines) \in Seq(Row)
  BY PrintedType
<1>4. Cat(<<x>>, Printed(lines)) \in Seq(Row)
  BY <1>2, <1>3, CatType
<1> QED
  BY <1>1, <1>2, <1>4 DEF Part, Cat

LEMMA PartRead ==
  ASSUME NEW d, NEW s \in Known, NEW lines \in Seq(Entry), NEW h, NEW m
  PROVE  ReadLines(At(h, m), Part(d, s, lines)) =
           IF s \in d.has \cup {"plan", "phases"}
           THEN ReadLines(At(Header(s), Put(m, "has", m.has \cup ({s} \cap Section))), Printed(lines))
           ELSE At(h, m)
<1>1. PICK x \in Row : x = Header(s)
  BY HeaderIs
<1>2. <<x>> \in Seq(Row)
  BY One
<1>3. Printed(lines) \in Seq(Row)
  BY PrintedType
<1>4. ReadLines(At(h, m), Cat(<<x>>, Printed(lines))) = ReadLines(ReadLines(At(h, m), <<x>>), Printed(lines))
  <2>1. PICK y \in Seq(Row) : y = <<x>>
    BY <1>2
  <2>2. PICK p \in Seq(Row) : p = Printed(lines)
    BY <1>3
  <2>3. \A st : ReadLines(st, Cat(y, p)) = ReadLines(ReadLines(st, y), p)
    BY ReadCat
  <2> QED
    BY <2>1, <2>2, <2>3
<1>5. ReadLines(At(h, m), <<x>>) = ReadLine(At(h, m), x)
  BY ReadOne
<1>6. ReadLines(At(h, m), <<>>) = At(h, m)
  BY ReadNone
<1> QED
  BY <1>1, <1>4, <1>5, <1>6, AtHeader DEF Part, Cat

LEMMA PartStays ==
  ASSUME NEW d, NEW s \in Known \ {"phases"}, NEW lines \in Seq(Entry),
         NEW hs, NEW ph, NEW pl, NEW st \in Readers(hs, ph, pl)
  PROVE  ReadLines(st, Part(d, s, lines)) \in
           Readers(hs \cup ({s} \cap Section \cap d.has), ph, pl)
<1>1. PICK h \in Text \ {Header("phases")}, m \in Sums(hs, ph, pl) : st = At(h, m)
  BY DEF Readers
<1>2. CASE s \notin d.has \cup {"plan", "phases"}
  <2>1. hs \cup ({s} \cap Section \cap d.has) = hs
    BY <1>2
  <2> QED
    <3>1. ReadLines(At(h, m), Part(d, s, lines)) = At(h, m)
      <4>1. Part(d, s, lines) = <<>>
        BY <1>2 DEF Part
      <4> QED
        BY <4>1, ReadNone
    <3> QED
      BY <1>1, <2>1, <3>1
<1>3. CASE s \in d.has \cup {"plan", "phases"}
  <2>1. PICK z : z = hs \cup ({s} \cap Section \cap d.has)
    OBVIOUS
  <2>2. m.has \cup ({s} \cap Section) = z
    <3>1. m.has = hs
      BY SumsIs
    <3>2. "plan" \notin Section
      BY DEF Section
    <3> QED
      BY <1>3, <2>1, <3>1, <3>2
  <2>3. PICK n : n = Put(m, "has", z)
    OBVIOUS
  <2>4. n \in Sums(z, ph, pl)
    BY <2>3 DEF Put, Sums
  <2>5. PICK x \in Text \ {Header("phases")} : x = Header(s)
    BY HeaderIs, RowType
  <2>6. At(x, n) \in Readers(z, ph, pl)
    BY <2>4 DEF Readers
  <2>7. Printed(lines) \in Seq(Plain)
    BY PrintedType
  <2>8. ReadLines(At(x, n), Printed(lines)) \in Readers(z, ph, pl)
    BY <2>6, <2>7, PlainStays, TakeStays
  <2> QED
    BY <1>1, <1>3, <2>1, <2>2, <2>3, <2>5, <2>8, PartRead
<1> QED
  BY <1>2, <1>3

-----------------------------------------------------------------------------
(* The entries that are printed.                                           *)

LEMMA QuadSeq ==
  ASSUME NEW A, NEW x \in A, NEW y \in A, NEW z \in A, NEW w \in A
  PROVE  <<x, y, z, w>> \in Seq(A) /\ <<x, y, z, w>> = Add(<<x, y, z>>, w)
<1>0. <<x, y, z>> \in Seq(A) /\ Len(<<x, y, z>>) = 3
      /\ <<x, y, z>>[1] = x /\ <<x, y, z>>[2] = y /\ <<x, y, z>>[3] = z
  OBVIOUS
<1>1. PICK o \in Seq(A) : o = <<x, y, z>> /\ Len(o) = 3 /\ o[1] = x /\ o[2] = y /\ o[3] = z
  BY <1>0
<1>00. /\ <<x, y, z, w>> \in Seq(A) /\ Len(<<x, y, z, w>>) = 4
       /\ <<x, y, z, w>>[1] = x /\ <<x, y, z, w>>[2] = y /\ <<x, y, z, w>>[3] = z
       /\ <<x, y, z, w>>[4] = w
  OBVIOUS
<1>2. PICK s \in Seq(A) : s = <<x, y, z, w>> /\ Len(s) = 4 /\ s[1] = x /\ s[2] = y /\ s[3] = z /\ s[4] = w
  BY <1>00
<1>3. /\ Add(o, w) \in Seq(A) /\ Len(Add(o, w)) = Len(o) + 1 /\ Add(o, w)[Len(o) + 1] = w
      /\ \A i \in 1 .. Len(o) : Add(o, w)[i] = o[i]
  BY AddType
<1>4. PICK t \in Seq(A) : t = Add(o, w) /\ Len(t) = 4 /\ t[1] = x /\ t[2] = y /\ t[3] = z /\ t[4] = w
  <2>1. PICK t \in Seq(A) : t = Add(o, w)
    BY <1>3
  <2>2. Len(t) = 4 /\ t[4] = w
    BY <2>1, <1>1, <1>3
  <2>3. \A i \in 1 .. 3 : t[i] = o[i]
    BY <2>1, <1>1, <1>3
  <2>4. t[1] = x /\ t[2] = y /\ t[3] = z
    BY <2>3, <1>1
  <2> QED
    BY <2>1, <2>2, <2>4
<1>5. s = t
  <2>1. \A i \in 1 .. 4 : s[i] = t[i]
    BY <1>2, <1>4
  <2> QED
    BY <2>1, <1>2, <1>4, SeqEqual
<1> QED
  BY <1>1, <1>2, <1>4, <1>5

(* What is written of a row is a row.                                      *)
LEMMA MarkRow == \A k \in Mark \cup Word : k # "\n" => k \in Free(Token, "\n") /\ <<k>> \in Row
<1>1. ASSUME NEW k \in Mark \cup Word, k # "\n" PROVE k \in Free(Token, "\n") /\ <<k>> \in Row
  <2>1. k \in Free(Token, "\n")
    BY <1>1, FreeType DEF Token
  <2> QED
    BY <2>1, One DEF Row
<1> QED
  BY <1>1

LEMMA Separators ==
  /\ <<"\t">> \in Row /\ <<" ">> \in Row /\ <<" -> ">> \in Row /\ <<" (">> \in Row /\ <<")">> \in Row
  /\ <<" :: ">> \in Row /\ NoneMarker \in Row /\ Placeholder \in Row
  /\ <<",", " ">> \in Row /\ <<" ", "|", " ">> \in Row
<1>1. /\ "\t" \in Mark /\ " " \in Mark /\ " -> " \in Mark /\ " (" \in Mark /\ ")" \in Mark
      /\ " :: " \in Mark /\ "(none)" \in Mark /\ "(placeholder)" \in Mark /\ "," \in Mark /\ "|" \in Mark
  BY DEF Mark
<1>2. /\ <<"\t">> \in Row /\ <<" ">> \in Row /\ <<" -> ">> \in Row /\ <<" (">> \in Row /\ <<")">> \in Row
  BY <1>1, MarkRow
<1>3. /\ <<" :: ">> \in Row /\ NoneMarker \in Row /\ Placeholder \in Row
  BY <1>1, MarkRow DEF NoneMarker, Placeholder
<1>4. PICK a \in Free(Token, "\n") : a = ","
  BY <1>1, MarkRow
<1>5. PICK b \in Free(Token, "\n") : b = " "
  BY <1>1, MarkRow
<1>6. PICK c \in Free(Token, "\n") : c = "|"
  BY <1>1, MarkRow
<1>7. <<a, b>> \in Row /\ <<b, c, b>> \in Row
  BY PairIs, TripleSeq DEF Row
<1> QED
  BY <1>2, <1>3, <1>4, <1>5, <1>6, <1>7

LEMMA RowJoin ==
  ASSUME NEW p \in Seq(Row), NEW sep \in Row
  PROVE  Join(p, sep) \in Row
BY JoinType DEF Row

LEMMA JoinListType ==
  ASSUME NEW p \in Seq(Row)
  PROVE  JoinList(p) \in Row
BY RowJoin, Separators DEF JoinList

LEMMA FieldsType ==
  ASSUME NEW p \in Seq(Row)
  PROVE  Fields(p) \in Row
BY RowJoin, Separators DEF Fields

LEMMA FieldsProse ==
  ASSUME NEW p \in Seq(Row), p # <<>>, NEW t \in Prose
  PROVE  Fields(Add(p, t)) \in Prose
<1>1. PICK tab \in Row : tab = <<"\t">>
  BY Separators
<1>2. Row \subseteq Seq(Token) /\ t \in Seq(Token)
  BY RowType DEF Prose, Text
<1>3. p \in Seq(Seq(Token)) /\ tab \in Seq(Token)
  BY <1>2, SeqMonotonic
<1>4. Join(Add(p, t), tab) = Cat(Join(p, tab), Cat(tab, t))
  BY <1>2, <1>3, JoinAdd
<1>5. Cat(tab, t) \in Prose
  BY ProseCat
<1>6. Join(p, tab) \in Row
  BY RowJoin
<1>7. Cat(Join(p, tab), Cat(tab, t)) \in Prose
  BY <1>5, <1>6, ProseCat
<1> QED
  BY <1>1, <1>4, <1>7 DEF Fields

LEMMA TagType ==
  ASSUME NEW k \in Mark, k # "\n", NEW r \in Row
  PROVE  <<k>> \o r \in Row
<1>1. <<k>> \in Row
  BY MarkRow
<1>2. Cat(<<k>>, r) \in Row
  BY <1>1, RowCat
<1> QED
  BY <1>2 DEF Cat

LEMMA RefType ==
  ASSUME NEW e, e.child \in Row, e.parent \in Row, e.name \in Row
  PROVE  EdgeRef(e) \in Row
<1>1. PICK a \in Row : a = <<" -> ">>
  BY Separators
<1>2. PICK b \in Row : b = <<" (">>
  BY Separators
<1>3. PICK c \in Row : c = <<")">>
  BY Separators
<1>4. Cat(Cat(Cat(Cat(Cat(e.child, a), e.parent), b), e.name), c) \in Row
  BY RowCat
<1> QED
  BY <1>1, <1>2, <1>3, <1>4 DEF EdgeRef, Cat

(* The entries of every kind of record.                                    *)
LEMMA EntryIs ==
  /\ \A key \in Keys, val \in Prose : Line(key, val) \in Entry
  /\ \A key \in Keys, val \in Row : Line(key, val) \in Entry
<1>1. \A key \in Keys, val \in Prose : Line(key, val) \in Entry
  BY DEF Entry
<1> QED
  BY <1>1, RowProse

LEMMA ConstraintEntry ==
  ASSUME NEW key \in Keys, NEW c \in LooseConstraint
  PROVE  ConstraintLine(key, c) \in Entry
<1>1. c.kind \in Row /\ c.cls \in Row /\ c.name \in Row
  BY DEF LooseConstraint
<1>2. <<c.kind, c.cls, c.name>> \in Seq(Row)
  BY <1>1, TripleSeq
<1> QED
  BY <1>2, FieldsType, EntryIs DEF ConstraintLine

LEMMA DropEntry == \A c \in LooseConstraint : DropLine(c) \in Entry /\ OkLine(c) \in Entry
<1>1. "drop" \in Keys /\ "ok" \in Keys
  BY DEF Keys, Key
<1> QED
  BY <1>1, ConstraintEntry DEF DropLine, OkLine

LEMMA NodeEntry == \A n \in LooseNode : NodeLine(n) \in Entry
<1> SUFFICES ASSUME NEW n \in LooseNode PROVE NodeLine(n) \in Entry
  OBVIOUS
<1>1. /\ n.name \in Row /\ n.cs \in Mark /\ n.part \in Mark /\ n.cs # "\n" /\ n.part # "\n"
      /\ n.pk \in Row /\ n.unique \in Seq(Row)
      /\ n.fk \in Seq(Row) /\ n.partitions \in Seq(Row) /\ n.serials \in Seq(Row)
  BY DEF LooseNode, Mark
<1>2. /\ "cs=" \in Mark /\ "part=" \in Mark /\ "pk=" \in Mark /\ "uk=" \in Mark /\ "fk=" \in Mark
      /\ "partn=" \in Mark /\ "ser=" \in Mark
  BY DEF Mark
<1>3. PICK f2 \in Row : f2 = <<"cs=", n.cs>>
  <2>1. PICK a \in Free(Token, "\n") : a = "cs="
    BY <1>2, MarkRow
  <2>2. n.cs \in Free(Token, "\n")
    BY <1>1, MarkRow
  <2>3. <<a, n.cs>> \in Row
    BY <2>2, PairIs DEF Row
  <2> QED
    BY <2>1, <2>3
<1>4. PICK f3 \in Row : f3 = <<"part=", n.part>>
  <2>1. PICK a \in Free(Token, "\n") : a = "part="
    BY <1>2, MarkRow
  <2>2. n.part \in Free(Token, "\n")
    BY <1>1, MarkRow
  <2>3. <<a, n.part>> \in Row
    BY <2>2, PairIs DEF Row
  <2> QED
    BY <2>1, <2>3
<1>5. PICK f4 \in Row : f4 = <<"pk=">> \o n.pk
  BY <1>1, <1>2, TagType
<1>6. PICK f5 \in Row : f5 = <<"uk=">> \o JoinList(n.unique)
  BY <1>1, <1>2, TagType, JoinListType
<1>7. PICK f6 \in Row : f6 = <<"fk=">> \o JoinList(n.fk)
  BY <1>1, <1>2, TagType, JoinListType
<1>8. PICK f7 \in Row : f7 = <<"partn=">> \o JoinList(n.partitions)
  BY <1>1, <1>2, TagType, JoinListType
<1>9. PICK f8 \in Row : f8 = <<"ser=">> \o JoinList(n.serials)
  BY <1>1, <1>2, TagType, JoinListType
<1>10. PICK f1 \in Row : f1 = n.name
  BY <1>1
<1>11. <<f1, f2, f3, f4, f5, f6, f7, f8>> \in Seq(Row)
  OBVIOUS
<1>12. Fields(<<f1, f2, f3, f4, f5, f6, f7, f8>>) \in Row
  BY <1>11, FieldsType
<1>13. "gnode" \in Keys
  BY DEF Keys, Key
<1>14. Line("gnode", Fields(<<f1, f2, f3, f4, f5, f6, f7, f8>>)) \in Entry
  BY <1>12, <1>13, EntryIs
<1>15. NodeLine(n) = Line("gnode", Fields(<<f1, f2, f3, f4, f5, f6, f7, f8>>))
  BY <1>3, <1>4, <1>5, <1>6, <1>7, <1>8, <1>9, <1>10 DEF NodeLine
<1> QED
  BY <1>14, <1>15

LEMMA EdgeEntry == \A e \in LooseEdge : EdgeLine(e) \in Entry
<1> SUFFICES ASSUME NEW e \in LooseEdge PROVE EdgeLine(e) \in Entry
  OBVIOUS
<1>1. /\ e.child \in Row /\ e.parent \in Row /\ e.name \in Row
      /\ e.cols \in Seq(Row) /\ e.parentPk \in Seq(Row) /\ e.childPk \in Seq(Row)
  BY DEF LooseEdge
<1>2. "cc=" \in Mark /\ "ppk=" \in Mark /\ "cpk=" \in Mark
  BY DEF Mark
<1>3. PICK f4 \in Row : f4 = <<"cc=">> \o JoinList(e.cols)
  BY <1>1, <1>2, TagType, JoinListType
<1>4. PICK f5 \in Row : f5 = <<"ppk=">> \o JoinList(e.parentPk)
  BY <1>1, <1>2, TagType, JoinListType
<1>5. PICK f6 \in Row : f6 = <<"cpk=">> \o JoinList(e.childPk)
  BY <1>1, <1>2, TagType, JoinListType
<1>6. PICK f1 \in Row, f2 \in Row, f3 \in Row : f1 = e.child /\ f2 = e.parent /\ f3 = e.name
  BY <1>1
<1>7. <<f1, f2, f3, f4, f5, f6>> \in Seq(Row)
  OBVIOUS
<1>8. Fields(<<f1, f2, f3, f4, f5, f6>>) \in Row
  BY <1>7, FieldsType
<1>9. "gfk" \in Keys
  BY DEF Keys, Key
<1>10. Line("gfk", Fields(<<f1, f2, f3, f4, f5, f6>>)) \in Entry
  BY <1>8, <1>9, EntryIs
<1>11. EdgeLine(e) = Line("gfk", Fields(<<f1, f2, f3, f4, f5, f6>>))
  BY <1>3, <1>4, <1>5, <1>6 DEF EdgeLine
<1> QED
  BY <1>10, <1>11

LEMMA SuperEntry == \A s \in [child : Row, super : Row] : SuperLine(s) \in Entry
<1> SUFFICES ASSUME NEW s \in [child : Row, super : Row] PROVE SuperLine(s) \in Entry
  OBVIOUS
<1>1. <<s.child, s.super>> \in Seq(Row)
  BY PairIs
<1>2. "ginh" \in Keys
  BY DEF Keys, Key
<1> QED
  BY <1>1, <1>2, FieldsType, EntryIs DEF SuperLine

LEMMA CycleEntry == \A c \in Seq(Row) : CycleLine(c) \in Entry
<1>1. "cycle" \in Keys
  BY DEF Keys, Key
<1> QED
  BY <1>1, RowJoin, Separators, EntryIs DEF CycleLine

LEMMA FileEntry == \A f \in [file : Row, rows : Row, failed : Row] : FileLine(f) \in Entry
<1> SUFFICES ASSUME NEW f \in [file : Row, rows : Row, failed : Row] PROVE FileLine(f) \in Entry
  OBVIOUS
<1>1. <<f.file, f.rows, f.failed>> \in Seq(Row)
  BY TripleSeq
<1>2. "file" \in Keys
  BY DEF Keys, Key
<1>3. Join(<<f.file, f.rows, f.failed>>, <<" ">>) \in Row
  BY <1>1, RowJoin, Separators
<1> QED
  BY <1>2, <1>3, EntryIs DEF FileLine

LEMMA PendingEntries ==
  \A c \in LoosePending :
    /\ Line("fail", Fields(<<c.kind, c.cls, c.name, c.reason>>)) \in Entry
    /\ Line("fail_readd", OrNone(c.readd)) \in Entry
    /\ PendingLines(c) \in Seq(Entry)
<1> SUFFICES ASSUME NEW c \in LoosePending
    PROVE  /\ Line("fail", Fields(<<c.kind, c.cls, c.name, c.reason>>)) \in Entry
           /\ Line("fail_readd", OrNone(c.readd)) \in Entry
           /\ PendingLines(c) \in Seq(Entry)
  OBVIOUS
<1>1. c.kind \in Row /\ c.cls \in Row /\ c.name \in Row /\ c.reason \in Prose /\ c.readd \in Prose
  BY DEF LoosePending
<1>2. "fail" \in Keys /\ "fail_readd" \in Keys
  BY DEF Keys, Key
<1>3. Row \subseteq Seq(Token) /\ Prose \subseteq Seq(Token)
  BY RowType DEF Prose, Text
<1>4. PICK p \in Seq(Row) : p = <<c.kind, c.cls, c.name>> /\ p # <<>>
  <2>1. <<c.kind, c.cls, c.name>> \in Seq(Row)
    BY <1>1, TripleSeq
  <2>2. <<c.kind, c.cls, c.name>> # <<>>
    OBVIOUS
  <2> QED
    BY <2>1, <2>2
<1>5. <<c.kind, c.cls, c.name, c.reason>> = Add(p, c.reason)
  <2>1. c.kind \in Seq(Token) /\ c.cls \in Seq(Token) /\ c.name \in Seq(Token) /\ c.reason \in Seq(Token)
    BY <1>1, <1>3
  <2> QED
    BY <2>1, <1>4, QuadSeq
<1>6. Fields(<<c.kind, c.cls, c.name, c.reason>>) \in Prose
  BY <1>1, <1>4, <1>5, FieldsProse
<1>7. OrNone(c.readd) \in Prose
  BY <1>1, Separators, RowProse DEF OrNone
<1>8. PICK a \in Entry : a = Line("fail", Fields(<<c.kind, c.cls, c.name, c.reason>>))
  BY <1>2, <1>6, EntryIs
<1>9. PICK b \in Entry : b = Line("fail_readd", OrNone(c.readd))
  BY <1>2, <1>7, EntryIs
<1>10. <<a, b>> \in Seq(Entry)
  BY PairIs
<1> QED
  BY <1>8, <1>9, <1>10 DEF PendingLines

LEMMA IndexEntry == \A n \in Row : IndexLine(n) \in Entry
<1>1. "index" \in Keys
  BY DEF Keys, Key
<1> QED
  BY <1>1, EntryIs DEF IndexLine

LEMMA FailedEntry == \A f \in LooseFailed : FailedLine(f) \in Entry
<1> SUFFICES ASSUME NEW f \in LooseFailed PROVE FailedLine(f) \in Entry
  OBVIOUS
<1>1. f.name \in Row /\ f.reason \in Prose
  BY DEF LooseFailed
<1>2. Row \subseteq Seq(Token) /\ Prose \subseteq Seq(Token)
  BY RowType DEF Prose, Text
<1>3. PICK p \in Seq(Row) : p = <<f.name>> /\ p # <<>>
  BY <1>1, One
<1>4. <<f.name, f.reason>> = Add(<<f.name>>, f.reason)
  <2>1. f.name \in Seq(Token) /\ f.reason \in Seq(Token)
    BY <1>1, <1>2
  <2> QED
    BY <2>1, PairIs
<1>5. Fields(<<f.name, f.reason>>) \in Prose
  BY <1>1, <1>3, <1>4, FieldsProse
<1>6. "index_fail" \in Keys
  BY DEF Keys, Key
<1> QED
  BY <1>5, <1>6, EntryIs DEF FailedLine

LEMMA CascadeEntry == \A w \in LooseCascade : CascadeLine(w) \in Entry
<1> SUFFICES ASSUME NEW w \in LooseCascade PROVE CascadeLine(w) \in Entry
  OBVIOUS
<1>1. w.child \in Row /\ w.parent \in Row /\ w.name \in Row /\ w.reason \in Row
  BY DEF LooseCascade
<1>2. <<w.child, w.parent, w.name, w.reason>> \in Seq(Row)
  BY <1>1, QuadSeq
<1>6. "withhold" \in Keys
  BY DEF Keys, Key
<1> QED
  BY <1>2, <1>6, FieldsType, EntryIs DEF CascadeLine

LooseStatus == [child : Row, parent : Row, name : Row, status : Row]

LEMMA StatusEntry == \A e \in LooseStatus : StatusLine(e) \in Entry
<1> SUFFICES ASSUME NEW e \in LooseStatus PROVE StatusLine(e) \in Entry
  OBVIOUS
<1>1. EdgeRef(e) \in Row /\ e.status \in Row
  BY RefType DEF LooseStatus
<1>2. PICK a \in Row : a = <<" :: ">>
  BY Separators
<1>3. Cat(Cat(EdgeRef(e), a), e.status) \in Row
  BY <1>1, RowCat
<1>4. "edge" \in Keys
  BY DEF Keys, Key
<1> QED
  BY <1>2, <1>3, <1>4, EntryIs DEF StatusLine, Cat

LEMMA DefineEntry == \A e \in Triples : DefineLine(e) \in Entry
<1> SUFFICES ASSUME NEW e \in Triples PROVE DefineLine(e) \in Entry
  OBVIOUS
<1>1. EdgeRef(e) \in Row
  BY RefType DEF Triples
<1>4. "define" \in Keys
  BY DEF Keys, Key
<1> QED
  BY <1>1, <1>4, EntryIs DEF DefineLine

LEMMA WithheldEntries ==
  \A w \in LooseHeld :
    /\ Line("withhold", EdgeRef(w) \o <<" :: ">> \o w.reason) \in Entry
    /\ Line("readd", w.readd) \in Entry
    /\ WithheldLines(w) \in Seq(Entry)
<1> SUFFICES ASSUME NEW w \in LooseHeld
    PROVE  /\ Line("withhold", EdgeRef(w) \o <<" :: ">> \o w.reason) \in Entry
           /\ Line("readd", w.readd) \in Entry
           /\ WithheldLines(w) \in Seq(Entry)
  OBVIOUS
<1>1. EdgeRef(w) \in Row /\ w.reason \in Prose /\ w.readd \in Prose
  BY RefType DEF LooseHeld
<1>2. PICK a \in Row : a = <<" :: ">>
  BY Separators
<1>3. Cat(Cat(EdgeRef(w), a), w.reason) \in Prose
  BY <1>1, RowCat, ProseCat
<1>4. "withhold" \in Keys /\ "readd" \in Keys
  BY DEF Keys, Key
<1>5. PICK x \in Entry : x = Line("withhold", EdgeRef(w) \o <<" :: ">> \o w.reason)
  BY <1>2, <1>3, <1>4, EntryIs DEF Cat
<1>6. PICK y \in Entry : y = Line("readd", w.readd)
  BY <1>1, <1>4, EntryIs
<1>7. <<x, y>> \in Seq(Entry)
  BY PairIs
<1> QED
  BY <1>5, <1>6, <1>7 DEF WithheldLines

LooseUnrefreshed == [cls : Row, reason : Prose]

LEMMA UnrefreshedEntry == \A f \in LooseUnrefreshed : UnrefreshedLine(f) \in Entry
<1> SUFFICES ASSUME NEW f \in LooseUnrefreshed PROVE UnrefreshedLine(f) \in Entry
  OBVIOUS
<1>1. f.cls \in Row /\ f.reason \in Prose
  BY DEF LooseUnrefreshed
<1>2. PICK a \in Row : a = <<" :: ">>
  BY Separators
<1>3. Cat(Cat(f.cls, a), f.reason) \in Prose
  BY <1>1, <1>2, RowCat, ProseCat
<1>4. "fail" \in Keys
  BY DEF Keys, Key
<1> QED
  BY <1>2, <1>3, <1>4, EntryIs DEF UnrefreshedLine, Cat

(* One function for each kind of record.                                   *)
DropF == [c \in LooseConstraint |-> DropLine(c)]
OkF == [c \in LooseConstraint |-> OkLine(c)]
NodeF == [n \in LooseNode |-> NodeLine(n)]
EdgeF == [e \in LooseEdge |-> EdgeLine(e)]
SuperF == [s \in [child : Row, super : Row] |-> SuperLine(s)]
CycleF == [c \in Seq(Row) |-> CycleLine(c)]
FileF == [f \in [file : Row, rows : Row, failed : Row] |-> FileLine(f)]
PendingF == [c \in LoosePending |-> PendingLines(c)]
IndexF == [n \in Row |-> IndexLine(n)]
FailedF == [f \in LooseFailed |-> FailedLine(f)]
CascadeF == [w \in LooseCascade |-> CascadeLine(w)]
StatusF == [e \in LooseStatus |-> StatusLine(e)]
DefineF == [e \in Triples |-> DefineLine(e)]
WithheldF == [w \in LooseHeld |-> WithheldLines(w)]
UnrefreshedF == [f \in LooseUnrefreshed |-> UnrefreshedLine(f)]

LEMMA LinesAre ==
  /\ \A p \in Seq(LooseConstraint) : LinesOf(p, DropLine) = Image(p, DropF)
  /\ \A p \in Seq(LooseConstraint) : LinesOf(p, OkLine) = Image(p, OkF)
  /\ \A p \in Seq(LooseNode) : LinesOf(p, NodeLine) = Image(p, NodeF)
  /\ \A p \in Seq(LooseEdge) : LinesOf(p, EdgeLine) = Image(p, EdgeF)
  /\ \A p \in Seq([child : Row, super : Row]) : LinesOf(p, SuperLine) = Image(p, SuperF)
  /\ \A p \in Seq(Seq(Row)) : LinesOf(p, CycleLine) = Image(p, CycleF)
  /\ \A p \in Seq([file : Row, rows : Row, failed : Row]) : LinesOf(p, FileLine) = Image(p, FileF)
  /\ \A p \in Seq(LoosePending) : LinesOf(p, PendingLines) = Image(p, PendingF)
  /\ \A p \in Seq(Row) : LinesOf(p, IndexLine) = Image(p, IndexF)
  /\ \A p \in Seq(LooseFailed) : LinesOf(p, FailedLine) = Image(p, FailedF)
  /\ \A p \in Seq(LooseCascade) : LinesOf(p, CascadeLine) = Image(p, CascadeF)
  /\ \A p \in Seq(LooseStatus) : LinesOf(p, StatusLine) = Image(p, StatusF)
  /\ \A p \in Seq(Triples) : LinesOf(p, DefineLine) = Image(p, DefineF)
  /\ \A p \in Seq(LooseHeld) : LinesOf(p, WithheldLines) = Image(p, WithheldF)
  /\ \A p \in Seq(LooseUnrefreshed) : LinesOf(p, UnrefreshedLine) = Image(p, UnrefreshedF)
<1>0. \A A, p : p \in Seq(A) => \A i \in DOMAIN p : p[i] \in A
  BY LenProperties, ElementOfSeq
<1>1. \A p \in Seq(LooseConstraint) : LinesOf(p, DropLine) = Image(p, DropF)
  BY <1>0 DEF LinesOf, Image, DropF
<1>2. \A p \in Seq(LooseConstraint) : LinesOf(p, OkLine) = Image(p, OkF)
  BY <1>0 DEF LinesOf, Image, OkF
<1>3. \A p \in Seq(LooseNode) : LinesOf(p, NodeLine) = Image(p, NodeF)
  BY <1>0 DEF LinesOf, Image, NodeF
<1>4. \A p \in Seq(LooseEdge) : LinesOf(p, EdgeLine) = Image(p, EdgeF)
  BY <1>0 DEF LinesOf, Image, EdgeF
<1>5. \A p \in Seq([child : Row, super : Row]) : LinesOf(p, SuperLine) = Image(p, SuperF)
  BY <1>0 DEF LinesOf, Image, SuperF
<1>6. \A p \in Seq(Seq(Row)) : LinesOf(p, CycleLine) = Image(p, CycleF)
  BY <1>0 DEF LinesOf, Image, CycleF
<1>7. \A p \in Seq([file : Row, rows : Row, failed : Row]) : LinesOf(p, FileLine) = Image(p, FileF)
  BY <1>0 DEF LinesOf, Image, FileF
<1>8. \A p \in Seq(LoosePending) : LinesOf(p, PendingLines) = Image(p, PendingF)
  BY <1>0 DEF LinesOf, Image, PendingF
<1>9. \A p \in Seq(Row) : LinesOf(p, IndexLine) = Image(p, IndexF)
  BY <1>0 DEF LinesOf, Image, IndexF
<1>10. \A p \in Seq(LooseFailed) : LinesOf(p, FailedLine) = Image(p, FailedF)
  BY <1>0 DEF LinesOf, Image, FailedF
<1>11. \A p \in Seq(LooseCascade) : LinesOf(p, CascadeLine) = Image(p, CascadeF)
  BY <1>0 DEF LinesOf, Image, CascadeF
<1>12. \A p \in Seq(LooseStatus) : LinesOf(p, StatusLine) = Image(p, StatusF)
  BY <1>0 DEF LinesOf, Image, StatusF
<1>13. \A p \in Seq(Triples) : LinesOf(p, DefineLine) = Image(p, DefineF)
  BY <1>0 DEF LinesOf, Image, DefineF
<1>14. \A p \in Seq(LooseHeld) : LinesOf(p, WithheldLines) = Image(p, WithheldF)
  BY <1>0 DEF LinesOf, Image, WithheldF
<1>15. \A p \in Seq(LooseUnrefreshed) : LinesOf(p, UnrefreshedLine) = Image(p, UnrefreshedF)
  BY <1>0 DEF LinesOf, Image, UnrefreshedF
<1> QED
  BY <1>1, <1>2, <1>3, <1>4, <1>5, <1>6, <1>7, <1>8, <1>9, <1>10, <1>11, <1>12, <1>13, <1>14, <1>15

LEMMA LineTypes ==
  /\ DropF \in [LooseConstraint -> Entry] /\ OkF \in [LooseConstraint -> Entry]
  /\ NodeF \in [LooseNode -> Entry] /\ EdgeF \in [LooseEdge -> Entry]
  /\ SuperF \in [[child : Row, super : Row] -> Entry] /\ CycleF \in [Seq(Row) -> Entry]
  /\ FileF \in [[file : Row, rows : Row, failed : Row] -> Entry]
  /\ PendingF \in [LoosePending -> Seq(Entry)] /\ IndexF \in [Row -> Entry]
  /\ FailedF \in [LooseFailed -> Entry] /\ CascadeF \in [LooseCascade -> Entry]
  /\ StatusF \in [LooseStatus -> Entry] /\ DefineF \in [Triples -> Entry]
  /\ WithheldF \in [LooseHeld -> Seq(Entry)] /\ UnrefreshedF \in [LooseUnrefreshed -> Entry]
<1>1. DropF \in [LooseConstraint -> Entry] /\ OkF \in [LooseConstraint -> Entry]
  BY DropEntry DEF DropF, OkF
<1>2. NodeF \in [LooseNode -> Entry]
  BY NodeEntry DEF NodeF
<1>3. EdgeF \in [LooseEdge -> Entry]
  BY EdgeEntry DEF EdgeF
<1>4. SuperF \in [[child : Row, super : Row] -> Entry]
  BY SuperEntry DEF SuperF
<1>5. CycleF \in [Seq(Row) -> Entry]
  BY CycleEntry DEF CycleF
<1>6. FileF \in [[file : Row, rows : Row, failed : Row] -> Entry]
  BY FileEntry DEF FileF
<1>7. PendingF \in [LoosePending -> Seq(Entry)]
  BY PendingEntries DEF PendingF
<1>8. IndexF \in [Row -> Entry]
  BY IndexEntry DEF IndexF
<1>9. FailedF \in [LooseFailed -> Entry]
  BY FailedEntry DEF FailedF
<1>10. CascadeF \in [LooseCascade -> Entry]
  BY CascadeEntry DEF CascadeF
<1>11. StatusF \in [LooseStatus -> Entry]
  BY StatusEntry DEF StatusF
<1>12. DefineF \in [Triples -> Entry]
  BY DefineEntry DEF DefineF
<1>13. WithheldF \in [LooseHeld -> Seq(Entry)]
  BY WithheldEntries DEF WithheldF
<1>14. UnrefreshedF \in [LooseUnrefreshed -> Entry]
  BY UnrefreshedEntry DEF UnrefreshedF
<1> QED
  BY <1>1, <1>2, <1>3, <1>4, <1>5, <1>6, <1>7, <1>8, <1>9, <1>10, <1>11, <1>12, <1>13, <1>14

-----------------------------------------------------------------------------
(* The lines of each section.                                              *)

(* The lines of every section are entries.                                 *)
LEMMA ImageEntries ==
  ASSUME NEW R, NEW F \in [R -> Entry], NEW p \in Seq(R)
  PROVE  Image(p, F) \in Seq(Entry)
BY ImageIs

LEMMA LinesEntries ==
  /\ \A p \in Seq(LooseConstraint) : LinesOf(p, DropLine) \in Seq(Entry)
  /\ \A p \in Seq(LooseConstraint) : LinesOf(p, OkLine) \in Seq(Entry)
  /\ \A p \in Seq(LooseNode) : LinesOf(p, NodeLine) \in Seq(Entry)
  /\ \A p \in Seq(LooseEdge) : LinesOf(p, EdgeLine) \in Seq(Entry)
  /\ \A p \in Seq([child : Row, super : Row]) : LinesOf(p, SuperLine) \in Seq(Entry)
  /\ \A p \in Seq(Seq(Row)) : LinesOf(p, CycleLine) \in Seq(Entry)
  /\ \A p \in Seq([file : Row, rows : Row, failed : Row]) : LinesOf(p, FileLine) \in Seq(Entry)
  /\ \A p \in Seq(Row) : LinesOf(p, IndexLine) \in Seq(Entry)
  /\ \A p \in Seq(LooseFailed) : LinesOf(p, FailedLine) \in Seq(Entry)
  /\ \A p \in Seq(LooseCascade) : LinesOf(p, CascadeLine) \in Seq(Entry)
  /\ \A p \in Seq(LooseStatus) : LinesOf(p, StatusLine) \in Seq(Entry)
  /\ \A p \in Seq(Triples) : LinesOf(p, DefineLine) \in Seq(Entry)
  /\ \A p \in Seq(LooseUnrefreshed) : LinesOf(p, UnrefreshedLine) \in Seq(Entry)
<1>1. ASSUME NEW p \in Seq(LooseConstraint) PROVE LinesOf(p, DropLine) \in Seq(Entry)
  <2>1. Image(p, DropF) \in Seq(Entry)
    <3>1. DropF \in [LooseConstraint -> Entry]
      BY LineTypes
    <3> QED
      BY <3>1, ImageEntries
  <2>2. LinesOf(p, DropLine) = Image(p, DropF)
    BY LinesAre
  <2> QED
    BY <2>1, <2>2
<1>2. ASSUME NEW p \in Seq(LooseConstraint) PROVE LinesOf(p, OkLine) \in Seq(Entry)
  <2>1. Image(p, OkF) \in Seq(Entry)
    <3>1. OkF \in [LooseConstraint -> Entry]
      BY LineTypes
    <3> QED
      BY <3>1, ImageEntries
  <2>2. LinesOf(p, OkLine) = Image(p, OkF)
    BY LinesAre
  <2> QED
    BY <2>1, <2>2
<1>3. ASSUME NEW p \in Seq(LooseNode) PROVE LinesOf(p, NodeLine) \in Seq(Entry)
  <2>1. Image(p, NodeF) \in Seq(Entry)
    <3>1. NodeF \in [LooseNode -> Entry]
      BY LineTypes
    <3> QED
      BY <3>1, ImageEntries
  <2>2. LinesOf(p, NodeLine) = Image(p, NodeF)
    BY LinesAre
  <2> QED
    BY <2>1, <2>2
<1>4. ASSUME NEW p \in Seq(LooseEdge) PROVE LinesOf(p, EdgeLine) \in Seq(Entry)
  <2>1. Image(p, EdgeF) \in Seq(Entry)
    <3>1. EdgeF \in [LooseEdge -> Entry]
      BY LineTypes
    <3> QED
      BY <3>1, ImageEntries
  <2>2. LinesOf(p, EdgeLine) = Image(p, EdgeF)
    BY LinesAre
  <2> QED
    BY <2>1, <2>2
<1>5. ASSUME NEW p \in Seq([child : Row, super : Row]) PROVE LinesOf(p, SuperLine) \in Seq(Entry)
  <2>1. Image(p, SuperF) \in Seq(Entry)
    <3>1. SuperF \in [[child : Row, super : Row] -> Entry]
      BY LineTypes
    <3> QED
      BY <3>1, ImageEntries
  <2>2. LinesOf(p, SuperLine) = Image(p, SuperF)
    BY LinesAre
  <2> QED
    BY <2>1, <2>2
<1>6. ASSUME NEW p \in Seq(Seq(Row)) PROVE LinesOf(p, CycleLine) \in Seq(Entry)
  <2>1. Image(p, CycleF) \in Seq(Entry)
    <3>1. CycleF \in [Seq(Row) -> Entry]
      BY LineTypes
    <3> QED
      BY <3>1, ImageEntries
  <2>2. LinesOf(p, CycleLine) = Image(p, CycleF)
    BY LinesAre
  <2> QED
    BY <2>1, <2>2
<1>7. ASSUME NEW p \in Seq([file : Row, rows : Row, failed : Row]) PROVE LinesOf(p, FileLine) \in Seq(Entry)
  <2>1. Image(p, FileF) \in Seq(Entry)
    <3>1. FileF \in [[file : Row, rows : Row, failed : Row] -> Entry]
      BY LineTypes
    <3> QED
      BY <3>1, ImageEntries
  <2>2. LinesOf(p, FileLine) = Image(p, FileF)
    BY LinesAre
  <2> QED
    BY <2>1, <2>2
<1>8. ASSUME NEW p \in Seq(Row) PROVE LinesOf(p, IndexLine) \in Seq(Entry)
  <2>1. Image(p, IndexF) \in Seq(Entry)
    <3>1. IndexF \in [Row -> Entry]
      BY LineTypes
    <3> QED
      BY <3>1, ImageEntries
  <2>2. LinesOf(p, IndexLine) = Image(p, IndexF)
    BY LinesAre
  <2> QED
    BY <2>1, <2>2
<1>9. ASSUME NEW p \in Seq(LooseFailed) PROVE LinesOf(p, FailedLine) \in Seq(Entry)
  <2>1. Image(p, FailedF) \in Seq(Entry)
    <3>1. FailedF \in [LooseFailed -> Entry]
      BY LineTypes
    <3> QED
      BY <3>1, ImageEntries
  <2>2. LinesOf(p, FailedLine) = Image(p, FailedF)
    BY LinesAre
  <2> QED
    BY <2>1, <2>2
<1>10. ASSUME NEW p \in Seq(LooseCascade) PROVE LinesOf(p, CascadeLine) \in Seq(Entry)
  <2>1. Image(p, CascadeF) \in Seq(Entry)
    <3>1. CascadeF \in [LooseCascade -> Entry]
      BY LineTypes
    <3> QED
      BY <3>1, ImageEntries
  <2>2. LinesOf(p, CascadeLine) = Image(p, CascadeF)
    BY LinesAre
  <2> QED
    BY <2>1, <2>2
<1>11. ASSUME NEW p \in Seq(LooseStatus) PROVE LinesOf(p, StatusLine) \in Seq(Entry)
  <2>1. Image(p, StatusF) \in Seq(Entry)
    <3>1. StatusF \in [LooseStatus -> Entry]
      BY LineTypes
    <3> QED
      BY <3>1, ImageEntries
  <2>2. LinesOf(p, StatusLine) = Image(p, StatusF)
    BY LinesAre
  <2> QED
    BY <2>1, <2>2
<1>12. ASSUME NEW p \in Seq(Triples) PROVE LinesOf(p, DefineLine) \in Seq(Entry)
  <2>1. Image(p, DefineF) \in Seq(Entry)
    <3>1. DefineF \in [Triples -> Entry]
      BY LineTypes
    <3> QED
      BY <3>1, ImageEntries
  <2>2. LinesOf(p, DefineLine) = Image(p, DefineF)
    BY LinesAre
  <2> QED
    BY <2>1, <2>2
<1>13. ASSUME NEW p \in Seq(LooseUnrefreshed) PROVE LinesOf(p, UnrefreshedLine) \in Seq(Entry)
  <2>1. Image(p, UnrefreshedF) \in Seq(Entry)
    <3>1. UnrefreshedF \in [LooseUnrefreshed -> Entry]
      BY LineTypes
    <3> QED
      BY <3>1, ImageEntries
  <2>2. LinesOf(p, UnrefreshedLine) = Image(p, UnrefreshedF)
    BY LinesAre
  <2> QED
    BY <2>1, <2>2
<1> QED
  BY <1>1, <1>2, <1>3, <1>4, <1>5, <1>6, <1>7, <1>8, <1>9, <1>10, <1>11, <1>12, <1>13

LEMMA BlockEntries ==
  ASSUME NEW R, NEW F \in [R -> Seq(Entry)], NEW p \in Seq(R)
  PROVE  FlattenSeq(Image(p, F)) \in Seq(Entry)
<1>1. Image(p, F) \in Seq(Seq(Entry))
  BY ImageIs
<1> QED
  BY <1>1, FlattenType

LEMMA SingleEntry ==
  ASSUME NEW key \in Keys, NEW val \in Row
  PROVE  <<Line(key, val)>> \in Seq(Entry)
<1>1. PICK l \in Entry : l = Line(key, val)
  BY EntryIs
<1> QED
  BY <1>1, One

LEMMA OrNoneType == \A t \in Row : OrNone(t) \in Row
BY Separators DEF OrNone

LEMMA PlanEntries ==
  ASSUME NEW m, m.graph \in LooseGraph
  PROVE  PlanLines(m) \in Seq(Entry)
<1>1. m.graph.levels \in Seq(Seq(Row))
  BY DEF LooseGraph
<1>2. PICK lv \in Seq(Seq(Row)) : lv = m.graph.levels
  BY <1>1
<1>3. PICK q : q = [i \in DOMAIN lv |-> JoinList(lv[i])]
  OBVIOUS
<1>4. q \in Seq(Row)
  <2>1. Len(lv) \in Nat /\ DOMAIN lv = 1 .. Len(lv)
    BY LenProperties
  <2>2. \A i \in 1 .. Len(lv) : lv[i] \in Seq(Row)
    BY ElementOfSeq
  <2>3. \A i \in 1 .. Len(lv) : JoinList(lv[i]) \in Row
    BY <2>2, JoinListType
  <2>4. q = [i \in 1 .. Len(lv) |-> JoinList(lv[i])]
    BY <1>3, <2>1
  <2> QED
    BY <2>1, <2>3, <2>4, IsASeq
<1>5. Join(q, <<" ", "|", " ">>) \in Row
  BY <1>4, RowJoin, Separators
<1>6. PICK v \in Row : v = IF ~m.planned THEN Placeholder ELSE OrNone(Join(q, <<" ", "|", " ">>))
  BY <1>5, OrNoneType, Separators
<1>7. PlanLines(m) = <<Line("planned_order", v)>>
  BY <1>2, <1>3, <1>6 DEF PlanLines
<1>8. "planned_order" \in Keys
  BY DEF Keys, Key
<1> QED
  BY <1>7, <1>8, SingleEntry

LEMMA GraphEntries ==
  ASSUME NEW g \in LooseGraph
  PROVE  GraphLines(g) \in Seq(Entry)
<1>1. /\ g.nodes \in Seq(LooseNode) /\ g.edges \in Seq(LooseEdge)
      /\ g.supers \in Seq([child : Row, super : Row]) /\ g.cycles \in Seq(Seq(Row))
      /\ g.skipped \in Seq(Row)
  BY DEF LooseGraph
<1>2. PICK a \in Seq(Entry) : a = IF g.cycles = <<>> THEN <<Line("cycles", NoneMarker)>>
                                  ELSE LinesOf(g.cycles, CycleLine)
  <2>1. "cycles" \in Keys
    BY DEF Keys, Key
  <2>2. <<Line("cycles", NoneMarker)>> \in Seq(Entry)
    BY <2>1, SingleEntry, Separators
  <2>3. LinesOf(g.cycles, CycleLine) \in Seq(Entry)
    BY <1>1, LinesEntries
  <2> QED
    BY <2>2, <2>3
<1>3. PICK b \in Seq(Entry) : b = <<Line("skipped_classes", OrNone(JoinList(g.skipped)))>>
  <2>1. "skipped_classes" \in Keys
    BY DEF Keys, Key
  <2>2. OrNone(JoinList(g.skipped)) \in Row
    BY <1>1, OrNoneType, JoinListType
  <2> QED
    BY <2>1, <2>2, SingleEntry
<1>4. PICK c \in Seq(Entry) : c = LinesOf(g.nodes, NodeLine)
  BY <1>1, LinesEntries
<1>5. PICK d \in Seq(Entry) : d = LinesOf(g.edges, EdgeLine)
  BY <1>1, LinesEntries
<1>6. PICK e \in Seq(Entry) : e = LinesOf(g.supers, SuperLine)
  BY <1>1, LinesEntries
<1>7. Cat(Cat(Cat(Cat(a, b), c), d), e) \in Seq(Entry)
  BY CatType
<1>8. GraphLines(g) = Cat(Cat(Cat(Cat(a, b), c), d), e)
  BY <1>2, <1>3, <1>4, <1>5, <1>6 DEF GraphLines, Cat
<1> QED
  BY <1>7, <1>8

LEMMA StripEntries == \A dropped \in Seq(LooseConstraint) : StripLines(dropped) \in Seq(Entry)
BY LinesEntries DEF StripLines

LEMMA LoadEntries ==
  ASSUME NEW l \in LooseLoad
  PROVE  LoadLines(l) \in Seq(Entry)
<1>1. /\ l.rows \in Row /\ l.failed \in Row
      /\ l.files \in Seq([file : Row, rows : Row, failed : Row])
  BY DEF LooseLoad
<1>2. "total_rows" \in Keys /\ "total_failed" \in Keys
  BY DEF Keys, Key
<1>3. PICK a \in Entry : a = Line("total_rows", l.rows)
  BY <1>1, <1>2, EntryIs
<1>4. PICK b \in Entry : b = Line("total_failed", l.failed)
  BY <1>1, <1>2, EntryIs
<1>5. PICK c \in Seq(Entry) : c = <<a, b>>
  BY PairIs
<1>6. PICK d \in Seq(Entry) : d = LinesOf(l.files, FileLine)
  BY <1>1, LinesEntries
<1>7. Cat(c, d) \in Seq(Entry)
  BY CatType
<1>8. LoadLines(l) = Cat(c, d)
  BY <1>3, <1>4, <1>5, <1>6 DEF LoadLines, Cat
<1> QED
  BY <1>7, <1>8

LEMMA RebuildEntries ==
  ASSUME NEW r \in LooseRebuild
  PROVE  RebuildLines(r) \in Seq(Entry)
<1>1. /\ r.rebuilt \in Seq(LooseConstraint) /\ r.pending \in Seq(LoosePending)
      /\ r.indexes \in Seq(Row) /\ r.failed \in Seq(LooseFailed)
      /\ r.withheld \in Seq(LooseCascade)
  BY DEF LooseRebuild, LoosePending, LooseFailed, LooseCascade
<1>2. PICK a \in Seq(Entry) : a = LinesOf(r.rebuilt, OkLine)
  BY <1>1, LinesEntries
<1>3. PICK b \in Seq(Entry) : b = FlattenSeq(LinesOf(r.pending, PendingLines))
  <2>1. PICK p \in Seq(LoosePending) : p = r.pending
    BY <1>1
  <2>2. PendingF \in [LoosePending -> Seq(Entry)]
    BY LineTypes
  <2>3. FlattenSeq(Image(p, PendingF)) \in Seq(Entry)
    BY <2>2, BlockEntries
  <2>4. LinesOf(p, PendingLines) = Image(p, PendingF)
    BY LinesAre
  <2> QED
    BY <2>1, <2>3, <2>4
<1>4. PICK c \in Seq(Entry) : c = LinesOf(r.indexes, IndexLine)
  BY <1>1, LinesEntries
<1>5. PICK d \in Seq(Entry) : d = LinesOf(r.failed, FailedLine)
  BY <1>1, LinesEntries
<1>6. PICK e \in Seq(Entry) : e = LinesOf(r.withheld, CascadeLine)
  BY <1>1, LinesEntries
<1>7. Cat(Cat(Cat(Cat(a, b), c), d), e) \in Seq(Entry)
  BY CatType
<1>8. RebuildLines(r) = Cat(Cat(Cat(Cat(a, b), c), d), e)
  BY <1>2, <1>3, <1>4, <1>5, <1>6 DEF RebuildLines, Cat
<1> QED
  BY <1>7, <1>8

LEMMA ValidateEntries == \A v \in LooseValidate : ValidateLines(v) \in Seq(Entry)
<1>1. LooseValidate = Seq(LooseStatus)
  BY DEF LooseValidate, LooseStatus
<1> QED
  BY <1>1, LinesEntries DEF ValidateLines

LEMMA FkdefineEntries ==
  ASSUME NEW f \in LooseFkdefine
  PROVE  FkdefineLines(f) \in Seq(Entry)
<1>1. f.defined \in Seq(Triples) /\ f.withheld \in Seq(LooseHeld)
  BY DEF LooseFkdefine, LooseHeld
<1>2. PICK a \in Seq(Entry) : a = LinesOf(f.defined, DefineLine)
  BY <1>1, LinesEntries
<1>3. PICK b \in Seq(Entry) : b = FlattenSeq(LinesOf(f.withheld, WithheldLines))
  BY <1>1, LinesAre, LineTypes, BlockEntries
<1>4. Cat(a, b) \in Seq(Entry)
  BY CatType
<1>5. FkdefineLines(f) = Cat(a, b)
  BY <1>2, <1>3 DEF FkdefineLines, Cat
<1> QED
  BY <1>4, <1>5

LEMMA StatsEntries ==
  ASSUME NEW s \in LooseStats
  PROVE  StatsLines(s) \in Seq(Entry)
<1>1. s.updated \in Row /\ s.failed \in Seq(LooseUnrefreshed)
  BY DEF LooseStats, LooseUnrefreshed
<1>2. "updated" \in Keys
  BY DEF Keys, Key
<1>3. PICK a \in Seq(Entry) : a = <<Line("updated", s.updated)>>
  BY <1>1, <1>2, SingleEntry
<1>4. PICK b \in Seq(Entry) : b = LinesOf(s.failed, UnrefreshedLine)
  BY <1>1, LinesEntries
<1>5. Cat(a, b) \in Seq(Entry)
  BY CatType
<1>6. StatsLines(s) = Cat(a, b)
  BY <1>3, <1>4 DEF StatsLines, Cat
<1> QED
  BY <1>5, <1>6

LEMMA TriggersEntries ==
  ASSUME NEW t \in LooseTriggers
  PROVE  TriggersLines(t) \in Seq(Entry)
<1>1. OrNone(t.file) \in Row /\ t.defined \in Row /\ t.failed \in Row
  BY OrNoneType DEF LooseTriggers
<1>2. "trigger_file" \in Keys /\ "defined" \in Keys /\ "failed" \in Keys
  BY DEF Keys, Key
<1>3. PICK a \in Entry : a = Line("trigger_file", OrNone(t.file))
  BY <1>1, <1>2, EntryIs
<1>4. PICK b \in Entry : b = Line("defined", t.defined)
  BY <1>1, <1>2, EntryIs
<1>5. PICK c \in Entry : c = Line("failed", t.failed)
  BY <1>1, <1>2, EntryIs
<1>6. <<a, b, c>> \in Seq(Entry)
  BY TripleSeq
<1>7. TriggersLines(t) = <<a, b, c>>
  BY <1>3, <1>4, <1>5 DEF TriggersLines
<1> QED
  BY <1>6, <1>7

-----------------------------------------------------------------------------
(* Reading a whole manifest.                                               *)

PhaseName == {"discovered", "defined", "graph", "plan", "stripped", "loaded", "rebuilt",
              "fk_defined", "stats_updated", "done", "end"}

LEMMA NothingIs == Loose(Nothing) /\ Nothing \in Sums({}, "discovered", FALSE)
<1>1. \A A : <<>> \in Seq(A)
  BY EmptySeq
<1>2. IsSum(Nothing)
  BY DEF Nothing, IsSum, Field9
<1>3. NoGraph \in LooseGraph
  BY <1>1 DEF NoGraph, LooseGraph
<1>4. Nothing.strip = <<>> /\ Nothing.validate = <<>> /\ Nothing.graph = NoGraph
  BY DEF Nothing
<1>5. Nothing.load \in LooseLoad
  BY <1>1, RowNone DEF Nothing, LooseLoad
<1>6. Nothing.rebuild \in LooseRebuild
  BY <1>1 DEF Nothing, LooseRebuild
<1>7. Nothing.fkdefine \in LooseFkdefine
  BY <1>1 DEF Nothing, LooseFkdefine
<1>8. Nothing.stats \in LooseStats
  BY <1>1, RowNone DEF Nothing, LooseStats
<1>9. Nothing.triggers \in LooseTriggers
  BY RowNone DEF Nothing, LooseTriggers
<1>10. Loose(Nothing)
  BY <1>1, <1>2, <1>3, <1>4, <1>5, <1>6, <1>7, <1>8, <1>9 DEF Loose, LooseValidate
<1>11. Nothing.has = {} /\ Nothing.phase = "discovered" /\ Nothing.planned = FALSE
  BY DEF Nothing
<1> QED
  BY <1>10, <1>11, SumsIs

LEMMA PhaseIs ==
  ASSUME NEW ph \in PhaseName
  PROVE  /\ <<ph>> \in Row /\ Trim(<<ph>>) = <<ph>>
         /\ Line("current", <<ph>>) \in Entry
         /\ Printed(<<Line("current", <<ph>>)>>) = <<Line("current", <<ph>>)>>
<1>1. ph \in Free(Token, "\n") /\ ph \notin Blank
  <2>1. ph \in Mark /\ ph # "\n" /\ ph \notin Blank
    BY DEF PhaseName, Mark, Blank
  <2> QED
    BY <2>1, MarkRow
<1>2. PICK t \in Row : t = <<ph>> /\ Len(t) = 1 /\ t[1] = ph
  BY <1>1, One DEF Row
<1>3. Tight(t)
  BY <1>1, <1>2 DEF Tight
<1>4. Trim(t) = t
  BY <1>3, TrimTight DEF Row
<1>5. "current" \in Keys
  BY DEF Keys, Key
<1>6. PICK l : l = Line("current", t)
  OBVIOUS
<1>7. l \in Entry
  BY <1>5, <1>6, EntryIs
<1>8. l \in Text
  BY <1>7, EntryLines
<1>9. l \in Plain
  BY <1>5, <1>6, EntryPlain
<1>10. Split(l, "\n") = <<l>>
  BY <1>9, RowType DEF Plain
<1>11. Printed(<<l>>) = <<l>>
  BY <1>8, <1>10, PrintedOne
<1> QED
  BY <1>2, <1>4, <1>6, <1>7, <1>11

LEMMA ReadersHas ==
  ASSUME NEW hs, NEW ph, NEW pl, NEW h \in Text \ {Header("phases")}, NEW m \in Sums(hs, ph, pl)
  PROVE  At(h, m) \in Readers(hs, ph, pl)
BY DEF Readers

LEMMA PhasesPut ==
  ASSUME NEW d, NEW ph \in PhaseName, NEW h, NEW m, IsSum(m)
  PROVE  ReadLines(At(h, m), Part(d, "phases", <<Line("current", <<ph>>)>>))
           = At(Header("phases"), Put(m, "phase", ph))
<1>2. PICK t \in Row : t = <<ph>> /\ Trim(t) = t /\ t[1] = ph
  BY PhaseIs
<1>3. PICK l \in Entry : l = Line("current", t) /\ Printed(<<l>>) = <<l>>
  BY <1>2, PhaseIs
<1>4. "phases" \in Known /\ "phases" \notin Section
  BY DEF Known, Section
<1>5. PICK n : n = Put(m, "has", m.has \cup ({"phases"} \cap Section))
  OBVIOUS
<1>7. n = m
  <2>1. m.has \cup ({"phases"} \cap Section) = m.has
    BY <1>4
  <2>2. IsSum(m) /\ "has" \in Field9
    BY DEF Field9
  <2>3. Put(m, "has", m.has) = m
    BY <2>2, PutIs
  <2> QED
    BY <1>5, <2>1, <2>3
<1>8. PICK ls \in Seq(Entry) : ls = <<l>>
  BY One
<1>9. ReadLines(At(h, m), Part(d, "phases", <<l>>)) = ReadLines(At(Header("phases"), n), <<l>>)
  <2>1. ReadLines(At(h, m), Part(d, "phases", ls))
          = ReadLines(At(Header("phases"), Put(m, "has", m.has \cup ({"phases"} \cap Section))), Printed(ls))
    <3>1. PICK s \in Known : s = "phases"
      BY <1>4
    <3>2. s \in d.has \cup {"plan", "phases"}
      BY <3>1
    <3>3. ReadLines(At(h, m), Part(d, s, ls))
            = ReadLines(At(Header(s), Put(m, "has", m.has \cup ({s} \cap Section))), Printed(ls))
      BY <3>2, PartRead
    <3> QED
      BY <3>1, <3>3
  <2>2. Printed(ls) = ls
    BY <1>3, <1>8
  <2> QED
    BY <1>5, <1>8, <2>1, <2>2
<1>10. ReadLines(At(Header("phases"), n), <<l>>) = ReadLine(At(Header("phases"), n), l)
  BY ReadOne
<1>11. "current" \in Keys
  BY DEF Keys, Key
<1>12. t \in Text
  BY RowType
<1>13. ReadLine(At(Header("phases"), n), l) = At(Header("phases"), ReadEntry(m, Header("phases"), "current", t))
  BY <1>2, <1>3, <1>7, <1>11, <1>12, AtLine
<1>14. ReadEntry(m, Header("phases"), "current", t) = Put(m, "phase", ph)
  <2>1. /\ Header("phases") # Header("plan") /\ Header("phases") # Header("graph")
        /\ Header("phases") # Header("strip") /\ Header("phases") # Header("load")
        /\ Header("phases") # Header("rebuild") /\ Header("phases") # Header("validate")
        /\ Header("phases") # Header("fkdefine") /\ Header("phases") # Header("stats")
        /\ Header("phases") # Header("triggers")
    BY HeaderIs
  <2>2. ReadEntry(m, Header("phases"), "current", t) = ReadPhases(m, "current", t)
    BY <2>1 DEF ReadEntry
  <2> QED
    BY <1>2, <2>2 DEF ReadPhases, Put
<1> QED
  BY <1>2, <1>3, <1>9, <1>10, <1>13, <1>14

LEMMA PhasesRead ==
  ASSUME NEW d, NEW ph \in PhaseName, NEW hs, NEW p0, NEW pl, NEW st \in Readers(hs, p0, pl)
  PROVE  ReadLines(st, Part(d, "phases", <<Line("current", <<ph>>)>>)).m \in Sums(hs, ph, pl)
<1>1. PICK h \in Text \ {Header("phases")}, m \in Sums(hs, p0, pl) : st = At(h, m)
  BY DEF Readers
<1>2. IsSum(m)
  BY SumsIs DEF Loose
<1>3. Put(m, "phase", ph) \in Sums(hs, ph, pl)
  BY DEF Put, Sums
<1> QED
  BY <1>1, <1>2, <1>3, PhasesPut, AtIs

LEMMA PartsEntries ==
  ASSUME NEW d, Loose(d), d.phase \in PhaseName
  PROVE  /\ PlanLines(d) \in Seq(Entry) /\ GraphLines(d.graph) \in Seq(Entry)
         /\ StripLines(d.strip) \in Seq(Entry) /\ LoadLines(d.load) \in Seq(Entry)
         /\ RebuildLines(d.rebuild) \in Seq(Entry) /\ ValidateLines(d.validate) \in Seq(Entry)
         /\ FkdefineLines(d.fkdefine) \in Seq(Entry) /\ StatsLines(d.stats) \in Seq(Entry)
         /\ TriggersLines(d.triggers) \in Seq(Entry) /\ <<Line("current", <<d.phase>>)>> \in Seq(Entry)
<1>1. /\ d.graph \in LooseGraph /\ d.strip \in Seq(LooseConstraint) /\ d.load \in LooseLoad
      /\ d.rebuild \in LooseRebuild /\ d.validate \in LooseValidate /\ d.fkdefine \in LooseFkdefine
      /\ d.stats \in LooseStats /\ d.triggers \in LooseTriggers
  BY DEF Loose
<1>2. PlanLines(d) \in Seq(Entry)
  BY <1>1, PlanEntries
<1>3. PICK l \in Entry : l = Line("current", <<d.phase>>)
  BY PhaseIs
<1>4. <<Line("current", <<d.phase>>)>> \in Seq(Entry)
  BY <1>3, One
<1> QED
  BY <1>1, <1>2, <1>4, GraphEntries, StripEntries, LoadEntries, RebuildEntries, ValidateEntries,
     FkdefineEntries, StatsEntries, TriggersEntries

(* The parts of the text are read one after the other.                     *)
LEMMA RenderRead ==
  ASSUME NEW d, Loose(d), d.phase \in PhaseName
  PROVE  \E s1, s2, s3, s4, s5, s6, s7, s8, s9 :
           /\ s1 = ReadLines(At(<<>>, Nothing), Part(d, "plan", PlanLines(d)))
           /\ s2 = ReadLines(s1, Part(d, "graph", GraphLines(d.graph)))
           /\ s3 = ReadLines(s2, Part(d, "strip", StripLines(d.strip)))
           /\ s4 = ReadLines(s3, Part(d, "load", LoadLines(d.load)))
           /\ s5 = ReadLines(s4, Part(d, "rebuild", RebuildLines(d.rebuild)))
           /\ s6 = ReadLines(s5, Part(d, "validate", ValidateLines(d.validate)))
           /\ s7 = ReadLines(s6, Part(d, "fkdefine", FkdefineLines(d.fkdefine)))
           /\ s8 = ReadLines(s7, Part(d, "stats", StatsLines(d.stats)))
           /\ s9 = ReadLines(s8, Part(d, "triggers", TriggersLines(d.triggers)))
           /\ Read(Render(d)) = ReadLines(s9, Part(d, "phases", <<Line("current", <<d.phase>>)>>)).m
<1>0. /\ "plan" \in Known /\ "graph" \in Known /\ "strip" \in Known
      /\ "load" \in Known /\ "rebuild" \in Known
      /\ "validate" \in Known /\ "fkdefine" \in Known
      /\ "stats" \in Known /\ "triggers" \in Known /\ "phases" \in Known
  BY DEF Known, Section
<1>3. PICK p1 \in Seq(Row) : p1 = Part(d, "plan", PlanLines(d))
  BY <1>0, PartsEntries, PartType
<1>4. PICK p2 \in Seq(Row) : p2 = Part(d, "graph", GraphLines(d.graph))
  BY <1>0, PartsEntries, PartType
<1>5. PICK p3 \in Seq(Row) : p3 = Part(d, "strip", StripLines(d.strip))
  BY <1>0, PartsEntries, PartType
<1>6. PICK p4 \in Seq(Row) : p4 = Part(d, "load", LoadLines(d.load))
  BY <1>0, PartsEntries, PartType
<1>7. PICK p5 \in Seq(Row) : p5 = Part(d, "rebuild", RebuildLines(d.rebuild))
  BY <1>0, PartsEntries, PartType
<1>8. PICK p6 \in Seq(Row) : p6 = Part(d, "validate", ValidateLines(d.validate))
  BY <1>0, PartsEntries, PartType
<1>9. PICK p7 \in Seq(Row) : p7 = Part(d, "fkdefine", FkdefineLines(d.fkdefine))
  BY <1>0, PartsEntries, PartType
<1>10. PICK p8 \in Seq(Row) : p8 = Part(d, "stats", StatsLines(d.stats))
  BY <1>0, PartsEntries, PartType
<1>11. PICK p9 \in Seq(Row) : p9 = Part(d, "triggers", TriggersLines(d.triggers))
  BY <1>0, PartsEntries, PartType
<1>12. PICK p10 \in Seq(Row) : p10 = Part(d, "phases", <<Line("current", <<d.phase>>)>>)
  BY <1>0, PartsEntries, PartType
<1>13. Render(d) = Cat(Cat(Cat(Cat(Cat(Cat(Cat(Cat(Cat(p1, p2), p3), p4), p5), p6), p7), p8), p9), p10)
  BY <1>3, <1>4, <1>5, <1>6, <1>7, <1>8, <1>9, <1>10, <1>11, <1>12 DEF Render, Cat
<1>14. /\ Cat(p1, p2) \in Seq(Row)
       /\ Cat(Cat(p1, p2), p3) \in Seq(Row)
       /\ Cat(Cat(Cat(p1, p2), p3), p4) \in Seq(Row)
       /\ Cat(Cat(Cat(Cat(p1, p2), p3), p4), p5) \in Seq(Row)
       /\ Cat(Cat(Cat(Cat(Cat(p1, p2), p3), p4), p5), p6) \in Seq(Row)
       /\ Cat(Cat(Cat(Cat(Cat(Cat(p1, p2), p3), p4), p5), p6), p7) \in Seq(Row)
       /\ Cat(Cat(Cat(Cat(Cat(Cat(Cat(p1, p2), p3), p4), p5), p6), p7), p8) \in Seq(Row)
       /\ Cat(Cat(Cat(Cat(Cat(Cat(Cat(Cat(p1, p2), p3), p4), p5), p6), p7), p8), p9) \in Seq(Row)
  BY CatType
<1>15. PICK s0 : s0 = At(<<>>, Nothing)
  OBVIOUS
<1>16. ReadLines(s0, Render(d)) =
         ReadLines(ReadLines(ReadLines(ReadLines(ReadLines(ReadLines(ReadLines(ReadLines(ReadLines(ReadLines(s0, p1), p2), p3), p4), p5), p6), p7), p8), p9), p10)
  <2>0. \A a, b \in Seq(Row) : ReadLines(s0, Cat(a, b)) = ReadLines(ReadLines(s0, a), b)
    BY ReadCat
  <2>2. ReadLines(s0, Cat(p1, p2)) = ReadLines(ReadLines(s0, p1), p2)
    BY <1>14, <2>0
  <2>3. ReadLines(s0, Cat(Cat(p1, p2), p3)) = ReadLines(ReadLines(ReadLines(s0, p1), p2), p3)
    BY <1>14, <2>0, <2>2
  <2>4. ReadLines(s0, Cat(Cat(Cat(p1, p2), p3), p4)) = ReadLines(ReadLines(ReadLines(ReadLines(s0, p1), p2), p3), p4)
    BY <1>14, <2>0, <2>3
  <2>5. ReadLines(s0, Cat(Cat(Cat(Cat(p1, p2), p3), p4), p5)) = ReadLines(ReadLines(ReadLines(ReadLines(ReadLines(s0, p1), p2), p3), p4), p5)
    BY <1>14, <2>0, <2>4
  <2>6. ReadLines(s0, Cat(Cat(Cat(Cat(Cat(p1, p2), p3), p4), p5), p6)) = ReadLines(ReadLines(ReadLines(ReadLines(ReadLines(ReadLines(s0, p1), p2), p3), p4), p5), p6)
    BY <1>14, <2>0, <2>5
  <2>7. ReadLines(s0, Cat(Cat(Cat(Cat(Cat(Cat(p1, p2), p3), p4), p5), p6), p7)) = ReadLines(ReadLines(ReadLines(ReadLines(ReadLines(ReadLines(ReadLines(s0, p1), p2), p3), p4), p5), p6), p7)
    BY <1>14, <2>0, <2>6
  <2>8. ReadLines(s0, Cat(Cat(Cat(Cat(Cat(Cat(Cat(p1, p2), p3), p4), p5), p6), p7), p8)) = ReadLines(ReadLines(ReadLines(ReadLines(ReadLines(ReadLines(ReadLines(ReadLines(s0, p1), p2), p3), p4), p5), p6), p7), p8)
    BY <1>14, <2>0, <2>7
  <2>9. ReadLines(s0, Cat(Cat(Cat(Cat(Cat(Cat(Cat(Cat(p1, p2), p3), p4), p5), p6), p7), p8), p9)) = ReadLines(ReadLines(ReadLines(ReadLines(ReadLines(ReadLines(ReadLines(ReadLines(ReadLines(s0, p1), p2), p3), p4), p5), p6), p7), p8), p9)
    BY <1>14, <2>0, <2>8
  <2>10. ReadLines(s0, Cat(Cat(Cat(Cat(Cat(Cat(Cat(Cat(Cat(p1, p2), p3), p4), p5), p6), p7), p8), p9), p10)) = ReadLines(ReadLines(ReadLines(ReadLines(ReadLines(ReadLines(ReadLines(ReadLines(ReadLines(ReadLines(s0, p1), p2), p3), p4), p5), p6), p7), p8), p9), p10)
    BY <1>14, <2>0, <2>9
  <2> QED
    BY <1>13, <2>10
<1>17. Read(Render(d)) = ReadLines(s0, Render(d)).m
  BY <1>15 DEF Read, At
<1>18. PICK s1, s2, s3, s4, s5, s6, s7, s8, s9 :
         /\ s1 = ReadLines(s0, p1) /\ s2 = ReadLines(s1, p2) /\ s3 = ReadLines(s2, p3)
         /\ s4 = ReadLines(s3, p4) /\ s5 = ReadLines(s4, p5) /\ s6 = ReadLines(s5, p6)
         /\ s7 = ReadLines(s6, p7) /\ s8 = ReadLines(s7, p8) /\ s9 = ReadLines(s8, p9)
  OBVIOUS
<1>19. Read(Render(d)) = ReadLines(s9, p10).m
  BY <1>16, <1>17, <1>18
<1> QED
  BY <1>3, <1>4, <1>5, <1>6, <1>7, <1>8, <1>9, <1>10, <1>11, <1>12, <1>15, <1>18, <1>19

LEMMA ReadRender ==
  ASSUME NEW d, Loose(d), d.has \subseteq Section, d.phase \in PhaseName
  PROVE  Read(Render(d)) \in Sums(d.has, d.phase, FALSE)
<1>0. /\ "plan" \in Known \ {"phases"} /\ "graph" \in Known \ {"phases"} /\ "strip" \in Known \ {"phases"}
      /\ "load" \in Known \ {"phases"} /\ "rebuild" \in Known \ {"phases"}
      /\ "validate" \in Known \ {"phases"} /\ "fkdefine" \in Known \ {"phases"}
      /\ "stats" \in Known \ {"phases"} /\ "triggers" \in Known \ {"phases"}
  BY DEF Known, Section
<1>1. PICK s0 : s0 = At(<<>>, Nothing)
  OBVIOUS
<1>2. PICK s1, s2, s3, s4, s5, s6, s7, s8, s9 :
         /\ s1 = ReadLines(s0, Part(d, "plan", PlanLines(d)))
         /\ s2 = ReadLines(s1, Part(d, "graph", GraphLines(d.graph)))
         /\ s3 = ReadLines(s2, Part(d, "strip", StripLines(d.strip)))
         /\ s4 = ReadLines(s3, Part(d, "load", LoadLines(d.load)))
         /\ s5 = ReadLines(s4, Part(d, "rebuild", RebuildLines(d.rebuild)))
         /\ s6 = ReadLines(s5, Part(d, "validate", ValidateLines(d.validate)))
         /\ s7 = ReadLines(s6, Part(d, "fkdefine", FkdefineLines(d.fkdefine)))
         /\ s8 = ReadLines(s7, Part(d, "stats", StatsLines(d.stats)))
         /\ s9 = ReadLines(s8, Part(d, "triggers", TriggersLines(d.triggers)))
         /\ Read(Render(d)) = ReadLines(s9, Part(d, "phases", <<Line("current", <<d.phase>>)>>)).m
  BY <1>1, RenderRead
<1>17. s0 \in Readers({}, "discovered", FALSE)
  <2>1. PICK e \in Text : e = <<>>
    BY EmptyText
  <2>2. e # Header("phases")
    BY <2>1, HeaderHead
  <2>3. PICK n \in Sums({}, "discovered", FALSE) : n = Nothing
    BY NothingIs
  <2>4. PICK x \in Text \ {Header("phases")} : x = e
    BY <2>1, <2>2
  <2>5. At(x, n) \in Readers({}, "discovered", FALSE)
    BY ReadersHas
  <2> QED
    BY <1>1, <2>1, <2>3, <2>4, <2>5
<1>18. PICK h0 : h0 = {}
  OBVIOUS
<1>19. PICK h1 : h1 = h0 \cup ({"plan"} \cap Section \cap d.has)
  OBVIOUS
<1>20. PICK h2 : h2 = h1 \cup ({"graph"} \cap Section \cap d.has)
  OBVIOUS
<1>21. PICK h3 : h3 = h2 \cup ({"strip"} \cap Section \cap d.has)
  OBVIOUS
<1>22. PICK h4 : h4 = h3 \cup ({"load"} \cap Section \cap d.has)
  OBVIOUS
<1>23. PICK h5 : h5 = h4 \cup ({"rebuild"} \cap Section \cap d.has)
  OBVIOUS
<1>24. PICK h6 : h6 = h5 \cup ({"validate"} \cap Section \cap d.has)
  OBVIOUS
<1>25. PICK h7 : h7 = h6 \cup ({"fkdefine"} \cap Section \cap d.has)
  OBVIOUS
<1>26. PICK h8 : h8 = h7 \cup ({"stats"} \cap Section \cap d.has)
  OBVIOUS
<1>27. PICK h9 : h9 = h8 \cup ({"triggers"} \cap Section \cap d.has)
  OBVIOUS
<1>28. h9 = d.has
  BY <1>18, <1>19, <1>20, <1>21, <1>22, <1>23, <1>24, <1>25, <1>26, <1>27 DEF Section
<1>29. s1 \in Readers(h1, "discovered", FALSE)
  BY <1>0, <1>2, <1>17, <1>18, <1>19, PartsEntries, PartStays
<1>30. s2 \in Readers(h2, "discovered", FALSE)
  BY <1>0, <1>2, <1>29, <1>20, PartsEntries, PartStays
<1>31. s3 \in Readers(h3, "discovered", FALSE)
  BY <1>0, <1>2, <1>30, <1>21, PartsEntries, PartStays
<1>32. s4 \in Readers(h4, "discovered", FALSE)
  BY <1>0, <1>2, <1>31, <1>22, PartsEntries, PartStays
<1>33. s5 \in Readers(h5, "discovered", FALSE)
  BY <1>0, <1>2, <1>32, <1>23, PartsEntries, PartStays
<1>34. s6 \in Readers(h6, "discovered", FALSE)
  BY <1>0, <1>2, <1>33, <1>24, PartsEntries, PartStays
<1>35. s7 \in Readers(h7, "discovered", FALSE)
  BY <1>0, <1>2, <1>34, <1>25, PartsEntries, PartStays
<1>36. s8 \in Readers(h8, "discovered", FALSE)
  BY <1>0, <1>2, <1>35, <1>26, PartsEntries, PartStays
<1>37. s9 \in Readers(h9, "discovered", FALSE)
  BY <1>0, <1>2, <1>36, <1>27, PartsEntries, PartStays
<1> QED
  BY <1>2, <1>28, <1>37, PhasesRead

-----------------------------------------------------------------------------
(* What the phases hand over.                                              *)

LEMMA TailCat ==
  ASSUME NEW A, NEW a \in A, NEW x \in Seq(A)
  PROVE  Tail(Cat(<<a>>, x)) = x
<1>1. PICK o \in Seq(A) : o = <<a>> /\ Len(o) = 1
  BY One
<1>2. PICK c \in Seq(A) : c = Cat(o, x)
  BY CatType
<1>3. /\ Len(c) = 1 + Len(x)
      /\ \A i \in 1 .. 1 + Len(x) : c[i] = IF i <= 1 THEN o[i] ELSE x[i - 1]
  BY <1>1, <1>2, CatType
<1>4. Len(x) \in Nat
  BY LenProperties
<1>5. c # <<>>
  BY <1>3, <1>4
<1>6. Tail(c) \in Seq(A) /\ Len(Tail(c)) = Len(x) /\ \A i \in 1 .. Len(x) : Tail(c)[i] = c[i + 1]
  BY <1>3, <1>4, <1>5, HeadTailProperties
<1>7. ASSUME NEW i \in 1 .. Len(x) PROVE c[i + 1] = x[i]
  <2>1. i + 1 \in 1 .. 1 + Len(x) /\ ~(i + 1 <= 1) /\ (i + 1) - 1 = i
    BY <1>4
  <2> QED
    BY <2>1, <1>3
<1>8. PICK y \in Seq(A) : y = Tail(c)
  BY <1>6
<1>9. y = x
  BY <1>4, <1>6, <1>7, <1>8, SeqEqual
<1> QED
  BY <1>1, <1>2, <1>8, <1>9

LEMMA WordRow == /\ Seq(Free(Word, "\n")) \subseteq Row /\ Seq(Word) \subseteq Text
                 /\ Seq(Seq(Free(Word, "\n"))) \subseteq Seq(Row)
<1>1. Free(Word, "\n") \subseteq Free(Token, "\n")
  BY FreeType DEF Token
<1>2. Seq(Free(Word, "\n")) \subseteq Row
  BY <1>1, SeqMonotonic DEF Row
<1>3. Word \subseteq Token
  BY DEF Token
<1> QED
  BY <1>2, <1>3, SeqMonotonic DEF Text

LEMMA IdentifierRow ==
  ASSUME NEW t \in Identifier
  PROVE  t \in Row /\ t # <<>> /\ Trim(t) = t
<1>1. t \in Seq(Word) /\ t # <<>> /\ Trim(t) = t /\ "\n" \notin ToSet(t)
  BY DEF Identifier
<1>2. Len(t) \in Nat /\ DOMAIN t = 1 .. Len(t) /\ \A i \in 1 .. Len(t) : t[i] \in Word
  BY <1>1, LenProperties, ElementOfSeq
<1>3. \A i \in 1 .. Len(t) : t[i] # "\n"
  BY <1>1, <1>2 DEF ToSet
<1>4. \A i \in 1 .. Len(t) : t[i] \in Free(Word, "\n")
  BY <1>2, <1>3, FreeType
<1>5. t = [i \in 1 .. Len(t) |-> t[i]]
  BY <1>1, <1>2
<1>6. t \in Seq(Free(Word, "\n"))
  BY <1>2, <1>4, <1>5, IsASeq
<1> QED
  BY <1>1, <1>6, WordRow

LEMMA IdentifiersRow ==
  /\ Identifier \subseteq Row /\ Seq(Identifier) \subseteq Seq(Row)
  /\ Seq(Seq(Identifier) \ {<<>>}) \subseteq Seq(Seq(Row))
<1>1. Identifier \subseteq Row
  BY IdentifierRow
<1>2. Seq(Identifier) \subseteq Seq(Row)
  BY <1>1, SeqMonotonic
<1>3. Seq(Identifier) \ {<<>>} \subseteq Seq(Row)
  BY <1>2
<1> QED
  BY <1>1, <1>2, <1>3, SeqMonotonic

LEMMA StatementProse ==
  ASSUME NEW t \in Statement
  PROVE  t \in Prose
<1>1. t \in Seq(Word) /\ \A line \in ToSet(Tail(Split(t, "\n"))) : Foreign(line)
  BY DEF Statement
<1>2. CASE t \in Seq(Free(Word, "\n"))
  BY <1>2, WordRow, RowProse
<1>3. CASE t \notin Seq(Free(Word, "\n"))
  <2>0. PICK n : n = "\n"
    OBVIOUS
  <2>1. PICK a \in Seq(Free(Word, n)), b \in Seq(Word) : n \in Word /\ t = Cat(Add(a, n), b)
    BY <1>1, <1>3, <2>0, FirstSep
  <2>2. Split(t, n) = Cat(<<a>>, Split(b, n))
    BY <2>1, SplitFirst
  <2>3. Split(b, n) \in Seq(Seq(Free(Word, n)))
    BY SplitType
  <2>4. Tail(Split(t, n)) = Split(b, n)
    BY <2>2, <2>3, TailCat
  <2>5. PICK p \in Seq(Row) : p = Split(b, n)
    BY <2>0, <2>3, WordRow
  <2>6. Len(p) \in Nat /\ DOMAIN p = 1 .. Len(p) /\ \A i \in 1 .. Len(p) : p[i] \in Row
    BY LenProperties, ElementOfSeq
  <2>7. \A i \in 1 .. Len(p) : Foreign(p[i])
    BY <1>1, <2>0, <2>4, <2>5, <2>6 DEF ToSet
  <2>8. \A i \in 1 .. Len(p) : p[i] \in ForeignRow
    BY <2>6, <2>7 DEF ForeignRow
  <2>9. p = [i \in 1 .. Len(p) |-> p[i]]
    BY <2>6
  <2>10. p \in Seq(ForeignRow)
    BY <2>6, <2>8, <2>9, IsASeq
  <2>11. a \in Row /\ b \in Text /\ t \in Text
    BY <1>1, <2>0, WordRow
  <2> QED
    BY <2>0, <2>1, <2>5, <2>10, <2>11 DEF Prose
<1> QED
  BY <1>2, <1>3

LEMMA NumberRow == \A t \in Number : t \in Row /\ t # <<>> /\ Trim(t) = t
<1> SUFFICES ASSUME NEW t \in Number PROVE t \in Row /\ t # <<>> /\ Trim(t) = t
  OBVIOUS
<1>1. PICK w \in Word \ Blank : t = <<w>>
  BY DEF Number
<1>2. w \in Free(Token, "\n")
  BY FreeType DEF Token, Blank
<1>3. PICK x \in Row : x = <<w>> /\ Len(x) = 1 /\ x[1] = w /\ x # <<>>
  BY <1>2, One DEF Row
<1>4. Tight(x)
  BY <1>3 DEF Tight
<1>5. Trim(x) = x
  BY <1>4, TrimTight DEF Row
<1> QED
  BY <1>1, <1>3, <1>5

LEMMA KindRow == \A k \in {<<"fk">>, <<"unique">>, <<"pk">>} : k \in Row
<1>1. "fk" \in Mark /\ "unique" \in Mark /\ "pk" \in Mark
  BY DEF Mark
<1> QED
  BY <1>1, MarkRow

LEMMA ConstraintLoose == ConstraintType \subseteq LooseConstraint /\ Seq(ConstraintType) \subseteq Seq(LooseConstraint)
<1>1. ConstraintType \subseteq LooseConstraint
  BY KindRow, IdentifiersRow DEF ConstraintType, LooseConstraint
<1> QED
  BY <1>1, SeqMonotonic

LEMMA GraphLoose == GraphType \subseteq LooseGraph
<1>1. NodeType \subseteq LooseNode
  BY IdentifiersRow, RowNone DEF NodeType, LooseNode
<1>2. EdgeType \subseteq LooseEdge
  BY IdentifiersRow DEF EdgeType, LooseEdge
<1>3. [child : Identifier, super : Identifier] \subseteq [child : Row, super : Row]
  BY IdentifiersRow
<1>4. /\ Seq(NodeType) \subseteq Seq(LooseNode) /\ Seq(EdgeType) \subseteq Seq(LooseEdge)
      /\ Seq([child : Identifier, super : Identifier]) \subseteq Seq([child : Row, super : Row])
  BY <1>1, <1>2, <1>3, SeqMonotonic
<1> QED
  BY <1>4, IdentifiersRow DEF GraphType, LooseGraph

LEMMA LoadLoose == LoadType \subseteq LooseLoad
<1>1. [file : Identifier, rows : Number, failed : Number] \subseteq [file : Row, rows : Row, failed : Row]
  BY IdentifiersRow, NumberRow
<1>2. Seq([file : Identifier, rows : Number, failed : Number]) \subseteq Seq([file : Row, rows : Row, failed : Row])
  BY <1>1, SeqMonotonic
<1> QED
  BY <1>2, NumberRow DEF LoadType, LooseLoad

LEMMA ReasonProse == \A t \in Reason : t \in Prose
BY StatementProse DEF Reason

LEMMA RebuildLoose == RebuildType \subseteq LooseRebuild
<1> DEFINE
  Ks == {<<"fk">>, <<"unique">>, <<"pk">>}
  Ps == [kind : Ks, cls : Identifier, name : Identifier, reason : Reason, readd : Statement]
  Fs == [name : Identifier, reason : Reason]
  Ws == [child : Identifier, parent : Identifier, name : Identifier, reason : Identifier]
<1>1. Ps \subseteq LoosePending
  <2> SUFFICES ASSUME NEW x \in Ps PROVE x \in LoosePending
    OBVIOUS
  <2>1. x.kind \in Row
    BY KindRow
  <2> QED
    BY <2>1, IdentifiersRow, ReasonProse, StatementProse DEF LoosePending
<1>2. Fs \subseteq LooseFailed
  BY IdentifiersRow, ReasonProse DEF LooseFailed
<1>3. Ws \subseteq LooseCascade
  BY IdentifiersRow DEF LooseCascade
<1>4. Seq(Ps) \subseteq Seq(LoosePending) /\ Seq(Fs) \subseteq Seq(LooseFailed) /\ Seq(Ws) \subseteq Seq(LooseCascade)
  BY <1>1, <1>2, <1>3, SeqMonotonic
<1> QED
  BY <1>4, IdentifiersRow, ConstraintLoose DEF RebuildType, LooseRebuild, LoosePending, LooseFailed, LooseCascade

LEMMA FkLoose ==
  ASSUME NEW w \in FkType
  PROVE  /\ w.edges \in LooseValidate
         /\ [defined |-> w.defined, withheld |-> w.withheld] \in LooseFkdefine
<1> DEFINE
  Es == [child : Identifier, parent : Identifier, name : Identifier, status : Identifier]
  Ds == [child : Identifier, parent : Identifier, name : Identifier]
  Hs == [child : Identifier, parent : Identifier, name : Identifier, reason : Identifier,
         readd : Statement]
<1>1. Es \subseteq LooseStatus
  BY IdentifiersRow DEF LooseStatus
<1>2. Ds \subseteq Triples
  BY IdentifiersRow DEF Triples
<1>3. Hs \subseteq LooseHeld
  <2>1. \A t \in Identifier : t \in Prose
    BY IdentifiersRow, RowProse
  <2> QED
    BY <2>1, IdentifiersRow, StatementProse DEF LooseHeld
<1>4. Seq(Es) \subseteq Seq(LooseStatus) /\ Seq(Ds) \subseteq Seq(Triples) /\ Seq(Hs) \subseteq Seq(LooseHeld)
  BY <1>1, <1>2, <1>3, SeqMonotonic
<1>5. w.edges \in Seq(Es) /\ w.defined \in Seq(Ds) /\ w.withheld \in Seq(Hs)
  BY DEF FkType
<1> QED
  BY <1>4, <1>5 DEF LooseValidate, LooseFkdefine, LooseStatus, LooseHeld

LEMMA StatLoose == StatType \subseteq LooseStats
<1>1. [cls : Identifier, reason : Reason] \subseteq LooseUnrefreshed
  BY IdentifiersRow, ReasonProse DEF LooseUnrefreshed
<1>2. Seq([cls : Identifier, reason : Reason]) \subseteq Seq(LooseUnrefreshed)
  BY <1>1, SeqMonotonic
<1> QED
  BY <1>2, NumberRow DEF StatType, LooseStats, LooseUnrefreshed

LEMMA TriggerLoose == TriggerType \subseteq LooseTriggers
BY IdentifiersRow, NumberRow, RowNone DEF TriggerType, LooseTriggers

(* What a phase hands over.                                                *)
LEMMA WorksLoose ==
  /\ \A g \in Graphs : g \in LooseGraph
  /\ \A s \in Strips : s \in Seq(LooseConstraint)
  /\ \A l \in Loads : l \in LooseLoad
  /\ \A r \in Rebuilds : r \in LooseRebuild
  /\ \A w \in FkWorks : w.edges \in LooseValidate
                        /\ [defined |-> w.defined, withheld |-> w.withheld] \in LooseFkdefine
  /\ \A s \in StatWorks : s \in LooseStats
  /\ \A t \in TriggerWorks : t \in LooseTriggers
BY ManifestTextAssumption, GraphLoose, ConstraintLoose, LoadLoose, RebuildLoose, FkLoose, StatLoose,
   TriggerLoose

-----------------------------------------------------------------------------
(* Lines that say nothing, and lines that a value adds.                    *)

(* The first line of a value, and the lines after it.                      *)
First(val) == Split(val, "\n")[1]

Rest(val) == Tail(Split(val, "\n"))

LEMMA TailOne ==
  ASSUME NEW A, NEW a \in A, NEW r \in Seq(A), NEW s, s = Cat(<<a>>, r)
  PROVE  s[1] = a /\ Tail(s) = r
<1>1. PICK o \in Seq(A) : o = <<a>> /\ Len(o) = 1 /\ o[1] = a
  BY One
<1>2. PICK c \in Seq(A) : c = Cat(o, r)
  BY CatType
<1>3. Len(o) + Len(r) \in Nat /\ 1 \in 1 .. Len(o) + Len(r)
  BY <1>1, LenProperties
<1>4. c[1] = o[1]
  <2>1. \A i \in 1 .. Len(o) + Len(r) : c[i] = IF i <= Len(o) THEN o[i] ELSE r[i - Len(o)]
    BY <1>2, CatType
  <2> QED
    BY <1>1, <1>3, <2>1
<1> QED
  BY <1>1, <1>2, <1>4, TailCat

LEMMA FirstIs ==
  ASSUME NEW val \in Prose
  PROVE  /\ First(val) \in Row /\ Rest(val) \in Seq(ForeignRow)
         /\ Split(val, "\n") = Cat(<<First(val)>>, Rest(val))
         /\ val \in Row => First(val) = val /\ Rest(val) = <<>>
<1>1. CASE val \in Row
  <2>1. Split(val, "\n") = <<val>>
    BY <1>1, RowType
  <2>2. PICK o \in Seq(Row) : o = <<val>> /\ o[1] = val
    BY <1>1, One
  <2>3. <<>> \in Seq(Row) /\ <<>> \in Seq(ForeignRow)
    BY EmptySeq
  <2>4. o = Cat(<<val>>, <<>>)
    BY <2>2, CatNone
  <2>5. o[1] = val /\ Tail(o) = <<>>
    BY <1>1, <2>3, <2>4, TailOne
  <2> QED
    BY <1>1, <2>1, <2>2, <2>3, <2>4, <2>5 DEF First, Rest
<1>2. CASE val \notin Row
  <2>1. PICK a \in Row, rest \in Seq(ForeignRow) : Split(val, "\n") = Cat(<<a>>, rest)
    BY <1>2, ProseLines
  <2>2. rest \in Seq(Row)
    BY SeqMonotonic DEF ForeignRow
  <2>3. PICK p : p = Split(val, "\n")
    OBVIOUS
  <2>4. p[1] = a /\ Tail(p) = rest
    BY <2>1, <2>2, <2>3, TailOne
  <2> QED
    BY <1>2, <2>1, <2>3, <2>4 DEF First, Rest
<1> QED
  BY <1>1, <1>2

(* What is put before a value comes before its first line.                 *)
LEMMA FirstCat ==
  ASSUME NEW r \in Row, NEW val \in Prose
  PROVE  Cat(r, val) \in Prose /\ First(Cat(r, val)) = Cat(r, First(val)) /\ Rest(Cat(r, val)) = Rest(val)
<1>0. Cat(r, val) \in Prose
  BY ProseCat
<1>1. CASE val \in Row
  <2>1. Cat(r, val) \in Row
    BY <1>1, RowCat
  <2> QED
    BY <1>0, <1>1, <2>1, FirstIs
<1>2. CASE val \notin Row
  <2>1. PICK a \in Row, rest \in Seq(ForeignRow) :
              /\ Split(val, "\n") = Cat(<<a>>, rest)
              /\ \E b \in Text : val = Cat(Add(a, "\n"), b) /\ rest = Split(b, "\n")
    BY <1>2, ProseLines
  <2>2. PICK b \in Text : val = Cat(Add(a, "\n"), b) /\ rest = Split(b, "\n")
    BY <2>1
  <2>4. r \in Seq(Token) /\ a \in Seq(Token) /\ b \in Seq(Token)
    BY RowType DEF Text
  <2>5. PICK n \in Token : n = "\n"
    BY BreakToken
  <2>6. PICK x \in Seq(Token) : x = Add(a, n)
    BY <2>4, AddType
  <2>7. Cat(r, Cat(x, b)) = Cat(Cat(r, x), b)
    BY <2>4, CatCat
  <2>8. Cat(r, x) = Add(Cat(r, a), n)
    BY <2>4, <2>6, CatAdd
  <2>10. PICK y \in Row : y = Cat(r, a)
    BY RowCat
  <2>11. Cat(r, val) = Cat(Add(y, "\n"), b)
    BY <2>2, <2>5, <2>6, <2>7, <2>8, <2>10
  <2>12. Split(Cat(Add(y, "\n"), b), "\n") = Cat(<<y>>, Split(b, "\n"))
    BY BreakToken, <2>4, SplitFirst DEF Row
  <2>13. PICK p, q : p = Split(val, "\n") /\ q = Split(Cat(r, val), "\n")
    OBVIOUS
  <2>14. rest \in Seq(Row)
    BY SeqMonotonic DEF ForeignRow
  <2>15. p[1] = a /\ Tail(p) = rest
    BY <2>1, <2>13, <2>14, TailOne
  <2>16. q[1] = y /\ Tail(q) = rest
    BY <2>2, <2>11, <2>12, <2>13, <2>14, TailOne
  <2> QED
    BY <1>0, <2>10, <2>13, <2>15, <2>16 DEF First, Rest
<1> QED
  BY <1>1, <1>2

LEMMA EntryFirst ==
  ASSUME NEW key \in Keys, NEW val \in Prose
  PROVE  /\ Line(key, First(val)) \in Row
         /\ Split(Line(key, val), "\n") = Cat(<<Line(key, First(val))>>, Rest(val))
<1>1. PICK r \in Row : \A v \in Text : Line(key, v) = Cat(r, v)
  BY LineCat
<1>2. First(val) \in Row
  BY FirstIs
<1>3. val \in Text /\ First(val) \in Text
  BY <1>2, RowType DEF Prose
<1>4. Cat(r, First(val)) \in Row
  BY <1>2, RowCat
<1>5. /\ Cat(r, val) \in Prose /\ First(Cat(r, val)) = Cat(r, First(val))
      /\ Rest(Cat(r, val)) = Rest(val)
  BY FirstCat
<1>6. Split(Cat(r, val), "\n") = Cat(<<First(Cat(r, val))>>, Rest(Cat(r, val)))
  BY <1>5, FirstIs
<1> QED
  BY <1>1, <1>3, <1>4, <1>5, <1>6

(* Where the reader is after a line of a section: in it, or behind a line  *)
(* in brackets that is not a header of this program.                       *)
Astray == {t \in Row : t # <<>> /\ t[1] = "[" /\ t \notin {Header(s) : s \in Known}}

Within(s) == {Header(s)} \cup Astray

Near(s, m) == {At(h, m) : h \in Within(s)}

LEMMA NearIs ==
  ASSUME NEW s, NEW m
  PROVE  /\ \A h \in Within(s) : At(h, m) \in Near(s, m)
         /\ At(Header(s), m) \in Near(s, m)
         /\ \A h \in Astray : At(h, m) \in Near(s, m)
         /\ \A st \in Near(s, m) : st = At(Header(s), m) \/ \E h \in Astray : st = At(h, m)
BY DEF Near, Within

LEMMA AstrayKeeps ==
  ASSUME NEW h \in Astray, NEW m, NEW key, NEW val
  PROVE  ReadEntry(m, h, key, val) = m
<1>1. \A s \in Known : h # Header(s)
  BY DEF Astray
<1>2. /\ h # Header("plan") /\ h # Header("graph") /\ h # Header("strip") /\ h # Header("load")
      /\ h # Header("rebuild") /\ h # Header("validate") /\ h # Header("fkdefine")
      /\ h # Header("stats") /\ h # Header("triggers") /\ h # Header("phases")
  BY <1>1 DEF Known, Section
<1> QED
  BY <1>2 DEF ReadEntry

LEMMA BracketRead ==
  ASSUME NEW h, NEW m, IsSum(m), NEW l \in Plain, Bracketed(l)
  PROVE  \E g \in Astray : ReadLine(At(h, m), l) = At(g, m)
<1>2. l \in Row /\ Trim(l) \in Row /\ \A s \in Known : Trim(l) # Header(s)
  BY RowType DEF Plain
<1>3. Trim(l) # <<>> /\ Trim(l)[1] = "["
  BY DEF Bracketed
<1>4. PICK t \in Astray : t = Trim(l)
  BY <1>2, <1>3 DEF Astray
<1>5. {s \in Section : Trim(l) = Header(s)} = {}
  BY <1>2 DEF Known
<1>6. PICK z : z = {} /\ {s \in Section : t = Header(s)} = z
  BY <1>4, <1>5
<1>7. ReadLine(At(h, m), l) = [section |-> t, m |-> [m EXCEPT !.has = @ \cup z]]
  BY <1>3, <1>4, <1>6, AtIs DEF ReadLine
<1>8. Put(m, "has", m.has) = m
  BY PutIs DEF Field9
<1>9. m.has \cup z = m.has
  BY <1>6
<1>10. [m EXCEPT !.has = @ \cup z] = m
  BY <1>8, <1>9 DEF Put
<1> QED
  BY <1>7, <1>10 DEF At

LEMMA UnbracketedRead ==
  ASSUME NEW h, NEW m, NEW l \in Row, ~Bracketed(l)
  PROVE  \/ ReadLine(At(h, m), l) = At(h, m)
         \/ /\ Where(l, ":") # 0 /\ Len(Left(l, ":")) = 1
            /\ ReadLine(At(h, m), l) = At(h, ReadEntry(m, h, Left(l, ":")[1], Right(l, ":")))
<1>1. Trim(l) = <<>> \/ (Trim(l) # <<>> /\ Trim(l)[1] # "[")
  BY DEF Bracketed
<1>2. CASE Trim(l) = <<>>
  BY <1>2 DEF ReadLine
<1>3. CASE Trim(l) # <<>> /\ Trim(l)[1] # "[" /\ (Where(l, ":") = 0 \/ Len(Left(l, ":")) # 1)
  BY <1>3 DEF ReadLine
<1>4. CASE Trim(l) # <<>> /\ Trim(l)[1] # "[" /\ ~(Where(l, ":") = 0 \/ Len(Left(l, ":")) # 1)
  <2>1. PICK n : n = ReadEntry(m, h, Left(l, ":")[1], Right(l, ":"))
    OBVIOUS
  <2>2. ReadLine(At(h, m), l) = [At(h, m) EXCEPT !.m = n]
    BY <1>4, <2>1, AtIs DEF ReadLine
  <2>3. [At(h, m) EXCEPT !.m = n] = At(h, n)
    BY DEF At
  <2> QED
    BY <1>4, <2>1, <2>2, <2>3
<1> QED
  BY <1>1, <1>2, <1>3, <1>4

(* Behind such a line nothing is read before the next header.              *)
LEMMA AstrayRead ==
  ASSUME NEW h \in Astray, NEW m, IsSum(m), NEW l \in Plain
  PROVE  \E g \in Astray : ReadLine(At(h, m), l) = At(g, m)
<1>1. CASE Bracketed(l)
  BY <1>1, BracketRead
<1>2. CASE ~Bracketed(l)
  <2>1. l \in Row
    BY DEF Plain
  <2>2. \A key, val : ReadEntry(m, h, key, val) = m
    BY AstrayKeeps
  <2> QED
    BY <1>2, <2>1, <2>2, UnbracketedRead
<1> QED
  BY <1>1, <1>2

(* A key that is not the reader's own says nothing in any section.         *)
LEMMA UnknownKey ==
  ASSUME NEW m, NEW h, NEW key, key \notin Key, NEW val
  PROVE  ReadEntry(m, h, key, val) = m
<1>1. ReadPlan(m, key, val) = m
  BY DEF ReadPlan, Key
<1>2. ReadGraph(m, key, val) = m
  BY DEF ReadGraph, Key
<1>3. ReadStrip(m, key, val) = m
  BY DEF ReadStrip, Key
<1>4. ReadLoad(m, key, val) = m
  BY DEF ReadLoad, Key
<1>5. ReadRebuild(m, key, val) = m
  BY DEF ReadRebuild, Key
<1>6. ReadValidate(m, key, val) = m
  BY DEF ReadValidate, Key
<1>7. ReadFkdefine(m, key, val) = m
  BY DEF ReadFkdefine, Key
<1>8. ReadStats(m, key, val) = m
  BY DEF ReadStats, Key
<1>9. ReadTriggers(m, key, val) = m
  BY DEF ReadTriggers, Key
<1>10. ReadPhases(m, key, val) = m
  BY DEF ReadPhases, Key
<1> QED
  BY <1>1, <1>2, <1>3, <1>4, <1>5, <1>6, <1>7, <1>8, <1>9, <1>10 DEF ReadEntry

LEMMA ForeignRead ==
  ASSUME NEW h, NEW m, NEW l \in ForeignRow, ~Bracketed(l)
  PROVE  ReadLine(At(h, m), l) = At(h, m)
<1>1. l \in Row /\ (Where(l, ":") = 0 \/ Left(l, ":") \notin {<<k>> : k \in Key})
  BY DEF ForeignRow, Foreign
<1>2. PICK k \in Row : k = Left(l, ":")
  BY <1>1, RowLeft
<1>3. ASSUME Where(l, ":") # 0, Len(k) = 1 PROVE k[1] \notin Key
  <2>1. SUFFICES ASSUME k[1] \in Key PROVE FALSE
    OBVIOUS
  <2>2. PICK x \in Key : x = k[1]
    BY <2>1
  <2>4. x \in Token /\ k \in Seq(Token)
    BY MarkToken, RowType DEF Keys, Text
  <2>3. PICK o \in Seq(Token) : o = <<x>> /\ Len(o) = 1 /\ o[1] = x
    BY <2>4, One
  <2>6. \A i \in 1 .. 1 : k[i] = o[i]
    BY <2>2, <2>3
  <2>7. k = o
    BY <1>3, <2>3, <2>4, <2>6, SeqEqual
  <2> QED
    BY <1>1, <1>2, <1>3, <2>3, <2>7
<1>4. ASSUME Where(l, ":") # 0, Len(k) = 1
      PROVE  ReadEntry(m, h, k[1], Right(l, ":")) = m
  BY <1>3, <1>4, UnknownKey
<1> QED
  BY <1>1, <1>2, <1>4, UnbracketedRead

LEMMA AstrayLines ==
  ASSUME NEW m, IsSum(m), NEW h \in Astray, NEW lines \in Seq(Plain)
  PROVE  \E g \in Astray : ReadLines(At(h, m), lines) = At(g, m)
<1> DEFINE S == {At(g, m) : g \in Astray}
<1>1. \A st \in S, l \in Plain : ReadLine(st, l) \in S
  BY AstrayRead
<1>2. At(h, m) \in S
  OBVIOUS
<1>3. ReadLines(At(h, m), lines) \in S
  <2> HIDE DEF S
  <2> QED
    BY <1>1, <1>2, TakeStays
<1> QED
  BY <1>3

LEMMA NearLines ==
  ASSUME NEW s, NEW m, IsSum(m), NEW st \in Near(s, m), NEW lines \in Seq(ForeignRow)
  PROVE  ReadLines(st, lines) \in Near(s, m)
<1> DEFINE S == Near(s, m)
<1>1. ASSUME NEW z \in S, NEW l \in ForeignRow PROVE ReadLine(z, l) \in S
  <2>1. l \in Plain
    BY ForeignPlain
  <2>2. CASE \E h \in Astray : z = At(h, m)
    BY <2>1, <2>2, AstrayRead, NearIs
  <2>3. CASE z = At(Header(s), m)
    <3>1. CASE Bracketed(l)
      BY <2>1, <2>3, <3>1, BracketRead, NearIs
    <3>2. CASE ~Bracketed(l)
      BY <2>3, <3>2, ForeignRead, NearIs
    <3> QED
      BY <3>1, <3>2
  <2> QED
    BY <2>2, <2>3, NearIs
<1>3. ReadLines(st, lines) \in S
  <2> HIDE DEF S
  <2>1. st \in S
    BY DEF S
  <2> QED
    BY <1>1, <2>1, TakeStays
<1> QED
  BY <1>3

LEMMA QuietLines ==
  ASSUME NEW h, NEW m, NEW lines \in Seq(ForeignRow), \A l \in ToSet(lines) : ~Bracketed(l)
  PROVE  ReadLines(At(h, m), lines) = At(h, m)
<1> DEFINE L == {l \in ForeignRow : ~Bracketed(l)}
           S == {At(h, m)}
<1>1. \A st \in S, l \in L : ReadLine(st, l) \in S
  BY ForeignRead
<1>2. lines \in Seq(L)
  <2>1. \A i \in 1 .. Len(lines) : lines[i] \in ForeignRow /\ lines[i] \in ToSet(lines)
    BY ElementOfSeq DEF ToSet
  <2>2. \A i \in 1 .. Len(lines) : lines[i] \in L
    BY <2>1
  <2> HIDE DEF L
  <2> QED
    BY <2>2, SeqDef, LenProperties
<1>3. At(h, m) \in S
  OBVIOUS
<1>4. ReadLines(At(h, m), lines) \in S
  <2> HIDE DEF S, L
  <2> QED
    BY <1>1, <1>2, <1>3, TakeStays
<1> QED
  BY <1>4

(* An entry is read from its first line; the lines after it say nothing,   *)
(* but one in brackets ends the section.                                   *)
LEMMA EntryRead ==
  ASSUME NEW s, NEW m, NEW key \in Keys, NEW val \in Prose,
         NEW n, n = ReadEntry(m, Header(s), key, Trim(First(val))), IsSum(n)
  PROVE  /\ ReadLines(At(Header(s), m), Split(Line(key, val), "\n")) \in Near(s, n)
         /\ Harmless(val) => ReadLines(At(Header(s), m), Split(Line(key, val), "\n")) = At(Header(s), n)
<1>1. PICK a \in Row : a = First(val)
  BY FirstIs
<1>2. PICK l \in Row : l = Line(key, a)
  BY <1>1, EntryFirst
<1>3. PICK rest \in Seq(ForeignRow) : rest = Rest(val)
  BY FirstIs
<1>4. rest \in Seq(Row)
  BY SeqMonotonic DEF ForeignRow
<1>5. PICK o \in Seq(Row) : o = <<l>>
  BY One
<1>6. Split(Line(key, val), "\n") = Cat(o, rest)
  BY <1>1, <1>2, <1>3, <1>5, EntryFirst
<1>7. PICK h : h = Header(s)
  OBVIOUS
<1>8. ReadLine(At(h, m), l) = At(h, n)
  <2>1. a \in Text
    BY RowType
  <2> QED
    BY <1>1, <1>2, <1>7, <2>1, AtLine
<1>9. ReadLines(At(h, m), Cat(o, rest)) = ReadLines(ReadLines(At(h, m), o), rest)
  <2>1. PICK st : st = At(h, m)
    OBVIOUS
  <2> QED
    BY <1>4, <2>1, ReadCat
<1>10. ReadLines(At(h, m), o) = At(h, n)
  BY <1>5, <1>8, ReadOne
<1>11. ReadLines(At(h, n), rest) \in Near(s, n)
  BY <1>7, NearIs, NearLines
<1>12. ASSUME Harmless(val) PROVE ReadLines(At(h, n), rest) = At(h, n)
  <2>1. \A line \in ToSet(rest) : ~Bracketed(line)
    BY <1>3, <1>12 DEF Harmless, Rest
  <2> QED
    BY <2>1, QuietLines
<1> QED
  BY <1>6, <1>7, <1>9, <1>10, <1>11, <1>12

LEMMA RowHarmless ==
  ASSUME NEW val \in Row
  PROVE  Harmless(val)
<1>1. val \in Prose /\ Rest(val) = <<>>
  BY RowProse, FirstIs
<1>2. ToSet(<<>>) = {}
  BY DEF ToSet
<1> QED
  BY <1>1, <1>2 DEF Harmless, Rest

LEMMA RowRead ==
  ASSUME NEW s, NEW m, NEW key \in Keys, NEW val \in Row,
         NEW n, n = ReadEntry(m, Header(s), key, Trim(val)), IsSum(n)
  PROVE  ReadLines(At(Header(s), m), Split(Line(key, val), "\n")) = At(Header(s), n)
<1>1. val \in Prose /\ First(val) = val /\ Harmless(val)
  BY RowProse, FirstIs, RowHarmless
<1> QED
  BY <1>1, EntryRead

(* A list is read as its items are.                                        *)
Itemwise(R, F, G) ==
  \A q \in Seq(R), x \in R : \A st \in G[q] : ReadLines(st, Split(F[x], "\n")) \in G[Add(q, x)]

TakesItems(R, F, G) ==
  \A p \in Seq(R) : \A st \in G[<<>>] : ReadLines(st, Printed(Image(p, F))) \in G[p]

LEMMA TakeItems ==
  ASSUME NEW S, NEW R \in SUBSET S, NEW F \in [S -> Entry], NEW G, Itemwise(R, F, G)
  PROVE  TakesItems(R, F, G)
<1> DEFINE ok == {p \in Seq(R) : \A st \in G[<<>>] : ReadLines(st, Printed(Image(p, F))) \in G[p]}
<1>1. <<>> \in ok
  <2>1. <<>> \in Seq(R)
    BY EmptySeq
  <2>2. ASSUME NEW st \in G[<<>>] PROVE ReadLines(st, Printed(Image(<<>>, F))) \in G[<<>>]
    BY ImageNone, PrintedNone, ReadNone
  <2> QED
    BY <2>1, <2>2
<1>2. ASSUME NEW p \in Seq(R), p \in ok, NEW x \in R PROVE Add(p, x) \in ok
  <2>1. Add(p, x) \in Seq(R)
    BY AddType
  <2>2. p \in Seq(S) /\ x \in S
    BY SeqMonotonic
  <2>3. PICK e \in Seq(Entry) : e = Image(p, F)
    BY <2>2, ImageIs
  <2>4. PICK l \in Entry : l = F[x]
    BY <2>2
  <2>5. Image(Add(p, x), F) = Add(e, l)
    BY <2>2, <2>3, <2>4, ImageAdd
  <2>8. e \in Seq(Text) /\ l \in Text /\ Printed(e) \in Seq(Row) /\ Split(l, "\n") \in Seq(Row)
    BY PrintedType, EntryLines, RowsType
  <2>9. Printed(Add(e, l)) = Cat(Printed(e), Split(l, "\n"))
    BY <2>8, PrintedAdd
  <2>10. PICK a, b : a = Printed(e) /\ b = Split(l, "\n")
    OBVIOUS
  <2>11. Printed(Image(Add(p, x), F)) = Cat(a, b)
    BY <2>5, <2>9, <2>10
  <2>12. ASSUME NEW st \in G[<<>>] PROVE ReadLines(st, Cat(a, b)) \in G[Add(p, x)]
    <3>1. ReadLines(st, Cat(a, b)) = ReadLines(ReadLines(st, a), b)
      BY <2>8, <2>10, ReadCat
    <3>2. PICK z : z = ReadLines(st, a)
      OBVIOUS
    <3>3. z \in G[p]
      BY <1>2, <2>3, <2>10, <3>2
    <3>4. ReadLines(z, b) \in G[Add(p, x)]
      BY <2>4, <2>10, <3>3 DEF Itemwise
    <3> QED
      BY <3>1, <3>2, <3>4
  <2> QED
    BY <2>1, <2>11, <2>12
<1>3. Seq(R) \subseteq ok
  <2> HIDE DEF ok
  <2> QED
    BY <1>1, <1>2, SeqAdd
<1> QED
  BY <1>3 DEF TakesItems

Blockwise(R, F, G) ==
  \A q \in Seq(R), x \in R : \A st \in G[q] : ReadLines(st, Printed(F[x])) \in G[Add(q, x)]

TakesBlocks(R, F, G) ==
  \A p \in Seq(R) : \A st \in G[<<>>] : ReadLines(st, Printed(FlattenSeq(Image(p, F)))) \in G[p]

LEMMA TakeBlocks ==
  ASSUME NEW S, NEW R \in SUBSET S, NEW F \in [S -> Seq(Entry)], NEW G, Blockwise(R, F, G)
  PROVE  TakesBlocks(R, F, G)
<1> DEFINE ok == {p \in Seq(R) : \A st \in G[<<>>] : ReadLines(st, Printed(FlattenSeq(Image(p, F)))) \in G[p]}
<1>1. <<>> \in ok
  <2>1. <<>> \in Seq(R)
    BY EmptySeq
  <2>2. ASSUME NEW st \in G[<<>>] PROVE ReadLines(st, Printed(FlattenSeq(Image(<<>>, F)))) \in G[<<>>]
    BY ImageNone, FlattenNone, PrintedNone, ReadNone
  <2> QED
    BY <2>1, <2>2
<1>2. ASSUME NEW p \in Seq(R), p \in ok, NEW x \in R PROVE Add(p, x) \in ok
  <2>1. Add(p, x) \in Seq(R)
    BY AddType
  <2>2. p \in Seq(S) /\ x \in S
    BY SeqMonotonic
  <2>3. PICK e \in Seq(Seq(Entry)) : e = Image(p, F)
    BY <2>2, ImageIs
  <2>4. PICK l \in Seq(Entry) : l = F[x]
    BY <2>2
  <2>5. Image(Add(p, x), F) = Add(e, l)
    BY <2>2, <2>3, <2>4, ImageAdd
  <2>6. PICK f \in Seq(Entry) : f = FlattenSeq(e)
    BY FlattenType
  <2>7. FlattenSeq(Add(e, l)) = Cat(f, l)
    BY <2>6, FlattenAdd
  <2>8. f \in Seq(Text) /\ l \in Seq(Text) /\ Printed(f) \in Seq(Row) /\ Printed(l) \in Seq(Row)
    BY PrintedType
  <2>9. Printed(Cat(f, l)) = Cat(Printed(f), Printed(l))
    BY <2>8, PrintedCat
  <2>10. PICK a, b : a = Printed(f) /\ b = Printed(l)
    OBVIOUS
  <2>11. Printed(FlattenSeq(Image(Add(p, x), F))) = Cat(a, b)
    BY <2>5, <2>7, <2>9, <2>10
  <2>12. ASSUME NEW st \in G[<<>>] PROVE ReadLines(st, Cat(a, b)) \in G[Add(p, x)]
    <3>1. ReadLines(st, Cat(a, b)) = ReadLines(ReadLines(st, a), b)
      BY <2>8, <2>10, ReadCat
    <3>2. PICK z : z = ReadLines(st, a)
      OBVIOUS
    <3>3. z \in G[p]
      BY <1>2, <2>6, <2>3, <2>10, <3>2
    <3>4. ReadLines(z, b) \in G[Add(p, x)]
      BY <2>4, <2>10, <3>3 DEF Blockwise
    <3> QED
      BY <3>1, <3>2, <3>4
  <2> QED
    BY <2>1, <2>11, <2>12
<1>3. Seq(R) \subseteq ok
  <2> HIDE DEF ok
  <2> QED
    BY <1>1, <1>2, SeqAdd
<1> QED
  BY <1>3 DEF TakesBlocks

-----------------------------------------------------------------------------
(* What values come back whole.                                            *)

(* What stands between two tabs, and what stands alone on a line.          *)
Inked(t) == t # <<>> /\ Tight(t)

Plainly == Free(Free(Token, "\n"), "\t")

Cell == {t \in Seq(Plainly) : Inked(t)}

Ink == {t \in Row : Inked(t)}

LEMMA PlainlyIs ==
  /\ Seq(Plainly) \subseteq Row
  /\ \A t \in Seq(Plainly) : Split(t, "\t") = <<t>> /\ Trim(t) \in Seq(Plainly)
  /\ \A t \in Row : Split(t, "\t") \in Seq(Seq(Plainly)) /\ Split(t, "\t") # <<>>
<1>1. Seq(Plainly) \subseteq Seq(Free(Token, "\n"))
  BY FreeType DEF Plainly
<1>2. ASSUME NEW t \in Seq(Plainly) PROVE Split(t, "\t") = <<t>> /\ Trim(t) \in Seq(Plainly)
  <2>1. Split(t, "\t") = <<t>>
    BY SplitFree DEF Plainly
  <2>2. Trim(t) \in Seq(Plainly)
    BY TrimType
  <2> QED
    BY <2>1, <2>2
<1>3. ASSUME NEW t \in Row PROVE Split(t, "\t") \in Seq(Seq(Plainly)) /\ Split(t, "\t") # <<>>
  BY SplitType DEF Row, Plainly
<1> QED
  BY <1>1, <1>2, <1>3 DEF Row

LEMMA CellIs ==
  ASSUME NEW t \in Cell
  PROVE  /\ t \in Ink /\ t \in Row /\ t \in Seq(Plainly) /\ t \in Prose /\ t \in Text
         /\ t # <<>> /\ Tight(t) /\ t[1] \notin Blank
         /\ Trim(t) = t /\ First(t) = t /\ Split(t, "\t") = <<t>>
<1>1. t \in Seq(Plainly) /\ t # <<>> /\ Tight(t)
  BY DEF Cell, Inked
<1>2. t \in Row /\ Split(t, "\t") = <<t>>
  BY <1>1, PlainlyIs
<1>3. Trim(t) = t
  BY <1>1, TrimTight
<1>4. t \in Prose /\ First(t) = t /\ t \in Text
  BY <1>2, RowProse, FirstIs, RowType
<1> QED
  BY <1>1, <1>2, <1>3, <1>4 DEF Ink, Inked, Tight

LEMMA InkIs ==
  ASSUME NEW t \in Ink
  PROVE  /\ t \in Row /\ t \in Prose /\ t \in Text /\ t # <<>> /\ Tight(t) /\ t[1] \notin Blank
         /\ Trim(t) = t /\ First(t) = t
<1>1. t \in Row /\ t # <<>> /\ Tight(t)
  BY DEF Ink, Inked
<1>2. t \in Prose /\ First(t) = t /\ t \in Text
  BY <1>1, RowProse, FirstIs, RowType
<1>3. Trim(t) = t
  BY <1>1, <1>2, TrimTight DEF Text
<1> QED
  BY <1>1, <1>2, <1>3 DEF Tight

(* Ends.                                                                   *)
LEMMA CatEnds ==
  ASSUME NEW A, NEW s \in Seq(A), NEW t \in Seq(A)
  PROVE  /\ s # <<>> => Cat(s, t) # <<>> /\ Cat(s, t)[1] = s[1]
         /\ t # <<>> => Cat(s, t) # <<>> /\ Cat(s, t)[Len(Cat(s, t))] = t[Len(t)]
<1>1. PICK c \in Seq(A) : c = Cat(s, t)
  BY CatType
<1>2. PICK n \in Nat : n = Len(s)
  BY LenProperties
<1>3. PICK k \in Nat : k = Len(t)
  BY LenProperties
<1>4. Len(c) = n + k /\ \A i \in 1 .. n + k : c[i] = IF i <= n THEN s[i] ELSE t[i - n]
  BY <1>1, <1>2, <1>3, CatType
<1>5. ASSUME s # <<>> PROVE c # <<>> /\ c[1] = s[1]
  <2>1. n >= 1
    BY <1>2, <1>5, EmptySeq
  <2>2. 1 \in 1 .. n + k /\ 1 <= n
    BY <2>1
  <2> QED
    BY <1>4, <2>2
<1>6. ASSUME t # <<>> PROVE c # <<>> /\ c[n + k] = t[k]
  <2>1. k >= 1
    BY <1>3, <1>6, EmptySeq
  <2>2. n + k \in 1 .. n + k /\ ~(n + k <= n) /\ (n + k) - n = k
    BY <2>1
  <2>3. c[n + k] = t[k]
    BY <1>4, <2>2
  <2> QED
    BY <1>4, <2>2, <2>3
<1> QED
  BY <1>1, <1>3, <1>4, <1>5, <1>6

LEMMA CatInked ==
  ASSUME NEW A, NEW s \in Seq(A), NEW t \in Seq(A), s # <<>>, s[1] \notin Blank,
         t # <<>>, t[Len(t)] \notin Blank
  PROVE  Inked(Cat(s, t))
BY CatEnds DEF Inked, Tight

(* What begins with ink is trimmed at its end only.                        *)
LEMMA TrimLead ==
  ASSUME NEW A, NEW s \in Seq(A), NEW t \in Seq(A), s # <<>>, s[1] \notin Blank,
         t # <<>>, t[1] \notin Blank
  PROVE  Trim(Cat(s, t)) = Cat(s, Trim(t))
<1>1. PICK u \in Blanks(A), v \in Blanks(A), c \in Seq(A) : Tight(c) /\ t = Cat(u, Cat(c, v))
  BY TrimCut
<1>2. PICK w \in Seq(A) : w = Cat(c, v)
  BY BlanksType, CatType
<1>3. u \in Seq(A) /\ v \in Seq(A)
  BY BlanksType
<1>4. u = <<>>
  <2>1. SUFFICES ASSUME u # <<>> PROVE FALSE
    OBVIOUS
  <2>2. t[1] = u[1]
    BY <1>1, <1>2, <1>3, <2>1, CatEnds
  <2>3. u[1] \in Blank
    <3>1. 1 \in 1 .. Len(u)
      BY <1>3, <2>1, EmptySeq, LenProperties
    <3> QED
      BY <3>1, BlanksType
  <2> QED
    BY <2>2, <2>3
<1>5. t = Cat(c, v)
  BY <1>1, <1>2, <1>4, CatNone
<1>6. Trim(t) = c
  <2>1. Trim(Cat(c, v)) = Trim(c)
    BY TrimRight
  <2> QED
    BY <1>1, <1>5, <2>1, TrimTight
<1>7. c # <<>>
  <2>1. SUFFICES ASSUME c = <<>> PROVE FALSE
    OBVIOUS
  <2>2. t = v
    BY <1>3, <1>5, <2>1, CatNone
  <2>3. 1 \in 1 .. Len(v)
    BY <1>3, <2>2, EmptySeq, LenProperties
  <2> QED
    BY <2>2, <2>3, BlanksType
<1>8. PICK x \in Seq(A) : x = Cat(s, c)
  BY CatType
<1>9. Inked(x)
  <2>1. c[Len(c)] \notin Blank
    BY <1>1, <1>7 DEF Tight
  <2> QED
    BY <1>7, <1>8, <2>1, CatInked
<1>10. Cat(s, t) = Cat(x, v)
  BY <1>3, <1>5, <1>8, CatCat
<1>11. Trim(Cat(x, v)) = Trim(x)
  BY TrimRight
<1>12. Trim(x) = x
  BY <1>9, TrimTight DEF Inked
<1> QED
  BY <1>6, <1>8, <1>10, <1>11, <1>12

(* Fields                                                                  *)
LEMMA FieldsIs ==
  /\ \A x \in Row : Fields(<<x>>) = x
  /\ \A p \in Seq(Row), x \in Prose : p # <<>> => Fields(Add(p, x)) = Cat(Add(Fields(p), "\t"), x)
  /\ \A p \in Seq(Row) : Fields(p) \in Row
<1>1. PICK tab \in Free(Token, "\n") : tab = "\t"
  BY FreeType, SMTT(20), ZenonT(30) DEF Token, Mark
<1>2. PICK sep \in Row : sep = <<tab>>
  BY <1>1, One DEF Row
<1>3. ASSUME NEW x \in Row PROVE Fields(<<x>>) = x
  BY <1>1, <1>2, JoinOne DEF Fields, Row
<1>4. ASSUME NEW p \in Seq(Row) PROVE Fields(p) \in Row
  BY <1>1, <1>2, JoinType DEF Fields, Row
<1>5. ASSUME NEW p \in Seq(Row), p # <<>>, NEW x \in Prose
      PROVE  Fields(Add(p, x)) = Cat(Add(Fields(p), "\t"), x)
  <2>1. p \in Seq(Seq(Token)) /\ x \in Seq(Token) /\ sep \in Seq(Token) /\ tab \in Token
    <3>1. Row \subseteq Seq(Token)
      BY RowType DEF Text
    <3>2. Seq(Row) \subseteq Seq(Seq(Token))
      BY <3>1, SeqMonotonic
    <3> QED
      BY <1>1, <3>1, <3>2, FreeType DEF Prose, Text
  <2>2. Join(Add(p, x), sep) = IF p = <<>> THEN x ELSE Cat(Join(p, sep), Cat(sep, x))
    BY <2>1, JoinAdd
  <2>3. PICK j \in Seq(Token) : j = Join(p, sep)
    BY <2>1, JoinType
  <2>4. Cat(j, Cat(sep, x)) = Cat(Cat(j, sep), x)
    BY <2>1, CatCat
  <2>5. Add(j, tab) = Cat(j, sep)
    BY <1>2, <2>1, AddIs
  <2> QED
    BY <1>1, <1>2, <1>5, <2>2, <2>3, <2>4, <2>5 DEF Fields
<1> QED
  BY <1>3, <1>4, <1>5

LEMMA CellsRow == Cell \subseteq Row /\ Seq(Cell) \subseteq Seq(Row) /\ Seq(Cell) \subseteq Seq(Seq(Plainly))
<1>1. Cell \subseteq Row /\ Cell \subseteq Seq(Plainly)
  BY CellIs
<1> QED
  BY <1>1, SeqMonotonic

LEMMA FieldsCells ==
  ASSUME NEW p \in Seq(Cell), p # <<>>
  PROVE  /\ Fields(p) \in Row /\ Fields(p) # <<>> /\ Fields(p)[1] \notin Blank
         /\ Split(Fields(p), "\t") = p /\ Trimmed(p) = p
<1>1. p \in Seq(Row) /\ p \in Seq(Seq(Plainly))
  BY CellsRow
<1>2. PICK q \in Seq(Cell), x \in Cell : p = Add(q, x)
  BY SeqLast
<1>3. Fields(p) \in Row
  BY <1>1, FieldsIs
<1>4. Split(Fields(p), "\t") = p
  <2>1. "\t" \in Free(Token, "\n")
    BY FreeType, SMTT(20), ZenonT(30) DEF Token, Mark
  <2>2. p \in Seq(Seq(Free(Free(Token, "\n"), "\t")))
    BY <1>1 DEF Plainly
  <2>3. Split(Join(p, <<"\t">>), "\t") = p
    BY <2>1, <2>2, JoinExact
  <2> QED
    BY <2>3 DEF Fields
<1>5. Trimmed(p) = p
  <2>1. \A i \in 1 .. Len(p) : Tight(p[i])
    BY ElementOfSeq, CellIs
  <2> QED
    BY <1>1, <2>1, TrimmedSame
<1>6. \A r \in Seq(Cell) : r # <<>> => Fields(r) # <<>> /\ Fields(r)[1] \notin Blank
  <2> DEFINE ok == {r \in Seq(Cell) : r # <<>> => Fields(r) # <<>> /\ Fields(r)[1] \notin Blank}
  <2>1. <<>> \in ok
    BY EmptySeq
  <2>2. ASSUME NEW r \in Seq(Cell), r \in ok, NEW y \in Cell PROVE Add(r, y) \in ok
    <3>0. Add(r, y) \in Seq(Cell) /\ y \in Row /\ y \in Prose /\ r \in Seq(Row)
      BY AddType, CellIs, CellsRow
    <3>1. CASE r = <<>>
      <4>1. Add(r, y) = <<y>>
        BY <3>1, One
      <4>2. Fields(<<y>>) = y
        BY <3>0, FieldsIs
      <4> QED
        BY <3>0, <4>1, <4>2, CellIs
    <3>2. CASE r # <<>>
      <4>1. Fields(Add(r, y)) = Cat(Add(Fields(r), "\t"), y)
        BY <3>0, <3>2, FieldsIs
      <4>2. PICK f \in Seq(Token) : f = Fields(r)
        BY <3>0, FieldsIs, RowType DEF Text
      <4>3. f # <<>> /\ f[1] \notin Blank
        BY <2>2, <3>2, <4>2
      <4>4. PICK tab \in Token : tab = "\t"
        BY FreeType DEF Token, Mark
      <4>50. PICK sep \in Seq(Token) : sep = <<tab>>
        BY One
      <4>5. PICK g \in Seq(Token) : g = Add(f, tab) /\ g = Cat(f, sep)
        BY <4>50, AddType, AddIs
      <4>6. g # <<>> /\ g[1] = f[1]
        BY <4>3, <4>5, CatEnds
      <4>7. y \in Seq(Token)
        BY <3>0, RowType DEF Text
      <4>8. Cat(g, y) # <<>> /\ Cat(g, y)[1] = g[1]
        BY <4>6, <4>7, CatEnds
      <4> QED
        BY <3>0, <4>1, <4>2, <4>3, <4>4, <4>5, <4>6, <4>8
    <3> QED
      BY <3>1, <3>2
  <2>3. Seq(Cell) \subseteq ok
    <3> HIDE DEF ok
    <3> QED
      BY <2>1, <2>2, SeqAdd
  <2> QED
    BY <2>3
<1> QED
  BY <1>3, <1>4, <1>5, <1>6

(* What a message is: it begins with ink.                                  *)
Spoken == {t \in Prose : t # <<>> /\ t[1] \notin Blank}

LEMMA InkSpoken ==
  /\ \A t \in Ink : t \in Spoken
  /\ \A t \in Cell : t \in Spoken
BY InkIs, CellIs DEF Spoken

LEMMA AddEnds ==
  ASSUME NEW A, NEW s \in Seq(A), NEW x \in A
  PROVE  /\ Add(s, x) \in Seq(A) /\ Add(s, x) # <<>>
         /\ Add(s, x)[1] = IF s = <<>> THEN x ELSE s[1]
<1>1. PICK o \in Seq(A) : o = <<x>> /\ o # <<>> /\ o[1] = x /\ Add(<<>>, x) = o
  BY One
<1>2. Add(s, x) = Cat(s, o)
  BY <1>1, AddIs
<1>3. s # <<>> => Cat(s, o)[1] = s[1]
  BY CatEnds
<1> QED
  BY <1>1, <1>2, <1>3, AddType

LEMMA RowEnds ==
  ASSUME NEW s \in Row, NEW t \in Row
  PROVE  /\ s # <<>> => Cat(s, t) # <<>> /\ Cat(s, t)[1] = s[1]
         /\ t # <<>> => Cat(s, t) # <<>> /\ Cat(s, t)[Len(Cat(s, t))] = t[Len(t)]
         /\ \A x \in Free(Token, "\n") :
              /\ Add(s, x) \in Row /\ Add(s, x) # <<>>
              /\ Add(s, x)[1] = IF s = <<>> THEN x ELSE s[1]
<1>1. s \in Seq(Free(Token, "\n")) /\ t \in Seq(Free(Token, "\n"))
  BY DEF Row
<1>2. ASSUME NEW x \in Free(Token, "\n")
      PROVE  /\ Add(s, x) \in Row /\ Add(s, x) # <<>>
             /\ Add(s, x)[1] = IF s = <<>> THEN x ELSE s[1]
  BY <1>1, AddEnds DEF Row
<1> QED
  BY <1>1, <1>2, CatEnds

(* The fields that the first line of a message makes.                      *)
Said(x) == Trimmed(Split(Trim(First(x)), "\t"))

LEMMA FirstHead ==
  ASSUME NEW x \in Spoken
  PROVE  /\ First(x) \in Row /\ First(x) # <<>> /\ First(x)[1] = x[1] /\ First(x)[1] \notin Blank
         /\ Trim(First(x)) \in Ink
<1>0. x \in Prose /\ x # <<>> /\ x[1] \notin Blank
  BY DEF Spoken
<1>1. First(x) \in Row /\ (x \in Row => First(x) = x)
  BY <1>0, FirstIs
<1>2. First(x) # <<>> /\ First(x)[1] = x[1]
  <2>1. CASE x \in Row
    BY <1>0, <1>1, <2>1
  <2>2. CASE x \notin Row
    <3>1. PICK a \in Row, rest \in Seq(ForeignRow) :
              /\ Split(x, "\n") = Cat(<<a>>, rest)
              /\ \E b \in Text : x = Cat(Add(a, "\n"), b) /\ rest = Split(b, "\n")
      BY <1>0, <2>2, ProseLines
    <3>2. PICK b \in Text : x = Cat(Add(a, "\n"), b)
      BY <3>1
    <3>3. PICK s : s = Split(x, "\n")
      OBVIOUS
    <3>4. rest \in Seq(Row)
      BY SeqMonotonic DEF ForeignRow
    <3>5. s[1] = a
      BY <3>1, <3>3, <3>4, TailOne
    <3>6. a \in Seq(Token) /\ b \in Seq(Token)
      BY RowType DEF Text
    <3>7. PICK n \in Token : n = "\n"
      BY BreakToken
    <3>8. PICK g \in Seq(Token) : g = Add(a, n) /\ g # <<>> /\ g[1] = IF a = <<>> THEN n ELSE a[1]
      BY <3>6, <3>7, AddEnds
    <3>10. x[1] = g[1]
      BY <3>2, <3>6, <3>7, <3>8, CatEnds
    <3>11. a # <<>>
      BY <1>0, <3>7, <3>8, <3>10 DEF Blank
    <3>12. g[1] = a[1]
      BY <3>8, <3>11
    <3> QED
      BY <3>3, <3>5, <3>10, <3>11, <3>12 DEF First
  <2> QED
    BY <2>1, <2>2
<1>3. PICK a \in Row : a = First(x)
  BY <1>1
<1>4. Trim(a) \in Row /\ Tight(Trim(a))
  BY RowType
<1>5. Trim(a) # <<>>
  BY <1>0, <1>2, <1>3, TrimHead DEF Row
<1> QED
  BY <1>0, <1>2, <1>3, <1>4, <1>5 DEF Ink, Inked

(* Up to the first tab of a text that begins with ink.                     *)
LEMMA InkSplit ==
  ASSUME NEW c \in Ink
  PROVE  \E x \in Cell, r \in Seq(Row) : Trimmed(Split(c, "\t")) = Cat(<<x>>, r)
<1>0. c \in Seq(Free(Token, "\n")) /\ c # <<>> /\ c[1] \notin Blank /\ Trim(c) = c /\ Tight(c)
  BY InkIs DEF Row
<1>1. CASE c \in Seq(Plainly)
  <2>1. Split(c, "\t") = <<c>>
    BY <1>1, PlainlyIs
  <2>2. Trimmed(<<c>>) = <<c>>
    BY <1>0, TrimmedOne
  <2>3. c \in Cell
    BY <1>0, <1>1 DEF Cell, Inked
  <2>4. PICK o \in Seq(Cell) : o = <<c>>
    BY <2>3, One
  <2>5. o = Cat(o, <<>>) /\ <<>> \in Seq(Row)
    BY CatNone, EmptySeq
  <2> QED
    BY <2>1, <2>2, <2>3, <2>4, <2>5
<1>2. CASE c \notin Seq(Plainly)
  <2>1. PICK tab \in Free(Token, "\n") : tab = "\t"
    BY FreeType, SMTT(20), ZenonT(30) DEF Token, Mark
  <2>2. PICK a \in Seq(Plainly), b \in Row : c = Cat(Add(a, tab), b)
    <3>1. c \in Seq(Free(Free(Token, "\n"), "\t"))
            \/ \E a \in Seq(Free(Free(Token, "\n"), "\t")), b \in Seq(Free(Token, "\n")) : c = Cat(Add(a, "\t"), b)
      BY <1>0, FirstSep
    <3> QED
      BY <1>2, <2>1, <3>1 DEF Plainly, Row
  <2>3. a \in Seq(Free(Token, "\n")) /\ b \in Seq(Free(Token, "\n"))
    BY PlainlyIs DEF Row
  <2>4. a \in Row
    BY PlainlyIs
  <2>5. PICK g \in Row : g = Add(a, tab) /\ g # <<>> /\ g[1] = IF a = <<>> THEN tab ELSE a[1]
    BY <2>4, RowEnds
  <2>6. c[1] = g[1]
    BY <2>2, <2>5, RowEnds
  <2>7. a # <<>>
    BY <1>0, <2>1, <2>5, <2>6 DEF Blank
  <2>8. c[1] = a[1]
    BY <2>5, <2>6, <2>7
  <2>9. PICK x \in Cell : x = Trim(a)
    <3>1. Trim(a) \in Seq(Plainly) /\ Tight(Trim(a))
      BY PlainlyIs, TrimType
    <3>2. Trim(a) # <<>>
      BY <1>0, <2>7, <2>8, TrimHead
    <3> QED
      BY <3>1, <3>2 DEF Cell, Inked
  <2>10. Split(c, "\t") = Cat(<<a>>, Split(b, "\t"))
    <3>1. Split(Cat(Add(a, "\t"), b), "\t") = Cat(<<a>>, Split(b, "\t"))
      BY <2>1, <2>3, SplitFirst DEF Plainly
    <3> QED
      BY <2>1, <2>2, <3>1
  <2>11. PICK q \in Seq(Row) : q = Split(b, "\t")
    BY RowSplit
  <2>12. PICK p \in Seq(Row) : p = <<a>>
    BY <2>3, One DEF Row
  <2>13. Trimmed(p) = <<x>>
    BY <2>9, <2>12, TrimmedOne
  <2>14. PICK r \in Seq(Row) : r = Trimmed(q)
    BY <2>11, RowSplit
  <2>15. Trimmed(Cat(p, q)) = Cat(Trimmed(p), Trimmed(q))
    BY TrimmedCat DEF Row
  <2> QED
    BY <2>10, <2>11, <2>12, <2>13, <2>14, <2>15
<1> QED
  BY <1>1, <1>2

LEMMA SaidIs ==
  /\ \A x \in Spoken : Said(x) \in Seq(Row) /\ Said(x) # <<>> /\ Said(x)[1] \in Cell
  /\ \A x \in Cell : Said(x) = <<x>> /\ Said(x)[1] = x
<1>1. ASSUME NEW x \in Spoken PROVE Said(x) \in Seq(Row) /\ Said(x) # <<>> /\ Said(x)[1] \in Cell
  <2>1. PICK c \in Ink : c = Trim(First(x))
    BY FirstHead
  <2>2. PICK y \in Cell, r \in Seq(Row) : Trimmed(Split(c, "\t")) = Cat(<<y>>, r)
    BY InkSplit
  <2>3. PICK s : s = Said(x)
    OBVIOUS
  <2>4. s = Cat(<<y>>, r)
    BY <2>1, <2>2, <2>3 DEF Said
  <2>5. y \in Row
    BY CellIs
  <2>6. s[1] = y
    BY <2>4, <2>5, TailOne
  <2>7. PICK o \in Seq(Row) : o = <<y>> /\ o # <<>>
    BY <2>5, One
  <2>8. s \in Seq(Row) /\ s # <<>>
    BY <2>4, <2>7, CatType, CatEnds
  <2> QED
    BY <2>3, <2>6, <2>8
<1>2. ASSUME NEW x \in Cell PROVE Said(x) = <<x>> /\ Said(x)[1] = x
  <2>1. First(x) = x /\ Trim(x) = x /\ Split(x, "\t") = <<x>> /\ x \in Row
    BY CellIs
  <2>2. Trimmed(<<x>>) = <<x>>
    BY <2>1, TrimmedOne DEF Row
  <2> QED
    BY <2>1, <2>2 DEF Said
<1> QED
  BY <1>1, <1>2

(* A record comes back as it was, but for its last field, of which what    *)
(* the first line says is left.                                            *)
LEMMA RecordSplit ==
  ASSUME NEW p \in Seq(Cell), p # <<>>, NEW x \in Spoken
  PROVE  /\ Fields(Add(p, x)) \in Prose
         /\ Rest(Fields(Add(p, x))) = Rest(x)
         /\ x \in Row => Fields(Add(p, x)) \in Row
         /\ SplitRecord(Trim(First(Fields(Add(p, x))))) = Cat(p, Said(x))
<1>1. PICK f \in Row : f = Fields(p) /\ f # <<>> /\ f[1] \notin Blank /\ Split(f, "\t") = p /\ Trimmed(p) = p
  BY FieldsCells
<1>2. p \in Seq(Row) /\ x \in Prose
  BY CellsRow DEF Spoken
<1>3. PICK tab \in Free(Token, "\n") : tab = "\t"
  BY FreeType, SMTT(20), ZenonT(30) DEF Token, Mark
<1>4. PICK o \in Row : o = <<tab>>
  BY <1>3, One DEF Row
<1>5. PICK r \in Row : r = Add(f, tab) /\ r = Cat(f, o)
  BY <1>3, <1>4, AddType, AddIs DEF Row
<1>6. Fields(Add(p, x)) = Cat(r, x)
  BY <1>1, <1>2, <1>3, <1>5, FieldsIs
<1>7. Cat(r, x) \in Prose /\ First(Cat(r, x)) = Cat(r, First(x)) /\ Rest(Cat(r, x)) = Rest(x)
  BY <1>2, FirstCat
<1>8. x \in Row => Cat(r, x) \in Row
  BY RowCat
<1>9. PICK a \in Row : a = First(x) /\ a # <<>> /\ a[1] \notin Blank /\ Trim(a) \in Ink
  BY FirstHead
<1>10. r # <<>> /\ r[1] \notin Blank
  <2>1. \A y \in Free(Token, "\n") : Add(f, y) # <<>> /\ Add(f, y)[1] = IF f = <<>> THEN y ELSE f[1]
    BY RowEnds
  <2>2. Add(f, tab) # <<>> /\ Add(f, tab)[1] = f[1]
    BY <1>1, <2>1
  <2> QED
    BY <1>1, <1>5, <2>2
<1>11. PICK c \in Row : c = Trim(a)
  BY <1>9, InkIs
<1>12. Trim(Cat(r, a)) = Cat(r, c)
  BY <1>9, <1>10, <1>11, TrimLead DEF Row
<1>13. PICK v \in Row : v = Cat(r, c)
  BY RowCat
<1>14. "\t" \in ToSet(v)
  <2>0. f \in Seq(Free(Token, "\n")) /\ c \in Seq(Free(Token, "\n")) /\ r \in Seq(Free(Token, "\n"))
    BY DEF Row
  <2>1. PICK n \in Nat : n = Len(f)
    BY <2>0, LenProperties
  <2>2. Len(r) = n + 1 /\ r[n + 1] = tab
    <3>1. Len(Add(f, tab)) = Len(f) + 1 /\ Add(f, tab)[Len(f) + 1] = tab
      BY <2>0, AddType
    <3> QED
      BY <1>5, <2>1, <3>1
  <2>3. n + 1 \in 1 .. Len(v) /\ v[n + 1] = r[n + 1]
    <3>1. PICK k \in Nat : k = Len(c)
      BY <2>0, LenProperties
    <3>2. Len(v) = Len(r) + Len(c) /\ \A i \in 1 .. Len(r) + Len(c) : v[i] = IF i <= Len(r) THEN r[i] ELSE c[i - Len(r)]
      BY <1>13, CatType DEF Row
    <3>3. n + 1 \in 1 .. (n + 1) + k /\ n + 1 <= n + 1
      OBVIOUS
    <3> QED
      BY <2>2, <3>1, <3>2, <3>3
  <2>4. DOMAIN v = 1 .. Len(v)
    BY LenProperties DEF Row
  <2> QED
    BY <1>3, <2>2, <2>3, <2>4 DEF ToSet
<1>15. SplitRecord(v) = Trimmed(Split(v, "\t"))
  BY <1>14 DEF SplitRecord
<1>16. Split(v, "\t") = Cat(p, Split(c, "\t"))
  <2>1. Split(Cat(Add(f, tab), c), tab) = Cat(Split(f, tab), Split(c, tab))
    BY <1>3, SplitAt DEF Row
  <2> QED
    BY <1>1, <1>3, <1>5, <1>13, <2>1
<1>17. PICK q \in Seq(Row) : q = Split(c, "\t")
  BY RowSplit
<1>18. Trimmed(Cat(p, q)) = Cat(Trimmed(p), Trimmed(q))
  BY <1>2, TrimmedCat DEF Row
<1>19. Trimmed(q) = Said(x)
  BY <1>9, <1>11, <1>17 DEF Said
<1> QED
  BY <1>1, <1>6, <1>7, <1>8, <1>9, <1>12, <1>13, <1>15, <1>16, <1>17, <1>18, <1>19

LEMMA Dispatch ==
  ASSUME NEW m, NEW key, NEW val
  PROVE  /\ ReadEntry(m, Header("plan"), key, val) = ReadPlan(m, key, val)
         /\ ReadEntry(m, Header("graph"), key, val) = ReadGraph(m, key, val)
         /\ ReadEntry(m, Header("strip"), key, val) = ReadStrip(m, key, val)
         /\ ReadEntry(m, Header("load"), key, val) = ReadLoad(m, key, val)
         /\ ReadEntry(m, Header("rebuild"), key, val) = ReadRebuild(m, key, val)
         /\ ReadEntry(m, Header("validate"), key, val) = ReadValidate(m, key, val)
         /\ ReadEntry(m, Header("fkdefine"), key, val) = ReadFkdefine(m, key, val)
         /\ ReadEntry(m, Header("stats"), key, val) = ReadStats(m, key, val)
         /\ ReadEntry(m, Header("triggers"), key, val) = ReadTriggers(m, key, val)
         /\ ReadEntry(m, Header("phases"), key, val) = ReadPhases(m, key, val)
<1>1. \A s, t : Header(s) = Header(t) => s = t
  BY HeaderIs
<1>2. PICK a, b, c, d, e, f, g, h, i, j :
        /\ a = Header("plan") /\ b = Header("graph") /\ c = Header("strip") /\ d = Header("load")
        /\ e = Header("rebuild") /\ f = Header("validate") /\ g = Header("fkdefine")
        /\ h = Header("stats") /\ i = Header("triggers") /\ j = Header("phases")
  OBVIOUS
<1>3. /\ b # a /\ c # a /\ d # a /\ e # a /\ f # a /\ g # a /\ h # a /\ i # a /\ j # a
      /\ c # b /\ d # b /\ e # b /\ f # b /\ g # b /\ h # b /\ i # b /\ j # b
      /\ d # c /\ e # c /\ f # c /\ g # c /\ h # c /\ i # c /\ j # c
      /\ e # d /\ f # d /\ g # d /\ h # d /\ i # d /\ j # d
      /\ f # e /\ g # e /\ h # e /\ i # e /\ j # e
      /\ g # f /\ h # f /\ i # f /\ j # f
      /\ h # g /\ i # g /\ j # g /\ i # h /\ j # h /\ j # i
  BY <1>1, <1>2
<1> QED
  BY <1>2, <1>3 DEF ReadEntry

LEMMA ChainRead ==
  /\ \A st, l : l \in Entry => ReadLines(st, Printed(<<l>>)) = ReadLines(st, Split(l, "\n"))
  /\ \A st, a, b : a \in Seq(Entry) /\ b \in Seq(Entry) =>
       ReadLines(st, Printed(Cat(a, b))) = ReadLines(ReadLines(st, Printed(a)), Printed(b))
  /\ \A st, a, l : a \in Seq(Entry) /\ l \in Entry =>
       ReadLines(st, Printed(Add(a, l))) = ReadLines(ReadLines(st, Printed(a)), Split(l, "\n"))
<1>1. ASSUME NEW st, NEW l \in Entry
      PROVE  ReadLines(st, Printed(<<l>>)) = ReadLines(st, Split(l, "\n"))
  <2>1. l \in Text
    BY EntryLines
  <2> QED
    BY <2>1, PrintedOne
<1>2. ASSUME NEW st, NEW a \in Seq(Entry), NEW b \in Seq(Entry)
      PROVE  ReadLines(st, Printed(Cat(a, b))) = ReadLines(ReadLines(st, Printed(a)), Printed(b))
  <2>1. a \in Seq(Text) /\ b \in Seq(Text)
    BY PrintedType
  <2>2. Printed(Cat(a, b)) = Cat(Printed(a), Printed(b))
    BY <2>1, PrintedCat
  <2>3. PICK x \in Seq(Row), y \in Seq(Row) : x = Printed(a) /\ y = Printed(b)
    BY <2>1, PrintedType
  <2>4. ReadLines(st, Cat(x, y)) = ReadLines(ReadLines(st, x), y)
    BY ReadCat
  <2> QED
    BY <2>2, <2>3, <2>4
<1>3. ASSUME NEW st, NEW a \in Seq(Entry), NEW l \in Entry
      PROVE  ReadLines(st, Printed(Add(a, l))) = ReadLines(ReadLines(st, Printed(a)), Split(l, "\n"))
  <2>1. PICK b \in Seq(Entry) : b = <<l>>
    BY One
  <2>2. Add(a, l) = Cat(a, b)
    BY <2>1, AddIs
  <2>3. PICK z : z = ReadLines(st, Printed(a))
    OBVIOUS
  <2>4. ReadLines(z, Printed(b)) = ReadLines(z, Split(l, "\n"))
    BY <1>1, <2>1
  <2>5. ReadLines(st, Printed(Cat(a, b))) = ReadLines(z, Printed(b))
    BY <1>2, <2>3
  <2> QED
    BY <2>2, <2>3, <2>4, <2>5
<1> QED
  BY <1>1, <1>2, <1>3

-----------------------------------------------------------------------------
(* The invariant of the runs.                                              *)

(* The order of the writes.                                                *)
LEMMA Places ==
  /\ Place("discovered") = 1 /\ Place("defined") = 2 /\ Place("graph") = 3 /\ Place("plan") = 4
  /\ Place("stripped") = 5 /\ Place("loaded") = 6 /\ Place("rebuilt") = 7
  /\ Place("fk_defined") = 8 /\ Place("stats_updated") = 9 /\ Place("done") = 10
  /\ Place("end") = 11
<1>1. /\ DOMAIN Order = 1 .. 11
      /\ Order[1] = "discovered" /\ Order[2] = "defined" /\ Order[3] = "graph" /\ Order[4] = "plan"
      /\ Order[5] = "stripped" /\ Order[6] = "loaded" /\ Order[7] = "rebuilt"
      /\ Order[8] = "fk_defined" /\ Order[9] = "stats_updated" /\ Order[10] = "done"
      /\ Order[11] = "end"
  BY DEF Order
<1>2. \A i, j \in 1 .. 11 : Order[i] = Order[j] => i = j
  BY <1>1
<1>3. \A i \in 1 .. 11 : Place(Order[i]) = i
  BY <1>1, <1>2 DEF Place
<1> QED
  BY <1>1, <1>3

LEMMA Afters ==
  /\ After("discovered") = "defined" /\ After("defined") = "graph" /\ After("graph") = "plan"
  /\ After("plan") = "stripped" /\ After("stripped") = "loaded" /\ After("loaded") = "rebuilt"
  /\ After("rebuilt") = "fk_defined" /\ After("fk_defined") = "stats_updated"
  /\ After("stats_updated") = "done" /\ After("done") = "end"
BY Places DEF After, Order

(* When the record of a section is due: it is there after that write.      *)
Due == [graph |-> 3, strip |-> 5, load |-> 6, rebuild |-> 7, validate |-> 8, fkdefine |-> 8,
        stats |-> 9, triggers |-> 10]

Owed(w) == {s \in Section : Due[s] < Place(w)}

Reached == {"discovered", "defined", "stripped", "loaded", "rebuilt", "fk_defined",
            "stats_updated", "done"}

(* The write that a run makes next when it has reached phase p.            *)
Follows(p, w) ==
  \/ p = "defined" /\ w \in {"graph", "plan", "stripped"}
  \/ p # "defined" /\ w = After(p)

(* A summary that a run holds or has written.                              *)
Held(m) == Loose(m) /\ m.has \subseteq Section /\ m.phase \in Reached /\ m.planned \in BOOLEAN

IInv ==
  /\ Held(mem)
  /\ Follows(mem.phase, write)
  /\ Owed(write) \subseteq mem.has
  /\ \E d : Held(d) /\ Owed(Resumed(d.phase)) \subseteq d.has /\ file = Render(d)

LEMMA LooseOther ==
  ASSUME NEW m, Loose(m), NEW f \in {"phase", "has", "planned"}, NEW v
  PROVE  /\ Loose(Put(m, f, v)) /\ Put(m, f, v)[f] = v
         /\ \A g \in Field9 : g # f => Put(m, f, v)[g] = m[g]
<1>1. IsSum(m) /\ f \in Field9
  BY DEF Loose, Field9
<1>2. /\ IsSum(Put(m, f, v)) /\ Put(m, f, v)[f] = v
      /\ \A g \in Field9 : g # f => Put(m, f, v)[g] = m[g]
  BY <1>1, PutIs
<1>3. \A s \in Section : s \in Field9 /\ s # f
  BY DEF Section, Field9
<1>4. \A s \in Section : Put(m, f, v)[s] \in Kinds[s]
  BY <1>2, <1>3, LooseIs
<1> QED
  BY <1>2, <1>4, LooseIs

LEMMA HeldPut ==
  ASSUME NEW m, Held(m), NEW s \in Section, NEW v \in Kinds[s]
  PROVE  Held(Put(m, s, v)) /\ Put(m, s, v).has = m.has /\ Put(m, s, v).phase = m.phase
         /\ Put(m, s, v).planned = m.planned
BY LoosePut DEF Held

LEMMA HeldOther ==
  ASSUME NEW m, Held(m)
  PROVE  /\ \A ph \in Reached : /\ Held(Put(m, "phase", ph)) /\ Put(m, "phase", ph).phase = ph
                                /\ Put(m, "phase", ph).has = m.has
         /\ \A b \in BOOLEAN : /\ Held(Put(m, "planned", b)) /\ Put(m, "planned", b).phase = m.phase
                               /\ Put(m, "planned", b).has = m.has
         /\ \A h \in SUBSET Section : /\ Held(Put(m, "has", h)) /\ Put(m, "has", h).phase = m.phase
                                      /\ Put(m, "has", h).has = h
<1>1. Loose(m) /\ m.has \subseteq Section /\ m.phase \in Reached /\ m.planned \in BOOLEAN
  BY DEF Held
<1>2. "phase" \in Field9 /\ "has" \in Field9 /\ "planned" \in Field9
  BY DEF Field9
<1>3. ASSUME NEW v
      PROVE  /\ Loose(Put(m, "phase", v)) /\ Put(m, "phase", v).phase = v
             /\ Put(m, "phase", v).has = m.has /\ Put(m, "phase", v).planned = m.planned
             /\ Loose(Put(m, "has", v)) /\ Put(m, "has", v).has = v
             /\ Put(m, "has", v).phase = m.phase /\ Put(m, "has", v).planned = m.planned
             /\ Loose(Put(m, "planned", v)) /\ Put(m, "planned", v).planned = v
             /\ Put(m, "planned", v).has = m.has /\ Put(m, "planned", v).phase = m.phase
  BY <1>1, <1>2, LooseOther
<1> QED
  BY <1>1, <1>3 DEF Held

(* What a phase adds to the summaries.                                     *)
Worked(m, ph, s, v) == [m EXCEPT !.phase = ph, !.planned = TRUE, !.has = @ \cup {s}, ![s] = v]

LEMMA HeldWork ==
  ASSUME NEW m, Held(m), NEW ph \in Reached, NEW s \in Section, NEW v \in Kinds[s], NEW n,
         n = Worked(m, ph, s, v)
  PROVE  Held(n) /\ n.phase = ph /\ n.has = m.has \cup {s}
<1>1. PICK a : a = Put(m, "phase", ph)
  OBVIOUS
<1>2. Held(a) /\ a.phase = ph /\ a.has = m.has
  BY <1>1, HeldOther
<1>3. PICK b : b = Put(a, "planned", TRUE)
  OBVIOUS
<1>4. Held(b) /\ b.phase = ph /\ b.has = m.has
  BY <1>2, <1>3, HeldOther
<1>5. PICK h \in SUBSET Section : h = m.has \cup {s}
  BY DEF Held
<1>6. PICK c : c = Put(b, "has", h)
  OBVIOUS
<1>7. Held(c) /\ c.phase = ph /\ c.has = h
  BY <1>4, <1>6, HeldOther
<1>8. n = Put(c, s, v)
  <2>1. n = [[[[m EXCEPT !["phase"] = ph] EXCEPT !["planned"] = TRUE] EXCEPT !["has"] = @ \cup {s}] EXCEPT ![s] = v]
    BY DEF Worked
  <2>2. b = [[m EXCEPT !["phase"] = ph] EXCEPT !["planned"] = TRUE]
    BY <1>1, <1>3 DEF Put
  <2>3. n = [[b EXCEPT !["has"] = @ \cup {s}] EXCEPT ![s] = v]
    BY <2>1, <2>2
  <2>4. c = [b EXCEPT !["has"] = h]
    BY <1>6 DEF Put
  <2>5. b.has \cup {s} = h
    BY <1>4, <1>5
  <2>6. [b EXCEPT !["has"] = @ \cup {s}] = c
    BY <2>4, <2>5
  <2> QED
    BY <2>3, <2>6 DEF Put
<1>9. Held(Put(c, s, v)) /\ Put(c, s, v).has = c.has /\ Put(c, s, v).phase = c.phase
  BY <1>7, HeldPut
<1>10. Held(n) /\ n.has = c.has /\ n.phase = c.phase
  BY <1>8, <1>9
<1> QED
  BY <1>5, <1>7, <1>10

LEMMA Kindred ==
  /\ "graph" \in Section /\ "strip" \in Section /\ "load" \in Section /\ "rebuild" \in Section
  /\ "validate" \in Section /\ "fkdefine" \in Section /\ "stats" \in Section
  /\ "triggers" \in Section
  /\ Kinds["graph"] = LooseGraph /\ Kinds["strip"] = Seq(LooseConstraint) /\ Kinds["load"] = LooseLoad
  /\ Kinds["rebuild"] = LooseRebuild /\ Kinds["validate"] = LooseValidate
  /\ Kinds["fkdefine"] = LooseFkdefine /\ Kinds["stats"] = LooseStats
  /\ Kinds["triggers"] = LooseTriggers
BY DEF Kinds, Section

LEMMA InitInv == Init => IInv
<1> SUFFICES ASSUME Init PROVE IInv
  OBVIOUS
<1>1. mem = Nothing /\ write = "defined" /\ file = Render(Nothing)
  BY DEF Init
<1>2. Held(Nothing) /\ Nothing.phase = "discovered" /\ Nothing.has = {}
  BY NothingIs DEF Held, Nothing, Reached
<1>3. Owed("defined") = {}
  BY Places DEF Owed, Due, Section
<1>4. Resumed("discovered") = "defined" /\ Follows("discovered", "defined")
  BY Afters DEF Resumed, Follows
<1> QED
  BY <1>1, <1>2, <1>3, <1>4 DEF IInv

(* A write leaves what it wrote in the file.                               *)
LEMMA WrittenInv ==
  ASSUME NEW n, Held(n), Written(n), Follows(n.phase, After(write)),
         Owed(After(write)) \subseteq n.has, Owed(Resumed(n.phase)) \subseteq n.has
  PROVE  IInv'
<1>1. mem' = n /\ file' = Render(n) /\ write' = After(write)
  BY DEF Written
<1>2. Held(mem)' /\ Follows(mem.phase, write)' /\ (Owed(write) \subseteq mem.has)'
  BY <1>1
<1> QED
  BY <1>1, <1>2 DEF IInv

(* The end of a phase that makes one summary.                              *)
LEMMA AfterInv ==
  ASSUME IInv, NEW phase \in Reached \ {"discovered", "defined"}, NEW s \in Section, NEW v \in Kinds[s],
         Owed(After(phase)) \subseteq Owed(phase) \cup {s}, WriteAfter(phase, s, v)
  PROVE  IInv'
<1>1. write = phase /\ Held(mem) /\ Owed(write) \subseteq mem.has
  BY DEF WriteAfter, IInv
<1>2. PICK n : n = Worked(mem, phase, s, v)
  OBVIOUS
<1>3. Held(n) /\ n.phase = phase /\ n.has = mem.has \cup {s}
  BY <1>1, <1>2, HeldWork
<1>4. Written(n)
  BY <1>2 DEF WriteAfter, Worked
<1>5. Follows(phase, After(phase)) /\ Resumed(phase) = After(phase)
  BY DEF Follows, Resumed
<1>6. Owed(After(phase)) \subseteq n.has
  BY <1>1, <1>3
<1> QED
  BY <1>1, <1>3, <1>4, <1>5, <1>6, WrittenInv

LEMMA Owing ==
  /\ Owed("defined") = {} /\ Owed("graph") = {} /\ Owed("plan") = {"graph"}
  /\ Owed("stripped") = {"graph"} /\ Owed("loaded") = {"graph", "strip"}
  /\ Owed("rebuilt") = {"graph", "strip", "load"}
  /\ Owed("fk_defined") = {"graph", "strip", "load", "rebuild"}
  /\ Owed("stats_updated") = {"graph", "strip", "load", "rebuild", "validate", "fkdefine"}
  /\ Owed("done") = {"graph", "strip", "load", "rebuild", "validate", "fkdefine", "stats"}
  /\ Owed("end") = Section
BY Places DEF Owed, Due, Section

LEMMA SumsHeld ==
  ASSUME NEW d, Held(d), NEW m \in Sums(d.has, d.phase, FALSE)
  PROVE  Held(m) /\ m.has = d.has /\ m.phase = d.phase
<1>1. PICK hs, ph, pl : hs = d.has /\ ph = d.phase /\ pl = FALSE
  OBVIOUS
<1>2. m \in Sums(hs, ph, pl)
  BY <1>1
<1>3. Loose(m) /\ m.has = hs /\ m.phase = ph /\ m.planned = pl
  BY <1>2, SumsIs
<1> QED
  BY <1>1, <1>3 DEF Held

LEMMA NextInv == IInv /\ [Next]_vars => IInv'
<1> SUFFICES ASSUME IInv, [Next]_vars PROVE IInv'
  OBVIOUS
<1>0. Held(mem) /\ Follows(mem.phase, write) /\ Owed(write) \subseteq mem.has
  BY DEF IInv
<1>1. CASE WriteDefined
  <2>1. PICK n : n = Put(mem, "phase", "defined")
    OBVIOUS
  <2>2. Held(n) /\ n.phase = "defined"
    BY <1>0, <2>1, HeldOther DEF Reached
  <2>3. Written(n) /\ write = "defined"
    BY <1>1, <2>1 DEF WriteDefined, Put
  <2>4. After(write) = "graph" /\ Resumed("defined") = "graph" /\ Follows("defined", "graph")
    BY <2>3, Afters DEF Resumed, Follows
  <2> QED
    BY <2>2, <2>3, <2>4, Owing, WrittenInv
<1>2. CASE WriteGraph
  <2>0. write = "graph" /\ After(write) = "plan" /\ mem.phase = "defined"
    <3>1. write = "graph"
      BY <1>2 DEF WriteGraph
    <3>2. mem.phase \in Reached
      BY <1>0 DEF Held
    <3> QED
      BY <1>0, <3>1, <3>2, Afters DEF Follows, Reached
  <2>1. Resumed("defined") = "graph" /\ Follows("defined", "plan")
    BY DEF Resumed, Follows
  <2>2. CASE "graph" \in mem.has /\ Written([mem EXCEPT !.planned = FALSE])
    <3>1. PICK n : n = Put(mem, "planned", FALSE)
      OBVIOUS
    <3>2. Held(n) /\ n.phase = "defined" /\ n.has = mem.has
      BY <1>0, <2>0, <3>1, HeldOther
    <3>3. Written(n)
      BY <2>2, <3>1 DEF Put
    <3> QED
      BY <2>0, <2>1, <2>2, <3>2, <3>3, Owing, WrittenInv
  <2>3. ASSUME NEW g \in Graphs, Written([mem EXCEPT !.has = @ \cup {"graph"}, !.graph = g])
        PROVE  IInv'
    <3>1. PICK h \in SUBSET Section : h = mem.has \cup {"graph"}
      BY <1>0, Kindred DEF Held
    <3>2. PICK a : a = Put(mem, "has", h)
      OBVIOUS
    <3>3. Held(a) /\ a.phase = "defined" /\ a.has = h
      BY <1>0, <2>0, <3>2, HeldOther
    <3>4. PICK n : n = Put(a, "graph", g)
      OBVIOUS
    <3>5. g \in Kinds["graph"]
      BY WorksLoose, Kindred
    <3>6. Held(n) /\ n.phase = a.phase /\ n.has = a.has
      BY <3>3, <3>4, <3>5, Kindred, HeldPut
    <3>7. n = [mem EXCEPT !.has = @ \cup {"graph"}, !.graph = g]
      BY <3>1, <3>2, <3>4 DEF Put
    <3>8. Written(n)
      BY <2>3, <3>7
    <3> QED
      BY <2>0, <2>1, <3>1, <3>3, <3>6, <3>8, Owing, WrittenInv
  <2> QED
    BY <1>2, <2>2, <2>3 DEF WriteGraph
<1>3. CASE WritePlan
  <2>0. write = "plan" /\ After(write) = "stripped" /\ mem.phase = "defined"
    <3>1. write = "plan"
      BY <1>3 DEF WritePlan
    <3>2. mem.phase \in Reached
      BY <1>0 DEF Held
    <3> QED
      BY <1>0, <3>1, <3>2, Afters DEF Follows, Reached
  <2>1. PICK n : n = Put(mem, "planned", TRUE)
    OBVIOUS
  <2>2. Held(n) /\ n.phase = "defined" /\ n.has = mem.has
    BY <1>0, <2>0, <2>1, HeldOther
  <2>3. Written(n)
    BY <1>3, <2>1 DEF WritePlan, Put
  <2>4. Resumed("defined") = "graph" /\ Follows("defined", "stripped")
    BY DEF Resumed, Follows
  <2> QED
    BY <1>0, <2>0, <2>2, <2>3, <2>4, Owing, WrittenInv
<1>4. ASSUME NEW s \in Strips, WriteAfter("stripped", "strip", s) PROVE IInv'
  <2>1. s \in Kinds["strip"]
    BY WorksLoose, Kindred
  <2>2. Owed(After("stripped")) \subseteq Owed("stripped") \cup {"strip"}
    BY Afters, Owing
  <2> QED
    BY <1>4, <2>1, <2>2, Kindred, AfterInv DEF Reached
<1>5. ASSUME NEW l \in Loads, WriteAfter("loaded", "load", l) PROVE IInv'
  <2>1. l \in Kinds["load"]
    BY WorksLoose, Kindred
  <2>2. Owed(After("loaded")) \subseteq Owed("loaded") \cup {"load"}
    BY Afters, Owing
  <2> QED
    BY <1>5, <2>1, <2>2, Kindred, AfterInv DEF Reached
<1>6. ASSUME NEW r \in Rebuilds, WriteAfter("rebuilt", "rebuild", r) PROVE IInv'
  <2>1. r \in Kinds["rebuild"]
    BY WorksLoose, Kindred
  <2>2. Owed(After("rebuilt")) \subseteq Owed("rebuilt") \cup {"rebuild"}
    BY Afters, Owing
  <2> QED
    BY <1>6, <2>1, <2>2, Kindred, AfterInv DEF Reached
<1>7. CASE WriteFkDefined
  <2>1. PICK w \in FkWorks :
          Written([mem EXCEPT !.phase = "fk_defined", !.planned = TRUE,
                              !.has = @ \cup {"validate", "fkdefine"}, !.validate = w.edges,
                              !.fkdefine = [defined |-> w.defined, withheld |-> w.withheld]])
    BY <1>7 DEF WriteFkDefined
  <2>2. write = "fk_defined"
    BY <1>7 DEF WriteFkDefined
  <2>3. PICK f : f = [defined |-> w.defined, withheld |-> w.withheld]
    OBVIOUS
  <2>4. w.edges \in Kinds["validate"] /\ f \in Kinds["fkdefine"]
    BY <2>3, WorksLoose, Kindred
  <2>5. PICK h \in SUBSET Section : h = mem.has \cup {"validate", "fkdefine"}
    BY <1>0, Kindred DEF Held
  <2>6. PICK a : a = Put(mem, "phase", "fk_defined")
    OBVIOUS
  <2>7. Held(a) /\ a.phase = "fk_defined"
    BY <1>0, <2>6, HeldOther DEF Reached
  <2>8. PICK b : b = Put(a, "planned", TRUE)
    OBVIOUS
  <2>9. Held(b) /\ b.phase = "fk_defined"
    BY <2>7, <2>8, HeldOther
  <2>10. PICK c : c = Put(b, "has", h)
    OBVIOUS
  <2>11. Held(c) /\ c.phase = "fk_defined" /\ c.has = h
    BY <2>9, <2>10, HeldOther
  <2>12. PICK e : e = Put(c, "validate", w.edges)
    OBVIOUS
  <2>13. Held(e) /\ e.phase = "fk_defined" /\ e.has = h
    <3>1. Held(e) /\ e.phase = c.phase /\ e.has = c.has
      BY <2>4, <2>11, <2>12, Kindred, HeldPut
    <3> QED
      BY <2>11, <3>1
  <2>14. PICK n : n = Put(e, "fkdefine", f)
    OBVIOUS
  <2>15. Held(n) /\ n.phase = "fk_defined" /\ n.has = h
    <3>1. Held(n) /\ n.phase = e.phase /\ n.has = e.has
      BY <2>4, <2>13, <2>14, Kindred, HeldPut
    <3> QED
      BY <2>13, <3>1
  <2>16. n = [mem EXCEPT !.phase = "fk_defined", !.planned = TRUE,
                              !.has = @ \cup {"validate", "fkdefine"}, !.validate = w.edges,
                              !.fkdefine = f]
    BY <2>5, <2>6, <2>8, <2>10, <2>12, <2>14 DEF Put
  <2>17. Written(n)
    BY <2>1, <2>3, <2>16
  <2>18. /\ After(write) = "stats_updated" /\ Resumed("fk_defined") = "stats_updated"
         /\ Follows("fk_defined", "stats_updated")
    BY <2>2, Afters DEF Resumed, Follows
  <2>19. Owed("stats_updated") \subseteq h
    BY <1>0, <2>2, <2>5, Owing
  <2> QED
    BY <2>15, <2>17, <2>18, <2>19, WrittenInv
<1>8. ASSUME NEW s \in StatWorks, WriteAfter("stats_updated", "stats", s) PROVE IInv'
  <2>1. s \in Kinds["stats"]
    BY WorksLoose, Kindred
  <2>2. Owed(After("stats_updated")) \subseteq Owed("stats_updated") \cup {"stats"}
    BY Afters, Owing
  <2> QED
    BY <1>8, <2>1, <2>2, Kindred, AfterInv DEF Reached
<1>9. ASSUME NEW t \in TriggerWorks, WriteAfter("done", "triggers", t) PROVE IInv'
  <2>1. t \in Kinds["triggers"]
    BY WorksLoose, Kindred
  <2>2. Owed(After("done")) \subseteq Owed("done") \cup {"triggers"}
    BY Afters, Owing DEF Section
  <2> QED
    BY <1>9, <2>1, <2>2, Kindred, AfterInv DEF Reached
<1>10. CASE Resume
  <2>1. PICK d : Held(d) /\ Owed(Resumed(d.phase)) \subseteq d.has /\ file = Render(d)
    BY DEF IInv
  <2>2. PICK found : found = Read(file)
    OBVIOUS
  <2>3. mem' = found /\ write' = Resumed(found.phase) /\ file' = file
    BY <1>10, <2>2 DEF Resume
  <2>4. found \in Sums(d.has, d.phase, FALSE)
    BY <2>1, <2>2, ReadRender DEF Held, Reached, PhaseName
  <2>5. Held(found) /\ found.has = d.has /\ found.phase = d.phase
    BY <2>1, <2>4, SumsHeld
  <2>6. Follows(found.phase, Resumed(found.phase))
    BY DEF Follows, Resumed
  <2>7. Held(mem)' /\ Follows(mem.phase, write)' /\ (Owed(write) \subseteq mem.has)'
    BY <2>1, <2>3, <2>5, <2>6
  <2> QED
    BY <2>1, <2>3, <2>7 DEF IInv
<1>11. CASE UNCHANGED vars
  BY <1>11 DEF IInv, vars
<1> QED
  BY <1>1, <1>2, <1>3, <1>4, <1>5, <1>6, <1>7, <1>8, <1>9, <1>10, <1>11 DEF Next, End

LEMMA InvComplete == IInv => NeverIncomplete
<1> SUFFICES ASSUME IInv PROVE ~Refused(Read(file))
  BY DEF NeverIncomplete
<1>1. PICK d : Held(d) /\ Owed(Resumed(d.phase)) \subseteq d.has /\ file = Render(d)
  BY DEF IInv
<1>2. PICK m : m = Read(file)
  OBVIOUS
<1>3. m \in Sums(d.has, d.phase, FALSE)
  BY <1>1, <1>2, ReadRender DEF Held, Reached, PhaseName
<1>4. m.has = d.has /\ m.phase = d.phase /\ d.phase \in Reached
  BY <1>1, <1>3, SumsHeld DEF Held
<1>5. ~Refused(m)
  BY <1>1, <1>4, Places, Afters, Owing DEF Refused, Resumed, Reached
<1> QED
  BY <1>2, <1>5

(* What a run holds and what the file has are summaries with the sections  *)
(* that their phase calls for.                                             *)
THEOREM Inductive == Spec => []IInv
BY InitInv, NextInv, PTL DEF Spec

(* No manifest of this program is refused by it as incomplete (l.666 of    *)
(* import_db.cpp), whatever the names, reasons and statements in it are.   *)
THEOREM Complete == Spec => []NeverIncomplete
BY Inductive, InvComplete, PTL
================================================================================
