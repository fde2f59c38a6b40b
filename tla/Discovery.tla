------------------------------- MODULE Discovery -------------------------------
(***************************************************************************)
(* discover() of src/src/import_discovery.cpp: which files of the dump     *)
(* directory belong to the dump, and check_object_roster() of              *)
(* src/src/import_db.cpp, which asks whether every class has its file.     *)
(*                                                                         *)
(* A file name is a sequence of symbols: the words, "_" and ".".  The      *)
(* code's tests on names (equal, starts with, ends with) are those on the  *)
(* sequences.                                                              *)
(***************************************************************************)
EXTENDS Naturals, FiniteSets, SequencesExt

CONSTANTS
  Name,      \* the file names that may be in the directory
  ClassName, \* the names that classes of the graph may have
  Rank,      \* [symbol -> Nat]: the order of the symbols in a sorted list
  MaxFiles   \* bound: files in the directory

ASSUME DiscoveryAssumption ==
  /\ \A n \in Name : n \in Seq(DOMAIN Rank)
  /\ MaxFiles \in Nat

VARIABLES
  dir,      \* the regular files of the directory
  listed,   \* the names in <prefix>_schema_info
  nodes,    \* the classes of the graph that the import will build
  pc,       \* the next step, or how it ended
  left,     \* entries not classified yet
  set       \* the import_set

dvars == <<dir, listed, nodes, pc, left, set>>

-----------------------------------------------------------------------------
SCHEMA_INFO  == <<"_", "schema", "_", "info">>
SCHEMA_CLASS == <<"_", "schema", "_", "class">>
SCHEMA_PK    == <<"_", "schema", "_", "pk">>
SCHEMA_UK    == <<"_", "schema", "_", "uk">>
SCHEMA_FK    == <<"_", "schema", "_", "fk">>
SCHEMA       == <<"_", "schema">>
INDEXES      == <<"_", "indexes">>
TRIGGER      == <<"_", "trigger">>
OBJECTS      == <<"_", "objects">>

(* DUMP_ARTIFACT_SUFFIXES, and the anchors of derive_prefix in their order. *)
ArtifactSuffixes == {SCHEMA_INFO, SCHEMA_CLASS, SCHEMA_PK, SCHEMA_UK, SCHEMA_FK,
             SCHEMA, INDEXES, TRIGGER, OBJECTS}
Anchors == <<SCHEMA_INFO, SCHEMA_CLASS, SCHEMA, INDEXES, TRIGGER>>

LooksLikeArtifact(e) == \E s \in ArtifactSuffixes : IsSuffix(s, e)

(* What a name has before a suffix.                                        *)
Stem(e, suffix) == SubSeq(e, 1, Len(e) - Len(suffix))

(* The order std::sort puts the entries in.                                *)
Less(e, f) ==
  \E n \in 1 .. Len(f) :
    /\ \A k \in 1 .. n - 1 : k <= Len(e) /\ e[k] = f[k]
    /\ n <= Len(e) => Rank[e[n]] < Rank[f[n]]

IsFirst(e, entries) == {f \in entries : Less(e, f)} = entries \ {e}

EmptySet ==
  [prefix |-> <<>>, schema |-> FALSE, class |-> FALSE, info |-> FALSE,
   index |-> FALSE, trigger |-> FALSE, objects |-> {}, kind |-> "SINGLE",
   layout |-> "DEFAULT"]

-----------------------------------------------------------------------------
DInit ==
  /\ dir \in {D \in SUBSET Name : Cardinality(D) <= MaxFiles}
  /\ listed \in {L \in SUBSET Name : L \subseteq dir \/ Cardinality(L) = 1}
  /\ nodes \in SUBSET ClassName
  /\ pc = "prefix"
  /\ left = dir
  /\ set = EmptySet

Stop(how) ==
  /\ pc' = how
  /\ UNCHANGED <<dir, listed, nodes, left, set>>

(* The names that a step of derive_prefix looks for: those with the k-th   *)
(* anchor, and after the last anchor the object files without a class.     *)
Candidates(k) ==
  IF k <= Len(Anchors) THEN {e \in dir : IsSuffix(Anchors[k], e)}
  ELSE {e \in dir : IsSuffix(OBJECTS, e) /\ Stem(e, OBJECTS) # <<>>
                    /\ "." \notin ToSet(Stem(e, OBJECTS))}

AnchorAt(k) == IF k <= Len(Anchors) THEN Anchors[k] ELSE OBJECTS

(* Mutant: the prefix is taken from the first object file.                 *)
MutDerivePrefix ==
  /\ pc = "prefix"
  /\ \E e \in dir :
       /\ IsSuffix(OBJECTS, e)
       /\ IsFirst(e, {f \in dir : IsSuffix(OBJECTS, f)})
       /\ set' = [set EXCEPT !.prefix = Stem(e, OBJECTS)]
       /\ pc' = "classify"
       /\ UNCHANGED <<dir, listed, nodes, left>>

DerivePrefix ==
  /\ pc = "prefix"
  /\ \/ /\ \A k \in 1 .. Len(Anchors) + 1 : Candidates(k) = {}
        /\ Stop("no_dump")
     \/ \E k \in 1 .. Len(Anchors) + 1 :
          /\ Candidates(k) # {}
          /\ \A j \in 1 .. k - 1 : Candidates(j) = {}
          /\ \E e \in Candidates(k) :
               /\ IsFirst(e, Candidates(k))
               /\ \/ /\ Stem(e, AnchorAt(k)) = <<>>
                     /\ Stop("no_dump")
                  \/ /\ Stem(e, AnchorAt(k)) # <<>>
                     /\ set' = [set EXCEPT !.prefix = Stem(e, AnchorAt(k))]
                     /\ pc' = "classify"
                     /\ UNCHANGED <<dir, listed, nodes, left>>

Classified(e) ==
  LET p == set.prefix
  IN  IF e = p \o SCHEMA THEN [set EXCEPT !.schema = TRUE]
      ELSE IF e = p \o SCHEMA_CLASS THEN [set EXCEPT !.class = TRUE]
      ELSE IF e = p \o SCHEMA_INFO THEN [set EXCEPT !.info = TRUE]
      ELSE IF e = p \o INDEXES THEN [set EXCEPT !.index = TRUE]
      ELSE IF e = p \o TRIGGER THEN [set EXCEPT !.trigger = TRUE]
      ELSE IF IsSuffix(OBJECTS, e)
        THEN [set EXCEPT !.objects = @ \cup {e},
                         !.kind = IF e = p \o OBJECTS THEN "SINGLE" ELSE "PER_CLASS"]
      ELSE set

Classify(e) ==
  /\ pc = "classify"
  /\ IsFirst(e, left)
  /\ \/ /\ IsPrefix(set.prefix \o <<"_">>, e)
        /\ set' = Classified(e)
        /\ left' = left \ {e}
        /\ UNCHANGED <<dir, listed, nodes, pc>>
     \/ /\ ~IsPrefix(set.prefix \o <<"_">>, e)
        /\ LooksLikeArtifact(e)
        /\ Stop("prefix_mismatch")
     \/ /\ ~IsPrefix(set.prefix \o <<"_">>, e)
        /\ ~LooksLikeArtifact(e)
        /\ left' = left \ {e}
        /\ UNCHANGED <<dir, listed, nodes, pc, set>>

ListedThere == listed \subseteq dir

Resolve ==
  /\ pc = "classify"
  /\ left = {}
  /\ \/ /\ set.info /\ ~ListedThere
        /\ Stop("schema_info_missing")
     \/ /\ ~set.info /\ ~set.schema
        /\ Stop("no_schema")
     \/ /\ IF set.info THEN ListedThere ELSE set.schema
        /\ set.objects = {}
        /\ Stop("no_objects")
     \/ /\ IF set.info THEN ListedThere ELSE set.schema
        /\ set.objects # {}
        /\ set' = [set EXCEPT !.layout = IF set.info THEN "SPLIT" ELSE "DEFAULT"]
        /\ pc' = "discovered"
        /\ UNCHANGED <<dir, listed, nodes, left>>

(* check_object_roster, once the graph is built: the class part of a name  *)
(* is matched as a suffix.                                                 *)
FileOf(c, f) ==
  \/ IsSuffix(<<".">> \o c \o OBJECTS, f)
  \/ IsSuffix(<<"_">> \o c \o OBJECTS, f)

CheckRoster ==
  /\ pc = "discovered"
  /\ Stop(IF set.kind = "PER_CLASS"
               /\ \E c \in nodes : \A f \in set.objects : ~FileOf(c, f)
          THEN "file_missing" ELSE "accepted")

Ended ==
  /\ pc \notin {"prefix", "classify", "discovered"}
  /\ UNCHANGED dvars

DNext ==
  \/ DerivePrefix
  \/ \E e \in left : Classify(e)
  \/ Resolve
  \/ CheckRoster
  \/ Ended

DSpec == DInit /\ [][DNext]_dvars

-----------------------------------------------------------------------------
(* The type of every variable.                                             *)
TypeOK ==
  /\ dir \subseteq Name /\ listed \subseteq Name /\ nodes \subseteq ClassName
  /\ pc \in {"prefix", "classify", "discovered", "accepted", "no_dump",
             "prefix_mismatch", "schema_info_missing", "no_schema",
             "no_objects", "file_missing"}
  /\ left \subseteq dir
  /\ set.objects \subseteq dir
  /\ set.kind \in {"SINGLE", "PER_CLASS"} /\ set.layout \in {"DEFAULT", "SPLIT"}

Rostered == pc \in {"discovered", "accepted", "file_missing"}

(* One dump: its files all carry one prefix, the object files a class      *)
(* after it, and the files it needs are there.                             *)
OneDump(p) ==
  /\ p # <<>> /\ "." \notin ToSet(p)
  /\ \A e \in dir : LooksLikeArtifact(e) =>
       \/ \E s \in ArtifactSuffixes : e = p \o s
       \/ IsPrefix(p \o <<"_">>, e) /\ IsSuffix(OBJECTS, e)
          /\ "." \in ToSet(e)
  /\ p \o SCHEMA_INFO \in dir => listed \subseteq dir
  /\ p \o SCHEMA_INFO \in dir \/ p \o SCHEMA \in dir
  /\ \E e \in dir : IsSuffix(OBJECTS, e)

(* A directory that holds one dump, whatever else is in it, is discovered  *)
(* as that dump, with all of its files in their roles.                     *)
OneDumpFound ==
  \A p \in {Stem(e, s) : e \in {n \in dir : LooksLikeArtifact(n)}, s \in ArtifactSuffixes} :
    OneDump(p) /\ pc \notin {"prefix", "classify"} =>
      /\ Rostered
      /\ set.prefix = p
      /\ set.objects = {e \in dir : IsSuffix(OBJECTS, e)}
      /\ set.index = (p \o INDEXES \in dir)
      /\ set.trigger = (p \o TRIGGER \in dir)
      /\ set.layout = IF p \o SCHEMA_INFO \in dir THEN "SPLIT" ELSE "DEFAULT"

(* What the later phases will open is in the directory.                    *)
NothingMissing ==
  Rostered =>
    /\ set.layout = "DEFAULT" => set.prefix \o SCHEMA \in dir
    /\ set.layout = "SPLIT" => listed \subseteq dir
    /\ set.index => set.prefix \o INDEXES \in dir
    /\ set.objects # {}

(* "classify each file; a foreign-prefix artifact is a prefix mismatch"    *)
(* (import_discovery.cpp): a directory with the schema, index or trigger   *)
(* file of another dump is refused.                                        *)
ForeignRefused ==
  Rostered =>
    \A e \in dir : LooksLikeArtifact(e) /\ ~IsSuffix(OBJECTS, e) =>
      \E s \in ArtifactSuffixes : e = set.prefix \o s

(* object_layout (import_discovery.hpp): SINGLE is one file, PER_CLASS one *)
(* file per class; a roster that is both holds the rows of a class twice.  *)
OneLayout ==
  Rostered =>
    (set.prefix \o OBJECTS \in set.objects => set.objects = {set.prefix \o OBJECTS})

(* check_object_roster (import_db.cpp): "a class without one means the     *)
(* file is missing", and the import does not go on with the class empty.   *)
MissingFileNoticed ==
  pc = "accepted" /\ set.kind = "PER_CLASS" =>
    \A c \in nodes : \E f \in set.objects :
      \/ f = set.prefix \o <<"_">> \o c \o OBJECTS
      \/ \E o \in DOMAIN Rank :
           f = set.prefix \o <<"_", o, ".">> \o c \o OBJECTS
================================================================================
