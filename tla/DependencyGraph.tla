---------------------------- MODULE DependencyGraph ----------------------------
(***************************************************************************)
(* build_graph() of src/src/import_graph.cpp: the user classes of the      *)
(* catalog, the foreign keys and the inheritance between them, the foreign *)
(* key cycles that a depth-first search meets, and the level sets of the   *)
(* data phase, which keep inheritance and drop the foreign keys between    *)
(* classes on cycles.                                                      *)
(*                                                                         *)
(* Simplifications.  The search takes classes and edges in the order of    *)
(* names and of an unordered query; here, in any order.  Key columns,      *)
(* partitions and serials are copied to the nodes and not modelled.        *)
(* Classes are told apart by their names alone, as in the code.            *)
(***************************************************************************)
EXTENDS Naturals, Sequences, FiniteSets

CONSTANTS
  Class,          \* the classes in the catalog, which have names of their own
  FkName,         \* constraint names
  PseudoName,     \* the class names that have "__p__" in them
  MaxFk,          \* bound: FK rows in the catalog
  MaxInherit      \* bound: inheritance rows

ASSUME GraphAssumption ==
  /\ IsFiniteSet(Class)
  /\ PseudoName \subseteq Class
  /\ MaxFk \in Nat /\ MaxInherit \in Nat

VARIABLES
  catalog,    \* what the catalog queries return
  skip,       \* --skip-object-classes
  single,     \* object_layout::SINGLE
  pc,         \* "catalog", "cycles", "levels", "done" or "rejected"
  nodes, fks, inherits,    \* the graph: its classes and its edges
  color, stack, todo,      \* the search: todo are the edges not looked at
  finished,   \* history variable: the classes in the order they turn black
  cycles,     \* the cycles it has met, each a sequence of classes
  indeg, frontier, levels  \* the layering

graphVars == <<nodes, fks, inherits>>
searchVars == <<color, stack, todo, finished, cycles>>
levelVars == <<indeg, frontier, levels>>
vars == <<catalog, skip, single, pc, graphVars, searchVars, levelVars>>

FkEdge == [child : Class, parent : Class, name : FkName]
InheritEdge == [child : Class, super : Class]

Acyclic(rel) ==
  \A S \in SUBSET Class : S # {} =>
    \E c \in S : \A d \in S : <<d, c>> \notin rel

(* A catalog: partitions are classes whose names say so, but a user may    *)
(* have given such a name to a table; inheritance is acyclic.              *)
Catalog ==
  [partitions : SUBSET PseudoName, objectValued : SUBSET Class,
   fks : SUBSET FkEdge, inherits : SUBSET InheritEdge]

Few(S, n) == {T \in SUBSET S : Cardinality(T) <= n}

-----------------------------------------------------------------------------
Init ==
  /\ \E p \in SUBSET PseudoName, o \in SUBSET Class,
        i \in {T \in Few(InheritEdge, MaxInherit) :
               Acyclic({<<e.super, e.child>> : e \in T})} :
       \E f \in Few([child : Class \ p, parent : Class \ p, name : FkName], MaxFk) :
         catalog = [partitions |-> p, objectValued |-> o, fks |-> f, inherits |-> i]
  /\ skip \in BOOLEAN
  /\ single \in BOOLEAN
  /\ pc = "catalog"
  /\ nodes = {} /\ fks = {} /\ inherits = {}
  /\ color = [c \in Class |-> "white"]
  /\ stack = <<>>
  /\ todo = {}
  /\ finished = <<>>
  /\ cycles = {}
  /\ indeg = [c \in Class |-> 0]
  /\ frontier = {}
  /\ levels = <<>>

(* The user classes, as far as their names tell.                           *)
UserClasses == Class \ PseudoName

Offending == UserClasses \cap catalog.objectValued

(* A query failed, or a class has object columns and may not be skipped,   *)
(* or its rows are in the one object file together with the others.        *)
Reject ==
  /\ pc = "catalog"
  /\ pc' = "rejected"
  /\ UNCHANGED <<catalog, skip, single, graphVars, searchVars, levelVars>>

(* The classes that stay, and the edges between them.                      *)
ReadGraph ==
  /\ pc = "catalog"
  /\ Offending # {} => skip /\ ~single
  /\ nodes' = UserClasses \ Offending
  /\ fks' = {e \in catalog.fks : {e.child, e.parent} \subseteq nodes'}
  /\ inherits' = {e \in catalog.inherits : {e.child, e.super} \subseteq nodes'}
  /\ todo' = fks'
  /\ pc' = "cycles"
  /\ UNCHANGED <<catalog, skip, single, color, stack, finished, cycles, levelVars>>

-----------------------------------------------------------------------------
(* find_cycles: the search over the foreign keys, child to parent.         *)
Top == stack[Len(stack)]

Discover(c) ==
  /\ color' = [color EXCEPT ![c] = "grey"]
  /\ stack' = Append(stack, c)

Root(c) ==
  /\ pc = "cycles"
  /\ stack = <<>>
  /\ \E e \in fks : c \in {e.child, e.parent}
  /\ color[c] = "white"
  /\ Discover(c)
  /\ UNCHANGED <<catalog, skip, single, pc, graphVars, todo, finished, cycles, levelVars>>

(* Mutant: the cycle is the whole stack.                                   *)
MutCycle(c) == Append(stack, c)

(* The stack from c upwards, and c once more.                              *)
Cycle(c) ==
  LET i == CHOOSE j \in 1 .. Len(stack) : stack[j] = c
  IN Append(SubSeq(stack, i, Len(stack)), c)

(* Mutant: an edge that closes a cycle is not passed.                      *)
MutLook(e) ==
  /\ pc = "cycles" /\ stack # <<>>
  /\ e \in todo /\ e.child = Top
  /\ \/ color[e.parent] = "grey"
        /\ cycles' = cycles \cup {Cycle(e.parent)}
        /\ UNCHANGED <<color, stack, todo>>
     \/ color[e.parent] = "white" /\ Discover(e.parent)
        /\ todo' = todo \ {e}
        /\ UNCHANGED cycles
     \/ color[e.parent] = "black" /\ todo' = todo \ {e}
        /\ UNCHANGED <<color, stack, cycles>>
  /\ UNCHANGED <<catalog, skip, single, pc, graphVars, finished, levelVars>>

Look(e) ==
  /\ pc = "cycles" /\ stack # <<>>
  /\ e \in todo /\ e.child = Top
  /\ todo' = todo \ {e}
  /\ \/ color[e.parent] = "grey"
        /\ cycles' = cycles \cup {Cycle(e.parent)}
        /\ UNCHANGED <<color, stack>>
     \/ color[e.parent] = "white" /\ Discover(e.parent) /\ UNCHANGED cycles
     \/ color[e.parent] = "black" /\ UNCHANGED <<color, stack, cycles>>
  /\ UNCHANGED <<catalog, skip, single, pc, graphVars, finished, levelVars>>

Leave ==
  /\ pc = "cycles" /\ stack # <<>>
  /\ \A e \in todo : e.child # Top
  /\ color' = [color EXCEPT ![Top] = "black"]
  /\ finished' = Append(finished, Top)
  /\ stack' = SubSeq(stack, 1, Len(stack) - 1)
  /\ UNCHANGED <<catalog, skip, single, pc, graphVars, todo, cycles, levelVars>>

-----------------------------------------------------------------------------
(* level_sets: what must come before what.                                 *)
OnCycle == UNION {{c[i] : i \in DOMAIN c} : c \in cycles}

(* Mutant: only a key of a class to itself is dropped.                     *)
MutKept == {e \in fks : e.parent # e.child}

(* The foreign keys that are not dropped.                                  *)
Kept == {e \in fks : ~({e.parent, e.child} \subseteq OnCycle)}

Before ==
  {<<e.super, e.child>> : e \in inherits} \cup {<<e.parent, e.child>> : e \in Kept}

StartLevels ==
  /\ pc = "cycles" /\ stack = <<>>
  /\ \A e \in fks : "white" \notin {color[e.child], color[e.parent]}
  /\ indeg' = [c \in Class |-> Cardinality({d \in nodes : <<d, c>> \in Before})]
  /\ frontier' = {c \in nodes : indeg'[c] = 0}
  /\ pc' = "levels"
  /\ UNCHANGED <<catalog, skip, single, graphVars, searchVars, levels>>

(* Mutant: a class joins the next level when one edge into it is gone.     *)
MutLevel ==
  /\ pc = "levels" /\ frontier # {}
  /\ levels' = Append(levels, frontier)
  /\ indeg' = [c \in Class |->
                 indeg[c] - Cardinality({d \in frontier : <<d, c>> \in Before})]
  /\ frontier' = {c \in nodes : indeg[c] > 0 /\ indeg'[c] < indeg[c]}
  /\ UNCHANGED <<catalog, skip, single, pc, graphVars, searchVars>>

(* One level: the edges out of it are taken away, and the classes that     *)
(* have none left are the next.                                            *)
Level ==
  /\ pc = "levels" /\ frontier # {}
  /\ levels' = Append(levels, frontier)
  /\ indeg' = [c \in Class |->
                 indeg[c] - Cardinality({d \in frontier : <<d, c>> \in Before})]
  /\ frontier' = {c \in nodes : indeg[c] > 0 /\ indeg'[c] = 0}
  /\ UNCHANGED <<catalog, skip, single, pc, graphVars, searchVars>>

Done ==
  /\ pc = "levels" /\ frontier = {}
  /\ pc' = "done"
  /\ UNCHANGED <<catalog, skip, single, graphVars, searchVars, levelVars>>

Over ==
  /\ pc \in {"done", "rejected"}
  /\ UNCHANGED vars

Next ==
  \/ Reject \/ ReadGraph
  \/ \E c \in nodes : Root(c)
  \/ \E e \in todo : Look(e)
  \/ Leave \/ StartLevels \/ Level \/ Done
  \/ Over

Spec == Init /\ [][Next]_vars

-----------------------------------------------------------------------------
(* The type of every variable.                                             *)
TypeOK ==
  /\ catalog \in Catalog
  /\ skip \in BOOLEAN /\ single \in BOOLEAN
  /\ pc \in {"catalog", "cycles", "levels", "done", "rejected"}
  /\ nodes \subseteq Class
  /\ fks \subseteq FkEdge
  /\ \A e \in fks : {e.child, e.parent} \subseteq nodes
  /\ inherits \subseteq InheritEdge
  /\ color \in [Class -> {"white", "grey", "black"}]
  /\ stack \in Seq(nodes)
  /\ todo \subseteq fks
  /\ finished \in Seq(nodes)
  /\ cycles \subseteq Seq(nodes)
  /\ indeg \in [Class -> Nat]
  /\ frontier \subseteq nodes
  /\ levels \in Seq(SUBSET nodes)

(* What is recorded and printed as a cycle is one: each class has a        *)
(* foreign key to the next, and the last is the first (import_graph.cpp    *)
(* l.155: "a back-edge to a GREY node records the stack slice").           *)
CyclesClosed ==
  \A c \in cycles :
    /\ Len(c) > 1 /\ c[1] = c[Len(c)]
    /\ \A i \in 1 .. Len(c) - 1 :
         \E e \in fks : e.child = c[i] /\ e.parent = c[i + 1]

(* The cycles found are enough to break all: although the search does not  *)
(* meet every cycle, the foreign keys that are kept have none.             *)
KeptAcyclic ==
  pc \in {"levels", "done"} => Acyclic({<<e.parent, e.child>> : e \in Kept})

Placed == UNION {levels[i] : i \in DOMAIN levels}

(* A placed class has everything that must come before it on a lower       *)
(* level, and no class is placed twice (tests/cases/ordering.sh l.5).      *)
LevelsTopological ==
  \A i \in DOMAIN levels :
    /\ \A j \in DOMAIN levels : j # i => levels[i] \cap levels[j] = {}
    /\ \A c \in levels[i], d \in nodes : <<d, c>> \in Before =>
         \E j \in 1 .. i - 1 : d \in levels[j]

(* Only a cycle that inheritance is part of keeps classes out of the plan: *)
(* the classes that are left each wait for another one of them.            *)
LeftOutWait ==
  pc = "done" =>
    /\ \A c \in nodes \ Placed : \E d \in nodes \ Placed : <<d, c>> \in Before
    /\ inherits = {} => Placed = nodes

(* The recursion of find_cycles and the loop of level_sets end: each step  *)
(* uses up classes to visit, edges to look at or classes to place, and no  *)
(* state but the last is without a step.                                   *)
Coloured(how) == {c \in Class : color[c] = how}

Remaining ==
  2 * Cardinality(Coloured("white")) + Cardinality(Coloured("grey"))
  + Cardinality(IF pc = "catalog" THEN catalog.fks ELSE todo)
  + Cardinality(Class \ Placed)
  + (CASE pc = "catalog" -> 3 [] pc = "cycles" -> 2 [] pc = "levels" -> 1
       [] OTHER -> 0)

(* No step of the computation is idle, so it ends for every catalog.       *)
NoIdleStep == [][Remaining' < Remaining]_vars

(* Every class gets a level (tests/cases/ordering.sh l.56 counts an        *)
(* "unplaced inheritance edge" against the plan).                          *)
EveryClassPlanned == pc = "done" => Placed = nodes

(* The class is on a cycle of foreign keys of the catalog.                 *)
OnFkCycle(c) ==
  \E p \in UNION {[1 .. n -> fks] : n \in 1 .. Cardinality(nodes)} :
    /\ p[1].child = c /\ p[Len(p)].parent = c
    /\ \A i \in 1 .. Len(p) - 1 : p[i].parent = p[i + 1].child

(* Every class of a cycle of foreign keys is on a listed one               *)
(* (import_graph.hpp l.111: cycles "is the list of FK cycles").            *)
CyclesListed == pc = "done" => \A c \in nodes : OnFkCycle(c) => c \in OnCycle

(* Every class that is not a partition is a node or is reported skipped    *)
(* (import_graph.hpp l.157: "True for a partition pseudo-class").          *)
NoUserClassMissing ==
  pc = "done" => Class \ catalog.partitions \subseteq nodes \cup Offending
=============================================================================
