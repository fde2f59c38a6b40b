------------------------- MODULE DependencyGraph_proofs -------------------------
(***************************************************************************)
(* For every catalog: what is listed as a cycle is one, the foreign keys   *)
(* that are kept have no cycle, and the levels respect them and the        *)
(* inheritance.                                                            *)
(*                                                                         *)
(* The search meets some edge of every cycle while both its ends are on    *)
(* the stack, and lists those ends.  Every other edge that has been looked *)
(* at leads to a class that turned black earlier, so the order in which    *)
(* classes turn black is an order of the kept foreign keys.                *)
(***************************************************************************)
EXTENDS DependencyGraph, FiniteSetTheorems, SequenceTheorems,
  WellFoundedInduction, TLAPS

(* Before the graph is read there is nothing.                              *)
NothingYet ==
  pc \in {"catalog", "rejected"} =>
    /\ nodes = {} /\ fks = {} /\ todo = {}
    /\ stack = <<>> /\ finished = <<>> /\ cycles = {}
    /\ frontier = {}

(* The stack holds the grey classes, each once, and is a path.             *)
StackOK ==
  /\ \A c \in Class : color[c] = "grey" <=> \E i \in 1 .. Len(stack) : stack[i] = c
  /\ \A i, j \in 1 .. Len(stack) : stack[i] = stack[j] => i = j
  /\ \A i \in 1 .. Len(stack) - 1 :
       \E e \in fks : e.child = stack[i] /\ e.parent = stack[i + 1]

FinishedOK ==
  \A c \in Class :
    color[c] = "black" <=> \E i \in 1 .. Len(finished) : finished[i] = c

FinishedBefore(p, c) ==
  \E i \in 1 .. Len(finished) :
    finished[i] = p /\ \A j \in 1 .. Len(finished) : finished[j] = c => i < j

OnStackAbove(p, c) ==
  \E i, j \in 1 .. Len(stack) : i < j /\ stack[i] = c /\ stack[j] = p

(* An edge is looked at while its child is on the stack, and all edges of  *)
(* a class before it is left.                                              *)
LookedAt ==
  /\ \A e \in todo : color[e.child] # "black"
  /\ \A e \in fks \ todo :
       /\ color[e.child] # "white"
       /\ \/ {e.child, e.parent} \subseteq OnCycle
          \/ FinishedBefore(e.parent, e.child)
          \/ OnStackAbove(e.parent, e.child)

SearchOver ==
  pc \in {"levels", "done"} => stack = <<>> /\ todo = {}

(* The edges into a class that were not taken away, and the next level.    *)
LevelInv ==
  /\ pc \in {"levels", "done"} =>
       /\ \A c \in Class :
            indeg[c] = Cardinality({d \in nodes \ Placed : <<d, c>> \in Before})
       /\ frontier = {c \in nodes \ Placed : indeg[c] = 0}
  /\ pc \notin {"levels", "done"} => levels = <<>>
  /\ pc = "done" => frontier = {}

IInv ==
  /\ TypeOK
  /\ NothingYet
  /\ StackOK
  /\ FinishedOK
  /\ LookedAt
  /\ CyclesClosed
  /\ SearchOver
  /\ LevelInv
  /\ LevelsTopological

(* The search's part of it, which the layering does not touch.             *)
SearchInv ==
  /\ NothingYet /\ StackOK /\ FinishedOK /\ LookedAt /\ CyclesClosed

(* IInv holds before the catalog is read.                                  *)
LEMMA InitIInv == Init => IInv
<1> SUFFICES ASSUME Init PROVE IInv
  OBVIOUS
<1>1. TypeOK
  <2>1. catalog \in Catalog
    BY DEF Init, Catalog, Few, FkEdge, InheritEdge
  <2>2. /\ stack \in Seq(nodes) /\ finished \in Seq(nodes)
        /\ levels \in Seq(SUBSET nodes)
    BY DEF Init
  <2> QED
    BY <2>1, <2>2 DEF Init, TypeOK
<1>2. StackOK /\ FinishedOK
  BY DEF Init, StackOK, FinishedOK
<1>3. LevelInv /\ LevelsTopological
  BY DEF Init, LevelInv, LevelsTopological
<1> QED
  BY <1>1, <1>2, <1>3 DEF Init, IInv, NothingYet, LookedAt, CyclesClosed, SearchOver

(* Reading the catalog, or rejecting it, preserves IInv.                   *)
LEMMA ReadIInv == IInv /\ (Reject \/ ReadGraph) => IInv'
<1> SUFFICES ASSUME IInv, Reject \/ ReadGraph PROVE IInv'
  OBVIOUS
<1>1. /\ pc = "catalog" /\ pc' \in {"rejected", "cycles"}
      /\ UNCHANGED <<catalog, skip, single, color, stack, finished, cycles,
                     indeg, frontier, levels>>
      /\ stack = <<>> /\ finished = <<>> /\ cycles = {} /\ frontier = {}
      /\ levels = <<>> /\ nodes = {} /\ fks = {} /\ todo = {}
  BY DEF IInv, NothingYet, LevelInv, Reject, ReadGraph, levelVars, searchVars
<1>2. /\ nodes' \subseteq Class /\ fks' \subseteq FkEdge
      /\ inherits' \subseteq InheritEdge /\ todo' = fks'
      /\ \A e \in fks' : {e.child, e.parent} \subseteq nodes'
  BY <1>1 DEF IInv, TypeOK, Catalog, Reject, ReadGraph, UserClasses, graphVars, searchVars
<1>3. \A c \in Class : color[c] \notin {"grey", "black"}
  BY <1>1 DEF IInv, StackOK, FinishedOK
<1>4. TypeOK'
  <2>1. /\ stack' \in Seq(nodes') /\ finished' \in Seq(nodes')
        /\ levels' \in Seq(SUBSET nodes')
    BY <1>1
  <2> QED
    BY <1>1, <1>2, <2>1 DEF IInv, TypeOK
<1>5. (StackOK /\ FinishedOK)'
  BY <1>1, <1>3 DEF StackOK, FinishedOK
<1>6. LookedAt'
  BY <1>1, <1>2, <1>3 DEF LookedAt, FkEdge
<1>7. (LevelInv /\ LevelsTopological)'
  BY <1>1 DEF LevelInv, LevelsTopological
<1>8. NothingYet'
  BY <1>1 DEF NothingYet, Reject, ReadGraph, graphVars, searchVars
<1> QED
  BY <1>1, <1>4, <1>5, <1>6, <1>7, <1>8 DEF IInv, CyclesClosed, SearchOver

(* What the layering's invariants are about does not exist during the      *)
(* search.                                                                 *)
LEMMA SearchStep ==
  ASSUME IInv, pc = "cycles", pc' = "cycles", UNCHANGED levelVars, TypeOK', SearchInv'
  PROVE  IInv'
BY DEF IInv, SearchInv, SearchOver, LevelInv, LevelsTopological, levelVars

(* A white class is put on the stack: it is the first, or the edge from    *)
(* the top of the stack is looked at.                                      *)
LEMMA DiscoverIInv ==
  ASSUME NEW c \in nodes, IInv, pc = "cycles", color[c] = "white", Discover(c),
         UNCHANGED <<catalog, skip, single, pc, graphVars, finished, cycles, levelVars>>,
         \/ stack = <<>> /\ todo' = todo
         \/ /\ stack # <<>>
            /\ \E e \in todo : e.child = Top /\ e.parent = c /\ todo' = todo \ {e}
  PROVE  IInv'
<1>1. /\ stack' \in Seq(nodes) /\ Len(stack') = Len(stack) + 1
      /\ \A i \in 1 .. Len(stack) : stack'[i] = stack[i]
      /\ stack'[Len(stack) + 1] = c
      /\ Len(stack) \in Nat /\ stack \in Seq(nodes) /\ nodes \subseteq Class
      /\ \A i \in 1 .. Len(stack) : stack[i] \in nodes
  BY AppendProperties, LenProperties, ElementOfSeq DEF IInv, TypeOK, Discover
<1>2. /\ color' \in [Class -> {"white", "grey", "black"}]
      /\ \A d \in Class : color'[d] = IF d = c THEN "grey" ELSE color[d]
  BY <1>1 DEF IInv, TypeOK, Discover
<1>3. TypeOK'
  BY <1>1, <1>2 DEF IInv, TypeOK, graphVars, levelVars
<1>4. StackOK'
  <2>1. \A i \in 1 .. Len(stack) : stack[i] # c
    BY <1>1 DEF IInv, StackOK
  <2>2. \A d \in Class :
          color'[d] = "grey" <=> \E i \in 1 .. Len(stack') : stack'[i] = d
    <3> SUFFICES ASSUME NEW d \in Class
        PROVE color'[d] = "grey" <=> \E i \in 1 .. Len(stack') : stack'[i] = d
      OBVIOUS
    <3>1. CASE d = c
      BY <1>1, <1>2, <3>1
    <3>2. CASE d # c
      <4>1. (\E i \in 1 .. Len(stack') : stack'[i] = d)
              <=> \E i \in 1 .. Len(stack) : stack[i] = d
        BY <1>1, <3>2
      <4> QED
        BY <1>2, <3>2, <4>1 DEF IInv, StackOK
    <3> QED
      BY <3>1, <3>2
  <2>3. \A i, j \in 1 .. Len(stack') : stack'[i] = stack'[j] => i = j
    <3>1. \A i, j \in 1 .. Len(stack) : stack'[i] = stack'[j] => i = j
      BY <1>1 DEF IInv, StackOK
    <3>2. \A i \in 1 .. Len(stack) : stack'[i] # stack'[Len(stack) + 1]
      BY <1>1, <2>1
    <3>3. \A i \in 1 .. Len(stack') : i \in 1 .. Len(stack) \/ i = Len(stack) + 1
      BY <1>1
    <3> QED
      BY <3>1, <3>2, <3>3
  <2>4. ASSUME NEW i \in 1 .. Len(stack') - 1
        PROVE \E e \in fks : e.child = stack'[i] /\ e.parent = stack'[i + 1]
    <3>1. CASE i = Len(stack)
      BY <1>1, <2>4, <3>1 DEF IInv, TypeOK, Top
    <3>2. CASE i # Len(stack)
      <4>1. i \in 1 .. Len(stack) - 1 /\ i \in 1 .. Len(stack) /\ i + 1 \in 1 .. Len(stack)
        BY <1>1, <2>4, <3>2
      <4> QED
        BY <1>1, <4>1 DEF IInv, StackOK
    <3> QED
      BY <3>1, <3>2
  <2> QED
    BY <2>2, <2>3, <2>4 DEF StackOK, graphVars
<1>5. FinishedOK'
  BY <1>2 DEF IInv, FinishedOK
<1>6. LookedAt'
  <2>1. \A e \in todo' : e \in todo /\ e.child \in Class
    BY <1>1 DEF IInv, TypeOK
  <2>2. \A e \in todo' : color'[e.child] # "black"
    BY <1>2, <2>1 DEF IInv, LookedAt
  <2>3. ASSUME NEW e \in fks' \ todo'
        PROVE /\ color'[e.child] # "white"
              /\ \/ {e.child, e.parent} \subseteq OnCycle'
                 \/ FinishedBefore(e.parent, e.child)'
                 \/ OnStackAbove(e.parent, e.child)'
    <3>1. e \in fks /\ e.child \in Class
      BY <1>1, <2>3 DEF IInv, TypeOK, graphVars
    <3>2. CASE e \in todo
      <4>1. stack # <<>> /\ e.child = Top /\ e.parent = c
        BY <2>3, <3>2
      <4>2. Len(stack) \in 1 .. Len(stack) /\ color[Top] = "grey"
        BY <1>1, <4>1, EmptySeq DEF IInv, StackOK, Top
      <4>3. OnStackAbove(e.parent, e.child)'
        BY <1>1, <4>1, <4>2 DEF OnStackAbove, Top
      <4> QED
        BY <1>2, <3>1, <4>1, <4>2, <4>3
    <3>3. CASE e \notin todo
      <4>1. OnStackAbove(e.parent, e.child) => OnStackAbove(e.parent, e.child)'
        BY <1>1 DEF OnStackAbove
      <4> QED
        BY <1>2, <3>1, <3>3, <4>1 DEF IInv, LookedAt, OnCycle, FinishedBefore
    <3> QED
      BY <3>2, <3>3
  <2> QED
    BY <2>2, <2>3 DEF LookedAt
<1>7. (NothingYet /\ CyclesClosed)'
  BY DEF IInv, NothingYet, CyclesClosed, graphVars
<1> QED
  BY <1>3, <1>4, <1>5, <1>6, <1>7, SearchStep DEF SearchInv

(* Starting a search at a white class preserves IInv.                      *)
LEMMA RootIInv == ASSUME NEW c \in nodes, IInv, Root(c) PROVE IInv'
BY DiscoverIInv DEF Root

(* A slice of the stack that goes back to where it starts is a cycle.      *)
LEMMA CycleFacts ==
  ASSUME NEW c \in nodes, IInv, stack # <<>>, color[c] = "grey",
         \E e \in fks : e.child = Top /\ e.parent = c
  PROVE  /\ Cycle(c) \in Seq(nodes)
         /\ Len(Cycle(c)) > 1 /\ Cycle(c)[1] = Cycle(c)[Len(Cycle(c))]
         /\ \A i \in 1 .. Len(Cycle(c)) - 1 :
              \E e \in fks : e.child = Cycle(c)[i] /\ e.parent = Cycle(c)[i + 1]
         /\ {c, Top} \subseteq {Cycle(c)[i] : i \in DOMAIN Cycle(c)}
<1> DEFINE k == CHOOSE j \in 1 .. Len(stack) : stack[j] = c
           n == Len(stack)
           sub == SubSeq(stack, k, n)
<1>1. /\ n \in Nat /\ n >= 1 /\ \A i \in 1 .. n : stack[i] \in nodes
  BY EmptySeq, LenProperties, ElementOfSeq DEF IInv, TypeOK
<1>2. k \in 1 .. n /\ stack[k] = c
  BY DEF IInv, TypeOK, StackOK
<1> HIDE DEF k
<1>3. /\ sub \in Seq(nodes) /\ Len(sub) = n - k + 1
      /\ \A i \in 1 .. n - k + 1 : sub[i] = stack[k + i - 1]
  BY <1>1, <1>2, SubSeqProperties
<1> HIDE DEF sub
<1>4. /\ Cycle(c) = Append(sub, c) /\ Cycle(c) \in Seq(nodes)
      /\ Len(Cycle(c)) = n - k + 2
      /\ \A i \in 1 .. n - k + 1 : Cycle(c)[i] = stack[k + i - 1]
      /\ Cycle(c)[n - k + 2] = c
  <2>1. Cycle(c) = Append(sub, c)
    BY DEF Cycle, sub, k
  <2> QED
    BY <1>1, <1>2, <1>3, <2>1, AppendProperties
<1> HIDE DEF n
<1>5. Cycle(c)[1] = c /\ Cycle(c)[n - k + 1] = Top
  BY <1>1, <1>2, <1>4 DEF Top, n
<1>6. ASSUME NEW i \in 1 .. Len(Cycle(c)) - 1
      PROVE \E e \in fks : e.child = Cycle(c)[i] /\ e.parent = Cycle(c)[i + 1]
  <2>1. CASE i = n - k + 1
    <3>1. Cycle(c)[i] = Top /\ Cycle(c)[i + 1] = c
      <4>1. i + 1 = n - k + 2
        BY <1>1, <1>2, <2>1
      <4> QED
        BY <1>4, <1>5, <2>1, <4>1
    <3> QED
      BY <3>1
  <2>2. CASE i # n - k + 1
    <3>1. /\ k + i - 1 \in 1 .. n - 1 /\ i \in 1 .. n - k + 1
          /\ i + 1 \in 1 .. n - k + 1 /\ k + (i + 1) - 1 = (k + i - 1) + 1
      BY <1>1, <1>2, <1>4, <1>6, <2>2
    <3>2. Cycle(c)[i] = stack[k + i - 1] /\ Cycle(c)[i + 1] = stack[(k + i - 1) + 1]
      BY <1>4, <3>1
    <3> QED
      BY <3>1, <3>2 DEF IInv, StackOK, n
  <2> QED
    BY <2>1, <2>2
<1>7. DOMAIN Cycle(c) = 1 .. n - k + 2
  BY <1>4, LenProperties
<1> QED
  BY <1>1, <1>2, <1>4, <1>5, <1>6, <1>7

(* Looking at an edge preserves IInv: it closes a cycle that is then       *)
(* listed, goes on to a white class, or leads to a class that is black     *)
(* already.                                                                *)
LEMMA LookIInv == ASSUME NEW e \in todo, IInv, Look(e) PROVE IInv'
<1>1. /\ pc = "cycles" /\ pc' = "cycles" /\ stack # <<>>
      /\ e.child = Top /\ todo' = todo \ {e}
      /\ e \in fks /\ e.parent \in nodes /\ e.parent \in Class
      /\ UNCHANGED <<catalog, skip, single, graphVars, finished, levelVars>>
  BY DEF IInv, TypeOK, Look
<1>2. CASE color[e.parent] = "white"
  BY <1>1, <1>2, DiscoverIInv DEF Look
<1>3. CASE color[e.parent] # "white"
  <2>1. /\ UNCHANGED <<color, stack>>
        /\ \/ color[e.parent] = "grey" /\ cycles' = cycles \cup {Cycle(e.parent)}
           \/ color[e.parent] = "black" /\ cycles' = cycles
    BY <1>3 DEF Look
  <2>2. color[e.parent] = "grey" =>
          /\ Cycle(e.parent) \in Seq(nodes)
          /\ Len(Cycle(e.parent)) > 1
          /\ Cycle(e.parent)[1] = Cycle(e.parent)[Len(Cycle(e.parent))]
          /\ \A i \in 1 .. Len(Cycle(e.parent)) - 1 :
               \E f \in fks : /\ f.child = Cycle(e.parent)[i]
                              /\ f.parent = Cycle(e.parent)[i + 1]
          /\ {e.parent, Top} \subseteq
               {Cycle(e.parent)[i] : i \in DOMAIN Cycle(e.parent)}
    BY <1>1, CycleFacts
  <2>3. TypeOK'
    <3>1. cycles' \subseteq Seq(nodes)
      BY <2>1, <2>2 DEF IInv, TypeOK
    <3> QED
      BY <1>1, <2>1, <3>1 DEF IInv, TypeOK, graphVars, levelVars
  <2>4. CyclesClosed'
    BY <1>1, <2>1, <2>2 DEF IInv, CyclesClosed, graphVars
  <2>5. (StackOK /\ FinishedOK /\ NothingYet)'
    <3>1. StackOK'
      BY <1>1, <2>1 DEF IInv, StackOK, graphVars
    <3>2. FinishedOK'
      BY <1>1, <2>1 DEF IInv, FinishedOK
    <3>3. NothingYet'
      BY <1>1 DEF NothingYet
    <3> QED
      BY <3>1, <3>2, <3>3
  <2>6. LookedAt'
    <3>1. /\ OnCycle \subseteq OnCycle'
          /\ color[e.parent] = "grey" => {e.parent, Top} \subseteq OnCycle'
      BY <2>1, <2>2 DEF OnCycle
    <3>2. color[Top] = "grey" /\ Len(stack) \in 1 .. Len(stack)
      BY <1>1, EmptySeq, LenProperties, ElementOfSeq DEF IInv, TypeOK, StackOK, Top
    <3>3. color[e.parent] = "black" => FinishedBefore(e.parent, e.child)
      <4>1. ASSUME NEW j \in 1 .. Len(finished) PROVE finished[j] # Top
        <5>1. Top \in Class /\ color[Top] # "black"
          BY <1>1, <3>2, ElementOfSeq DEF IInv, TypeOK, Top
        <5> QED
          BY <4>1, <5>1 DEF IInv, FinishedOK
      <4> QED
        BY <1>1, <4>1 DEF IInv, FinishedOK, FinishedBefore
    <3>4. ASSUME NEW f \in fks' \ todo'
          PROVE /\ color'[f.child] # "white"
                /\ \/ {f.child, f.parent} \subseteq OnCycle'
                   \/ FinishedBefore(f.parent, f.child)'
                   \/ OnStackAbove(f.parent, f.child)'
      <4>1. CASE f = e
        BY <1>1, <1>3, <2>1, <3>1, <3>2, <3>3, <4>1 DEF FinishedBefore
      <4>2. CASE f # e
        BY <1>1, <2>1, <3>1, <3>4, <4>2
        DEF IInv, LookedAt, FinishedBefore, OnStackAbove, graphVars
      <4> QED
        BY <4>1, <4>2
    <3> QED
      BY <1>1, <2>1, <3>4 DEF IInv, LookedAt
  <2> QED
    BY <1>1, <2>3, <2>4, <2>5, <2>6, SearchStep DEF SearchInv
<1> QED
  BY <1>2, <1>3

(* Leaving a class preserves IInv: the edges above it on the stack now lead*)
(* to a class that finished before.                                        *)
LEMMA LeaveIInv == IInv /\ Leave => IInv'
<1> SUFFICES ASSUME IInv, Leave PROVE IInv'
  OBVIOUS
<1> DEFINE n == Len(stack)  m == Len(finished)
<1>1. /\ pc = "cycles" /\ pc' = "cycles" /\ stack # <<>>
      /\ n \in Nat /\ n >= 1 /\ \A i \in 1 .. n : stack[i] \in nodes
      /\ Top \in nodes /\ Top \in Class /\ color[Top] = "grey" /\ stack[n] = Top
      /\ m \in Nat
      /\ UNCHANGED <<catalog, skip, single, graphVars, todo, cycles, levelVars>>
  BY EmptySeq, LenProperties, ElementOfSeq DEF IInv, TypeOK, StackOK, Leave, Top
<1>2. /\ color' \in [Class -> {"white", "grey", "black"}]
      /\ \A d \in Class : color'[d] = IF d = Top THEN "black" ELSE color[d]
  BY <1>1 DEF IInv, TypeOK, Leave
<1>3. /\ stack' \in Seq(nodes) /\ Len(stack') = n - 1
      /\ \A i \in 1 .. n - 1 : stack'[i] = stack[i]
  <2>1. \A i \in 1 .. n - 1 : stack[i] \in nodes
    BY <1>1
  <2>2. /\ SubSeq(stack, 1, n - 1) \in Seq(nodes)
        /\ Len(SubSeq(stack, 1, n - 1)) = IF 1 <= n - 1 THEN n - 1 - 1 + 1 ELSE 0
        /\ \A i \in 1 .. n - 1 - 1 + 1 :
             SubSeq(stack, 1, n - 1)[i] = stack[1 + i - 1]
    BY <1>1, <2>1, SubSeqProperties
  <2>3. stack' = SubSeq(stack, 1, n - 1)
    BY DEF Leave
  <2> HIDE DEF n
  <2> QED
    BY <1>1, <2>2, <2>3
<1>4. /\ finished' \in Seq(nodes) /\ Len(finished') = m + 1
      /\ \A i \in 1 .. m : finished'[i] = finished[i]
      /\ finished'[m + 1] = Top
  BY <1>1, AppendProperties DEF IInv, TypeOK, Leave
<1> HIDE DEF n, m
<1>5. TypeOK'
  BY <1>1, <1>2, <1>3, <1>4 DEF IInv, TypeOK, graphVars, levelVars
<1>6. StackOK'
  <2>1. \A i \in 1 .. n - 1 : stack[i] # Top
    BY <1>1 DEF IInv, StackOK, n
  <2>2. ASSUME NEW d \in Class
        PROVE color'[d] = "grey" <=> \E i \in 1 .. Len(stack') : stack'[i] = d
    <3>1. CASE d = Top
      BY <1>1, <1>2, <1>3, <2>1, <3>1
    <3>2. CASE d # Top
      <4>1. (\E i \in 1 .. n : stack[i] = d) <=> \E i \in 1 .. n - 1 : stack[i] = d
        BY <1>1, <3>2
      <4> QED
        BY <1>1, <1>2, <1>3, <3>2, <4>1 DEF IInv, StackOK, n
    <3> QED
      BY <3>1, <3>2
  <2>3. \A i, j \in 1 .. Len(stack') : stack'[i] = stack'[j] => i = j
    BY <1>1, <1>3 DEF IInv, StackOK, n
  <2>4. ASSUME NEW i \in 1 .. Len(stack') - 1
        PROVE \E e \in fks : e.child = stack'[i] /\ e.parent = stack'[i + 1]
    <3>1. i \in 1 .. n - 1 /\ i + 1 \in 1 .. n - 1
      BY <1>1, <1>3, <2>4
    <3> QED
      BY <1>3, <3>1 DEF IInv, StackOK, n
  <2> QED
    BY <1>1, <2>2, <2>3, <2>4 DEF StackOK, graphVars
<1>7. FinishedOK'
  <2> SUFFICES ASSUME NEW d \in Class
      PROVE color'[d] = "black" <=> \E i \in 1 .. Len(finished') : finished'[i] = d
    BY DEF FinishedOK
  <2>1. CASE d = Top
    BY <1>1, <1>2, <1>4, <2>1
  <2>2. CASE d # Top
    <3>1. (\E i \in 1 .. Len(finished') : finished'[i] = d)
            <=> \E i \in 1 .. m : finished[i] = d
      BY <1>1, <1>4, <2>2
    <3> QED
      BY <1>2, <2>2, <3>1 DEF IInv, FinishedOK, m
  <2> QED
    BY <2>1, <2>2
<1>8. LookedAt'
  <2>1. ASSUME NEW e \in todo' PROVE color'[e.child] # "black"
    <3>1. e \in todo /\ e.child \in Class /\ e.child # Top
      BY <1>1 DEF IInv, TypeOK, Leave
    <3> QED
      BY <1>2, <3>1 DEF IInv, LookedAt
  <2>2. ASSUME NEW e \in fks' \ todo'
        PROVE /\ color'[e.child] # "white"
              /\ \/ {e.child, e.parent} \subseteq OnCycle'
                 \/ FinishedBefore(e.parent, e.child)'
                 \/ OnStackAbove(e.parent, e.child)'
    <3>1. /\ e \in fks \ todo /\ e.child \in Class /\ e.parent \in Class
          /\ OnCycle' = OnCycle
      BY <1>1 DEF IInv, TypeOK, graphVars, OnCycle
    <3>2. color'[e.child] # "white"
      BY <1>2, <3>1 DEF IInv, LookedAt
    <3>3. CASE FinishedBefore(e.parent, e.child)
      <4>1. PICK i \in 1 .. m : /\ finished[i] = e.parent
                                /\ \A j \in 1 .. m : finished[j] = e.child => i < j
        BY <3>3 DEF FinishedBefore, m
      <4>2. i \in 1 .. m + 1 /\ finished'[i] = e.parent /\ i < m + 1
        BY <1>1, <1>4, <4>1
      <4>3. \A j \in 1 .. m + 1 : finished'[j] = e.child => i < j
        BY <1>1, <1>4, <4>1, <4>2
      <4> QED
        BY <1>4, <3>2, <4>2, <4>3 DEF FinishedBefore
    <3>4. CASE OnStackAbove(e.parent, e.child)
      <4>1. PICK i, j \in 1 .. n : i < j /\ stack[i] = e.child /\ stack[j] = e.parent
        BY <3>4 DEF OnStackAbove, n
      <4>2. CASE j = n
        <5>1. e.child # Top /\ color[e.child] = "grey"
          BY <1>1, <3>1, <4>1, <4>2 DEF IInv, StackOK, n
        <5>2. \A l \in 1 .. m : finished[l] # e.child
          BY <3>1, <5>1 DEF IInv, FinishedOK, m
        <5>3. \A l \in 1 .. m + 1 : finished'[l] # e.child
          BY <1>1, <1>4, <5>1, <5>2
        <5>4. m + 1 \in 1 .. m + 1 /\ finished'[m + 1] = e.parent
          BY <1>1, <1>4, <4>1, <4>2
        <5> QED
          BY <1>4, <3>2, <5>3, <5>4 DEF FinishedBefore
      <4>3. CASE j # n
        BY <1>1, <1>3, <3>2, <4>1, <4>3 DEF OnStackAbove
      <4> QED
        BY <4>2, <4>3
    <3> QED
      BY <3>1, <3>2, <3>3, <3>4 DEF IInv, LookedAt
  <2> QED
    BY <2>1, <2>2 DEF LookedAt
<1>9. (NothingYet /\ CyclesClosed)'
  BY <1>1 DEF IInv, NothingYet, CyclesClosed, graphVars
<1> QED
  BY <1>1, <1>5, <1>6, <1>7, <1>8, <1>9, SearchStep DEF SearchInv

-----------------------------------------------------------------------------
(* The layering.                                                           *)

(* The counters of the layering start at the number of predecessors.       *)
LEMMA StartIInv == IInv /\ StartLevels => IInv'
<1> SUFFICES ASSUME IInv, StartLevels PROVE IInv'
  OBVIOUS
<1>1. /\ pc = "cycles" /\ pc' = "levels" /\ stack = <<>> /\ levels = <<>>
      /\ UNCHANGED <<catalog, skip, single, graphVars, searchVars, levels>>
      /\ Placed' = {} /\ Before' = Before
  BY DEF IInv, LevelInv, StartLevels, Placed, Before, Kept, OnCycle, graphVars, searchVars
<1>2. \A S \in SUBSET nodes : IsFiniteSet(S) /\ Cardinality(S) \in Nat
  BY GraphAssumption, FS_Subset, FS_CardinalityType DEF IInv, TypeOK
<1>3. \A c \in Class :
        indeg'[c] = Cardinality({d \in nodes \ {} : <<d, c>> \in Before})
  BY DEF StartLevels
<1>4. TypeOK'
  <2>1. indeg' \in [Class -> Nat]
    BY <1>2 DEF StartLevels
  <2> QED
    BY <1>1, <2>1 DEF IInv, TypeOK, StartLevels, graphVars, searchVars
<1>5. todo = {}
  <2> SUFFICES ASSUME NEW e \in todo PROVE FALSE
    OBVIOUS
  <2>1. e \in fks /\ e.child \in Class
    BY DEF IInv, TypeOK
  <2>2. color[e.child] # "white" /\ color[e.child] # "grey"
    BY <1>1, <2>1 DEF IInv, StackOK, StartLevels
  <2> QED
    BY <2>1, <2>2 DEF IInv, TypeOK, LookedAt
<1>6. LevelInv' /\ LevelsTopological'
  BY <1>1, <1>3 DEF LevelInv, LevelsTopological, StartLevels, graphVars
<1>7. StackOK' /\ FinishedOK' /\ LookedAt' /\ CyclesClosed'
  BY <1>1 DEF IInv, StackOK, FinishedOK, LookedAt, FinishedBefore, OnStackAbove,
    OnCycle, CyclesClosed, graphVars, searchVars
<1> QED
  BY <1>1, <1>4, <1>5, <1>6, <1>7 DEF IInv, NothingYet, SearchOver, searchVars

(* What the layering leaves alone.                                         *)
LEMMA SearchKept ==
  ASSUME IInv, UNCHANGED <<graphVars, searchVars>>
  PROVE  /\ Before' = Before
         /\ StackOK' /\ FinishedOK' /\ LookedAt' /\ CyclesClosed'
BY DEF IInv, StackOK, FinishedOK, LookedAt, FinishedBefore, OnStackAbove,
  OnCycle, CyclesClosed, Before, Kept, graphVars, searchVars

(* A level adds its classes to the placed ones.                            *)
LEMMA PlacedGrows == IInv /\ Level => Placed' = Placed \cup frontier
<1> SUFFICES ASSUME IInv, Level PROVE Placed' = Placed \cup frontier
  OBVIOUS
<1> DEFINE n == Len(levels)
<1>0. /\ n \in Nat /\ levels' \in Seq(SUBSET nodes) /\ Len(levels') = n + 1
      /\ \A i \in 1 .. n : levels'[i] = levels[i]
      /\ levels'[n + 1] = frontier
      /\ DOMAIN levels = 1 .. n /\ DOMAIN levels' = 1 .. n + 1
  BY AppendProperties, LenProperties DEF IInv, TypeOK, Level
<1> HIDE DEF n
<1>1. ASSUME NEW x \in Placed' PROVE x \in Placed \cup frontier
  <2>1. PICK i \in 1 .. n + 1 : x \in levels'[i]
    BY <1>0, <1>1 DEF Placed
  <2>2. CASE i = n + 1
    BY <1>0, <2>1, <2>2
  <2>3. CASE i # n + 1
    <3>1. i \in 1 .. n /\ levels'[i] = levels[i]
      BY <1>0, <2>1, <2>3
    <3> QED
      BY <1>0, <2>1, <3>1 DEF Placed
  <2> QED
    BY <2>2, <2>3
<1>2. ASSUME NEW x \in Placed PROVE x \in Placed'
  <2>1. PICK i \in 1 .. n : x \in levels[i]
    BY <1>0, <1>2 DEF Placed
  <2>2. i \in 1 .. n + 1 /\ x \in levels'[i]
    BY <1>0, <2>1
  <2> QED
    BY <1>0, <2>2 DEF Placed
<1>3. ASSUME NEW x \in frontier PROVE x \in Placed'
  <2>1. n + 1 \in 1 .. n + 1 /\ x \in levels'[n + 1]
    BY <1>0, <1>3
  <2> QED
    BY <1>0, <2>1 DEF Placed
<1> QED
  BY <1>1, <1>2, <1>3

(* A level takes away what its classes counted for.                        *)
LEMMA LevelIInv == IInv /\ Level => IInv'
<1> SUFFICES ASSUME IInv, Level PROVE IInv'
  OBVIOUS
<1> DEFINE n == Len(levels)
           into(S, c) == {d \in S : <<d, c>> \in Before}
<1>1. /\ pc = "levels" /\ pc' = "levels"
      /\ UNCHANGED <<catalog, skip, single, graphVars, searchVars>>
      /\ Before' = Before
      /\ frontier = {c \in nodes \ Placed : indeg[c] = 0}
      /\ \A c \in Class : indeg[c] = Cardinality(into(nodes \ Placed, c))
  BY SearchKept DEF IInv, LevelInv, Level
<1>2. /\ n \in Nat /\ levels' \in Seq(SUBSET nodes) /\ Len(levels') = n + 1
      /\ \A i \in 1 .. n : levels'[i] = levels[i]
      /\ levels'[n + 1] = frontier
      /\ DOMAIN levels = 1 .. n /\ DOMAIN levels' = 1 .. n + 1
  BY AppendProperties, LenProperties DEF IInv, TypeOK, Level
<1> HIDE DEF n
<1>3. Placed' = Placed \cup frontier
  BY PlacedGrows
<1>4. \A S \in SUBSET nodes : IsFiniteSet(S) /\ Cardinality(S) \in Nat
  BY GraphAssumption, FS_Subset, FS_CardinalityType DEF IInv, TypeOK
<1>5. ASSUME NEW c \in Class
      PROVE indeg'[c] = Cardinality(into(nodes \ Placed', c)) /\ indeg'[c] \in Nat
  <2>1. /\ into(nodes \ Placed, c) = into(nodes \ Placed', c) \cup into(frontier, c)
        /\ into(nodes \ Placed', c) \cap into(frontier, c) = {}
        /\ into(nodes \ Placed', c) \in SUBSET nodes
        /\ into(frontier, c) \in SUBSET nodes
    BY <1>1, <1>3
  <2>2. /\ IsFiniteSet(into(nodes \ Placed', c)) /\ IsFiniteSet(into(frontier, c))
        /\ Cardinality(into(nodes \ Placed', c)) \in Nat
        /\ Cardinality(into(frontier, c)) \in Nat
    BY <1>4, <2>1
  <2> HIDE DEF into
  <2>3. Cardinality(into(nodes \ Placed, c)) =
          Cardinality(into(nodes \ Placed', c)) + Cardinality(into(frontier, c))
    <3>1. Cardinality({}) = 0
      BY FS_EmptySet
    <3>2. Cardinality(into(nodes \ Placed', c) \cup into(frontier, c)) =
            Cardinality(into(nodes \ Placed', c)) + Cardinality(into(frontier, c))
              - Cardinality(into(nodes \ Placed', c) \cap into(frontier, c))
      BY <2>2, FS_Union
    <3>3. /\ Cardinality(into(nodes \ Placed, c)) =
               Cardinality(into(nodes \ Placed', c) \cup into(frontier, c))
          /\ Cardinality(into(nodes \ Placed', c) \cap into(frontier, c)) = 0
      BY <2>1, <3>1, Zenon
    <3> QED
      BY <2>2, <3>2, <3>3
  <2>4. indeg'[c] = indeg[c] - Cardinality(into(frontier, c))
    BY DEF Level, into
  <2> QED
    BY <1>1, <2>2, <2>3, <2>4
<1>6. \A c \in Placed : indeg[c] = 0
  <2> SUFFICES ASSUME NEW c \in Placed PROVE indeg[c] = 0
    OBVIOUS
  <2>1. PICK i \in 1 .. n : c \in levels[i]
    BY <1>2 DEF Placed
  <2>2. c \in Class
    BY <1>2, <2>1, ElementOfSeq DEF IInv, TypeOK, n
  <2>3. into(nodes \ Placed, c) = {}
    <3> SUFFICES ASSUME NEW d \in nodes \ Placed, <<d, c>> \in Before PROVE FALSE
      OBVIOUS
    <3>1. PICK j \in 1 .. i - 1 : d \in levels[j]
      BY <1>2, <2>1 DEF IInv, LevelsTopological
    <3>2. j \in DOMAIN levels
      BY <1>2, <3>1
    <3> QED
      BY <3>1, <3>2 DEF Placed
  <2> QED
    BY <1>1, <2>2, <2>3, FS_EmptySet
<1>7. frontier' = {c \in nodes \ Placed' : indeg'[c] = 0}
  <2>1. nodes \subseteq Class
    BY DEF IInv, TypeOK
  <2>2. \A c \in nodes : c \in Placed' => indeg[c] = 0
    BY <1>1, <1>3, <1>6
  <2>3. \A c \in nodes : c \notin Placed' => indeg[c] # 0 /\ indeg[c] \in Nat
    BY <1>1, <1>3, <2>1 DEF IInv, TypeOK
  <2> QED
    BY <2>2, <2>3 DEF Level
<1>8. TypeOK'
  <2>1. indeg' \in [Class -> Nat]
    BY <1>5 DEF Level
  <2> QED
    BY <1>1, <1>2, <1>7, <2>1 DEF IInv, TypeOK, graphVars, searchVars
<1>9. LevelInv'
  BY <1>1, <1>5, <1>7 DEF LevelInv, graphVars
<1>10. LevelsTopological'
  <2>1. frontier \cap Placed = {}
    BY <1>1
  <2>2. \A i \in 1 .. n : levels[i] \subseteq Placed
    BY <1>2 DEF Placed
  <2>3. ASSUME NEW i \in 1 .. n + 1, NEW j \in 1 .. n + 1, i # j
        PROVE levels'[i] \cap levels'[j] = {}
    <3>1. CASE i \in 1 .. n /\ j \in 1 .. n
      BY <1>2, <2>3, <3>1 DEF IInv, LevelsTopological
    <3>2. CASE i = n + 1
      <4>1. j \in 1 .. n
        BY <1>2, <2>3, <3>2
      <4> QED
        BY <1>2, <2>1, <2>2, <3>2, <4>1
    <3>3. CASE j = n + 1
      <4>1. i \in 1 .. n
        BY <1>2, <2>3, <3>3
      <4> QED
        BY <1>2, <2>1, <2>2, <3>3, <4>1
    <3> QED
      BY <1>2, <3>1, <3>2, <3>3
  <2>4. ASSUME NEW i \in 1 .. n + 1, NEW c \in levels'[i], NEW d \in nodes,
               <<d, c>> \in Before
        PROVE \E j \in 1 .. i - 1 : d \in levels'[j]
    <3>1. CASE i \in 1 .. n
      <4>1. PICK j \in 1 .. i - 1 : d \in levels[j]
        BY <1>2, <2>4, <3>1 DEF IInv, LevelsTopological
      <4>2. j \in 1 .. n
        BY <1>2, <3>1, <4>1
      <4> QED
        BY <1>2, <4>1, <4>2
    <3>2. CASE i = n + 1
      <4>1. c \in frontier /\ c \in Class /\ indeg[c] = 0
        BY <1>1, <1>2, <2>4, <3>2 DEF IInv, TypeOK
      <4>2. into(nodes \ Placed, c) = {}
        <5>1. into(nodes \ Placed, c) \in SUBSET nodes
          OBVIOUS
        <5>2. /\ IsFiniteSet(into(nodes \ Placed, c))
              /\ Cardinality(into(nodes \ Placed, c)) = 0
          BY <1>1, <1>4, <4>1, <5>1
        <5> HIDE DEF into
        <5> QED
          BY <5>2, FS_EmptySet
      <4>3. d \in Placed
        BY <2>4, <4>2
      <4>4. PICK j \in 1 .. n : d \in levels[j]
        BY <1>2, <4>3 DEF Placed
      <4>5. j \in 1 .. i - 1 /\ levels'[j] = levels[j]
        BY <1>2, <3>2, <4>4
      <4> QED
        BY <4>4, <4>5
    <3> QED
      BY <1>2, <3>1, <3>2
  <2> QED
    BY <1>1, <1>2, <2>3, <2>4 DEF LevelsTopological, graphVars
<1> QED
  BY <1>1, <1>8, <1>9, <1>10, SearchKept
  DEF IInv, NothingYet, SearchOver, searchVars

(* The end of the layering preserves IInv.                                 *)
LEMMA DoneIInv == IInv /\ Done => IInv'
<1> SUFFICES ASSUME IInv, Done PROVE IInv'
  OBVIOUS
<1>1. /\ pc = "levels" /\ pc' = "done" /\ frontier = {}
      /\ UNCHANGED <<catalog, skip, single, graphVars, searchVars, levelVars>>
      /\ Before' = Before /\ Placed' = Placed
  BY SearchKept DEF Done, Placed, levelVars
<1>2. TypeOK'
  BY <1>1 DEF IInv, TypeOK, graphVars, searchVars, levelVars
<1>3. LevelInv' /\ LevelsTopological'
  BY <1>1 DEF IInv, LevelInv, LevelsTopological, graphVars, levelVars
<1> QED
  BY <1>1, <1>2, <1>3, SearchKept DEF IInv, NothingYet, SearchOver, searchVars

(* Every step preserves IInv.                                              *)
LEMMA NextIInv == IInv /\ [Next]_vars => IInv'
<1> SUFFICES ASSUME IInv, [Next]_vars PROVE IInv'
  OBVIOUS
<1>1. CASE UNCHANGED vars
  <2>1. /\ UNCHANGED <<catalog, skip, single, pc, graphVars, searchVars, levelVars>>
        /\ Before' = Before /\ Placed' = Placed
    BY <1>1, SearchKept DEF vars, Placed, levelVars
  <2>2. TypeOK'
    BY <2>1 DEF IInv, TypeOK, graphVars, searchVars, levelVars
  <2>3. LevelInv' /\ LevelsTopological'
    BY <2>1 DEF IInv, LevelInv, LevelsTopological, graphVars, levelVars
  <2> QED
    BY <2>1, <2>2, <2>3, SearchKept
    DEF IInv, NothingYet, SearchOver, graphVars, searchVars, levelVars
<1> QED
  BY <1>1, ReadIInv, RootIInv, LookIInv, LeaveIInv, StartIInv, LevelIInv, DoneIInv
  DEF Next, Over

(* The invariant holds in every reachable state of every catalog.          *)
THEOREM Inductive == Spec => []IInv
<1> QED
  BY InitIInv, NextIInv, PTL DEF Spec

(* Every listed cycle is one (import_graph.cpp l.155).                     *)
THEOREM ListedAreCycles == Spec => []CyclesClosed
<1>1. IInv => CyclesClosed
  BY DEF IInv
<1> QED
  BY <1>1, Inductive, PTL

(* Superclasses and kept parents are on lower levels                       *)
(* (tests/cases/ordering.sh l.5).                                          *)
THEOREM Topological == Spec => []LevelsTopological
<1>1. IInv => LevelsTopological
  BY DEF IInv
<1> QED
  BY <1>1, Inductive, PTL

-----------------------------------------------------------------------------
(* When the search is over, the parent of a kept key is finished first.    *)
LEMMA KeptOrder ==
  ASSUME IInv, pc \in {"levels", "done"}, NEW e \in Kept
  PROVE  FinishedBefore(e.parent, e.child)
<1>1. e \in fks \ todo /\ ~({e.child, e.parent} \subseteq OnCycle)
  BY DEF IInv, SearchOver, Kept
<1>2. ~OnStackAbove(e.parent, e.child)
  BY EmptySeq DEF IInv, SearchOver, OnStackAbove
<1> QED
  BY <1>1, <1>2 DEF IInv, LookedAt

(* The order in which the classes turned black has no kept edge against it,*)
(* so the kept edges have no cycle.                                        *)
LEMMA InvKeptAcyclic == IInv => KeptAcyclic
<1> SUFFICES ASSUME IInv, pc \in {"levels", "done"}, NEW S \in SUBSET Class, S # {}
    PROVE \E c \in S : \A d \in S :
            <<d, c>> \notin {<<e.parent, e.child>> : e \in Kept}
  BY DEF KeptAcyclic, Acyclic
<1> DEFINE T == {i \in 1 .. Len(finished) : finished[i] \in S}
<1>1. Len(finished) \in Nat /\ T \subseteq Nat
  BY LenProperties DEF IInv, TypeOK
<1>2. ASSUME NEW d, NEW c, <<d, c>> \in {<<e.parent, e.child>> : e \in Kept}
      PROVE /\ FinishedBefore(d, c)
            /\ \E j \in 1 .. Len(finished) : finished[j] = c
  <2>1. PICK e \in Kept : d = e.parent /\ c = e.child
    BY <1>2
  <2>2. e \in fks \ todo /\ c \in Class
    BY <2>1 DEF IInv, TypeOK, SearchOver, Kept
  <2>3. color[c] = "black"
    <3>1. color[c] # "white"
      BY <2>1, <2>2 DEF IInv, LookedAt
    <3>2. color[c] # "grey"
      BY <2>2, EmptySeq DEF IInv, StackOK, SearchOver
    <3> QED
      BY <2>2, <3>1, <3>2 DEF IInv, TypeOK
  <2> QED
    BY <2>1, <2>2, <2>3, KeptOrder DEF IInv, FinishedOK
<1>3. CASE T = {}
  <2>1. PICK c \in S : TRUE
    OBVIOUS
  <2>2. \A d \in S : <<d, c>> \notin {<<e.parent, e.child>> : e \in Kept}
    BY <1>2, <1>3
  <2> QED
    BY <2>2
<1>4. CASE T # {}
  <2>1. PICK i \in T : \A j \in T : ~(<<j, i>> \in OpToRel(<, Nat))
    BY <1>1, <1>4, NatLessThanWellFounded, WFMin
  <2>2. ASSUME NEW d \in S,
               <<d, finished[i]>> \in {<<e.parent, e.child>> : e \in Kept}
        PROVE FALSE
    <3>1. PICK k \in 1 .. Len(finished) :
            /\ finished[k] = d
            /\ \A j \in 1 .. Len(finished) : finished[j] = finished[i] => k < j
      BY <1>2, <2>2 DEF FinishedBefore
    <3>2. k \in T /\ k < i /\ k \in Nat /\ i \in Nat
      BY <1>1, <3>1
    <3> QED
      BY <2>1, <3>2 DEF OpToRel
  <2> QED
    BY <2>2
<1> QED
  BY <1>3, <1>4

(* The cycles found are enough: without the keys between classes on them   *)
(* no cycle of foreign keys is left, although the search misses cycles     *)
(* (import_graph.cpp l.205).                                               *)
THEOREM NoCycleKept == Spec => []KeptAcyclic
<1> QED
  BY InvKeptAcyclic, Inductive, PTL

(* The layering places every class, unless inheritance is part of a cycle: *)
(* what is left out waits for one that is left out.                        *)
LEMMA InvLeftOut == IInv => LeftOutWait
<1> SUFFICES ASSUME IInv, pc = "done" PROVE
      /\ \A c \in nodes \ Placed : \E d \in nodes \ Placed : <<d, c>> \in Before
      /\ inherits = {} => Placed = nodes
  BY DEF LeftOutWait
<1>1. ASSUME NEW c \in nodes \ Placed
      PROVE \E d \in nodes \ Placed : <<d, c>> \in Before
  <2>1. c \in Class /\ indeg[c] # 0
    BY DEF IInv, TypeOK, LevelInv
  <2>2. {d \in nodes \ Placed : <<d, c>> \in Before} # {}
    BY <2>1, FS_EmptySet DEF IInv, LevelInv
  <2> QED
    BY <2>2
<1>2. ASSUME inherits = {} PROVE Placed = nodes
  <2>1. Before = {<<e.parent, e.child>> : e \in Kept}
    BY <1>2 DEF Before
  <2>2. nodes \ Placed \in SUBSET Class
    BY DEF IInv, TypeOK
  <2>3. nodes \ Placed = {}
    BY <1>1, <2>1, <2>2, InvKeptAcyclic DEF KeptAcyclic, Acyclic
  <2>4. Placed \subseteq nodes
    BY LenProperties, ElementOfSeq DEF IInv, TypeOK, Placed
  <2> QED
    BY <2>3, <2>4
<1> QED
  BY <1>1, <1>2

(* Without inheritance every class has a level (import_plan.hpp l.85).     *)
THEOREM AllPlaced == Spec => []LeftOutWait
<1> QED
  BY InvLeftOut, Inductive, PTL

-----------------------------------------------------------------------------
(* The computation ends.                                                   *)

(* There are finitely many possible foreign keys.                          *)
LEMMA FkEdgeFinite == ASSUME IsFiniteSet(FkName) PROVE IsFiniteSet(FkEdge)
<1> DEFINE S == (Class \X Class) \X FkName
           f == [x \in S |-> [child |-> x[1][1], parent |-> x[1][2], name |-> x[2]]]
<1>1. IsFiniteSet(S)
  BY GraphAssumption, FS_Product
<1>2. f \in [S -> FkEdge]
  BY DEF FkEdge
<1>3. ASSUME NEW e \in FkEdge PROVE \E x \in S : f[x] = e
  <2>1. <<<<e.child, e.parent>>, e.name>> \in S
    BY DEF FkEdge
  <2>2. f[<<<<e.child, e.parent>>, e.name>>] = e
    BY <2>1 DEF FkEdge
  <2> QED
    BY <2>1, <2>2
<1>4. f \in Surjection(S, FkEdge)
  BY <1>2, <1>3, Zenon DEF Surjection
<1> QED
  BY <1>1, <1>4, FS_Surjection

(* What a step may use up is finite.                                       *)
LEMMA FiniteParts ==
  ASSUME IsFiniteSet(FkName)
  PROVE  /\ \A S \in SUBSET Class : IsFiniteSet(S) /\ Cardinality(S) \in Nat
         /\ \A S \in SUBSET FkEdge : IsFiniteSet(S) /\ Cardinality(S) \in Nat
<1>1. \A S \in SUBSET Class : IsFiniteSet(S) /\ Cardinality(S) \in Nat
  BY GraphAssumption, FS_Subset, FS_CardinalityType
<1>2. \A S \in SUBSET FkEdge : IsFiniteSet(S) /\ Cardinality(S) \in Nat
  BY FkEdgeFinite, FS_Subset, FS_CardinalityType
<1> QED
  BY <1>1, <1>2

LEMMA RemainingParts ==
  ASSUME IsFiniteSet(FkName), TypeOK
  PROVE  /\ \A how : IsFiniteSet(Coloured(how)) /\ Cardinality(Coloured(how)) \in Nat
         /\ IsFiniteSet(todo) /\ Cardinality(todo) \in Nat
         /\ IsFiniteSet(catalog.fks) /\ Cardinality(catalog.fks) \in Nat
         /\ IsFiniteSet(Class \ Placed) /\ Cardinality(Class \ Placed) \in Nat
<1>1. \A how : Coloured(how) \in SUBSET Class
  BY DEF Coloured
<1>2. todo \in SUBSET FkEdge /\ catalog.fks \in SUBSET FkEdge
  BY DEF TypeOK, Catalog
<1>3. Class \ Placed \in SUBSET Class
  OBVIOUS
<1> QED
  BY <1>1, <1>2, <1>3, FiniteParts

(* A class that is discovered is white no more, but grey.                  *)
LEMMA DiscoverUses ==
  ASSUME IsFiniteSet(FkName), TypeOK, NEW c \in Class, color[c] = "white", Discover(c)
  PROVE  /\ Cardinality(Coloured("white"))' = Cardinality(Coloured("white")) - 1
         /\ Cardinality(Coloured("grey"))' = Cardinality(Coloured("grey")) + 1
<1>1. \A d \in Class : color'[d] = IF d = c THEN "grey" ELSE color[d]
  BY DEF TypeOK, Discover
<1>2. /\ Coloured("white")' = Coloured("white") \ {c} /\ c \in Coloured("white")
      /\ Coloured("grey")' = Coloured("grey") \cup {c} /\ c \notin Coloured("grey")
  BY <1>1 DEF Coloured
<1>3. /\ IsFiniteSet(Coloured("white")) /\ IsFiniteSet(Coloured("grey"))
      /\ Cardinality(Coloured("white")) \in Nat /\ Cardinality(Coloured("grey")) \in Nat
  BY RemainingParts
<1>4. Cardinality(Coloured("white") \ {c}) = Cardinality(Coloured("white")) - 1
  BY <1>2, <1>3, FS_RemoveElement
<1>5. Cardinality(Coloured("grey") \cup {c}) = Cardinality(Coloured("grey")) + 1
  BY <1>2, <1>3, FS_AddElement
<1> QED
  BY <1>2, <1>4, <1>5

(* Every step but the last state's leaves less to do.                      *)
LEMMA NextUses ==
  ASSUME IsFiniteSet(FkName), IInv, IInv', Next
  PROVE  Remaining' < Remaining \/ UNCHANGED vars
<1> DEFINE w == Cardinality(Coloured("white"))
           g == Cardinality(Coloured("grey"))
           t == Cardinality(todo)
           p == Cardinality(Class \ Placed)
<1>1. /\ w \in Nat /\ g \in Nat /\ t \in Nat /\ p \in Nat
      /\ w' \in Nat /\ g' \in Nat /\ t' \in Nat /\ p' \in Nat
  <2>1. w \in Nat /\ g \in Nat /\ t \in Nat /\ p \in Nat
    BY RemainingParts DEF IInv
  <2>2. /\ \A how : Coloured(how)' \in SUBSET Class
        /\ todo' \in SUBSET FkEdge /\ (Class \ Placed)' \in SUBSET Class
    BY DEF IInv, TypeOK, Coloured
  <2>3. w' \in Nat /\ g' \in Nat
    BY <2>2, FiniteParts
  <2>4. t' \in Nat /\ p' \in Nat
    BY <2>2, FiniteParts
  <2> QED
    BY <2>1, <2>3, <2>4
<1>2. /\ UNCHANGED color => w' = w /\ g' = g
      /\ UNCHANGED levels => p' = p
  BY DEF Coloured, Placed
<1>3. /\ pc = "cycles" => Remaining = 2 * w + g + t + p + 2
      /\ pc = "levels" => Remaining = 2 * w + g + t + p + 1
      /\ pc \in {"done", "rejected"} => Remaining = 2 * w + g + t + p + 0
      /\ pc = "catalog" => Remaining = 2 * w + g + Cardinality(catalog.fks) + p + 3
  BY DEF Remaining
<1>4. /\ pc' = "cycles" => Remaining' = 2 * w' + g' + t' + p' + 2
      /\ pc' = "levels" => Remaining' = 2 * w' + g' + t' + p' + 1
      /\ pc' \in {"done", "rejected"} => Remaining' = 2 * w' + g' + t' + p' + 0
  BY DEF Remaining
<1>5. CASE Reject \/ ReadGraph
  <2>1. /\ pc = "catalog" /\ UNCHANGED <<color, levels>>
        /\ todo' \subseteq catalog.fks /\ pc' \in {"rejected", "cycles"}
    BY <1>5 DEF Reject, ReadGraph, searchVars, levelVars, IInv, NothingYet
  <2>2. t' <= Cardinality(catalog.fks) /\ Cardinality(catalog.fks) \in Nat
    BY <2>1, RemainingParts, FS_Subset DEF IInv
  <2> HIDE DEF w, g, t, p
  <2> QED
    BY <1>1, <1>2, <1>3, <1>4, <2>1, <2>2
<1>6. CASE \E c \in nodes : Root(c)
  <2>1. PICK c \in nodes : Root(c)
    BY <1>6
  <2>2. w' = w - 1 /\ g' = g + 1
    BY <2>1, DiscoverUses DEF Root, IInv, TypeOK
  <2>3. t' = t /\ UNCHANGED levels /\ pc = "cycles" /\ pc' = "cycles"
    BY <2>1 DEF Root, levelVars
  <2> HIDE DEF w, g, t, p
  <2> QED
    BY <1>1, <1>2, <1>3, <1>4, <2>2, <2>3
<1>7. CASE \E e \in todo : Look(e)
  <2>1. PICK e \in todo : Look(e)
    BY <1>7
  <2>2. t' = t - 1
    BY <2>1, RemainingParts, FS_RemoveElement DEF Look, IInv
  <2>3. UNCHANGED levels /\ pc = "cycles" /\ pc' = "cycles"
    BY <2>1 DEF Look, levelVars
  <2>4. UNCHANGED color \/ (w' = w - 1 /\ g' = g + 1)
    <3>1. e.parent \in Class
      BY DEF IInv, TypeOK, FkEdge
    <3> QED
      BY <2>1, <3>1, DiscoverUses DEF Look, IInv
  <2>5. /\ p' = p
        /\ (w' = w /\ g' = g) \/ (w' = w - 1 /\ g' = g + 1)
    <3>1. p' = p
      BY <1>2, <2>3
    <3>2. CASE UNCHANGED color
      <4> HIDE DEF w, g, t, p
      <4>1. w' = w /\ g' = g
        BY <1>2, <3>2
      <4> QED
        BY <3>1, <4>1
    <3>3. CASE w' = w - 1 /\ g' = g + 1
      BY <3>1, <3>3
    <3> QED
      BY <2>4, <3>2, <3>3
  <2>6. Remaining = 2 * w + g + t + p + 2 /\ Remaining' = 2 * w' + g' + t' + p' + 2
    BY <1>3, <1>4, <2>3
  <2>7. CASE w' = w /\ g' = g
    <3> HIDE DEF w, g, t, p
    <3> QED
      BY <1>1, <2>2, <2>5, <2>6, <2>7
  <2>8. CASE w' = w - 1 /\ g' = g + 1
    <3> HIDE DEF w, g, t, p
    <3> QED
      BY <1>1, <2>2, <2>5, <2>6, <2>8
  <2> QED
    BY <2>5, <2>7, <2>8
<1>8. CASE Leave
  <2>1. Top \in Class /\ color[Top] = "grey"
    <3>1. Len(stack) \in Nat /\ Len(stack) # 0 /\ stack \in Seq(nodes)
      BY <1>8, EmptySeq, LenProperties DEF Leave, IInv, TypeOK
    <3>2. Len(stack) \in 1 .. Len(stack) /\ Top \in nodes
      BY <3>1, ElementOfSeq DEF Top
    <3> QED
      BY <3>2 DEF IInv, TypeOK, StackOK, Top
  <2>2. \A d \in Class : color'[d] = IF d = Top THEN "black" ELSE color[d]
    BY <1>8 DEF Leave, IInv, TypeOK
  <2>3. /\ Coloured("white")' = Coloured("white")
        /\ Coloured("grey")' = Coloured("grey") \ {Top} /\ Top \in Coloured("grey")
    BY <2>1, <2>2 DEF Coloured
  <2>4. w' = w /\ g' = g - 1
    BY <2>3, RemainingParts, FS_RemoveElement DEF IInv
  <2>5. t' = t /\ UNCHANGED levels /\ pc = "cycles" /\ pc' = "cycles"
    BY <1>8 DEF Leave, levelVars
  <2> HIDE DEF w, g, t, p
  <2> QED
    BY <1>1, <1>2, <1>3, <1>4, <2>4, <2>5
<1>9. CASE StartLevels \/ Done
  <2>1. /\ UNCHANGED <<color, levels, todo>>
        /\ \/ pc = "cycles" /\ pc' = "levels"
           \/ pc = "levels" /\ pc' = "done"
    BY <1>9 DEF StartLevels, Done, searchVars, levelVars
  <2>2. t' = t
    BY <2>1
  <2> HIDE DEF w, g, t, p
  <2> QED
    BY <1>1, <1>2, <1>3, <1>4, <2>1, <2>2
<1>10. CASE Level
  <2>1. /\ UNCHANGED <<color, todo>> /\ pc = "levels" /\ pc' = "levels"
        /\ frontier # {} /\ frontier \subseteq Class /\ frontier \cap Placed = {}
    BY <1>10 DEF Level, searchVars, IInv, TypeOK, LevelInv
  <2>2. /\ (Class \ Placed)' \in SUBSET (Class \ Placed)
        /\ (Class \ Placed)' # Class \ Placed
    BY <1>10, <2>1, PlacedGrows
  <2>3. p' < p
    BY <1>1, <2>2, RemainingParts, FS_Subset DEF IInv
  <2>4. t' = t /\ w' = w /\ g' = g
    BY <1>2, <2>1
  <2>5. Remaining = 2 * w + g + t + p + 1 /\ Remaining' = 2 * w' + g' + t' + p' + 1
    BY <1>3, <1>4, <2>1
  <2>6. PICK d \in Nat : p' = p - d - 1
    <3>1. \A a, b \in Nat : a < b => \E d \in Nat : a = b - d - 1
      <4>1. ASSUME NEW a \in Nat, NEW b \in Nat, a < b
            PROVE  b - a - 1 \in Nat /\ a = b - (b - a - 1) - 1
        BY <4>1
      <4> QED
        BY <4>1
    <3> HIDE DEF p
    <3> QED
      BY <1>1, <2>3, <3>1
  <2> HIDE DEF w, g, t, p
  <2> QED
    BY <1>1, <2>4, <2>5, <2>6
<1>11. CASE Over
  BY <1>11 DEF Over
<1> QED
  BY <1>5, <1>6, <1>7, <1>8, <1>9, <1>10, <1>11 DEF Next

(* The search and the layering end for every catalog (import_graph.cpp     *)
(* l.184, l.269): each step leaves less to do.                             *)
THEOREM NeverIdle ==
  ASSUME IsFiniteSet(FkName)
  PROVE  Spec => NoIdleStep
<1>1. IInv /\ IInv' /\ [Next]_vars => [Remaining' < Remaining]_vars
  BY NextUses
<1> QED
  BY <1>1, Inductive, PTL DEF Spec, NoIdleStep
=============================================================================
