SPECIFICATION Spec
CONSTANTS
  Class = {c1, c2, c3, p}
  FkName = {fk}
  PseudoName = {p}
  MaxFk = 4
  MaxInherit = 1
SYMMETRY Symmetry
INVARIANT CyclesClosed
INVARIANT KeptAcyclic
INVARIANT LevelsTopological
INVARIANT LeftOutWait
PROPERTY NoIdleStep
