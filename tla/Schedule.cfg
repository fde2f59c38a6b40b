CONSTANTS
  n1 = n1
  n2 = n2
  k1 = k1
  k2 = k2
  f1 = f1
  Node = {n1, n2}
  KeyName = {k1, k2}
  FkName = {f1}
  NoKey = NoKey
  MaxUnique = 2
  MaxEdge = 2
SPECIFICATION Spec
SYMMETRY Symmetry
INVARIANTS
  NeverInvalid
  ScheduleIsPlan
PROPERTY ImplementsOrder
