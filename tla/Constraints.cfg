CONSTANTS
  a = a
  b = b
  c = c
  i = i
  NoKey = NoKey
  Class <- TreeClasses
  Node <- TreeClasses
  Family <- Tree
  Key <- TreeKeys
  Fk <- TreeFks
  Index = {i}
  Faulty <- TreeFaulty
  MaxFaults = 1
SPECIFICATION Spec
INVARIANTS
  NoRefusal
  RecordsMatchCatalog
  AllAccounted
  HonestVerdict
PROPERTIES
  FollowsPlan
