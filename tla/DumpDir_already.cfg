SPECIFICATION Spec
CONSTANTS
  d1 = d1
  d2 = d2
  d3 = d3
  Target = {d1, d2}
  DbName <- DistinctNames
  Production = {}
  Recreatable = {}
  HasKeys = TRUE
  LastPrev = 1
INVARIANT AlreadyThisTarget
