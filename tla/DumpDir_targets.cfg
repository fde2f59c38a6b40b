SPECIFICATION Spec
CONSTANTS
  d1 = d1
  d2 = d2
  d3 = d3
  Target = {d1, d2, d3}
  DbName <- Names
  Production = {d3}
  Recreatable = {d2}
  HasKeys = TRUE
  LastPrev = 1
INVARIANT ImportedThisTarget
INVARIANT RowsNotMixed
INVARIANT ProductionUntouched
PROPERTY RecordKept
