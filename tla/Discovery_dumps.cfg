CONSTANTS
  Name <- Names
  ClassName <- Classes
  Rank <- Order
  MaxFiles = 4
SPECIFICATION DSpec
INVARIANTS OneDumpFound
