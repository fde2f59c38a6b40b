SPECIFICATION RecordSpec
CONSTANTS
  e1 = e1
  e2 = e2
  e3 = e3
  CutOff = CutOff
  Edges <- MCEdges
  Place <- MCPlace
  Held <- MCHeld
  ContinueOnError = FALSE
  MaxStops = 3
INVARIANTS
  RecordWhole
  AtMostOneBehind
  RepairsListed
