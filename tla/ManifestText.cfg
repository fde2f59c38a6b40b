SPECIFICATION Spec
CONSTANTS
  Word <- MCWord
  Graphs <- MCGraphs
  Strips <- MCStrips
  Loads <- MCLoads
  Rebuilds <- MCRebuilds
  FkWorks <- MCFkWorks
  StatWorks <- MCStatWorks
  TriggerWorks <- MCTriggerWorks
  MaxResumes = 2
INVARIANTS
  GraphSurvives
  RecordSurvives
  VerdictSurvives
  LosesOnce
  NeverIncomplete
