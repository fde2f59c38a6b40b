SPECIFICATION Spec
CONSTANTS
  a = a
  b = b
  pk_a = pk_a
  uk_a = uk_a
  pk_b = pk_b
  fk_ab = fk_ab
  fk_ba = fk_ba
  Class = {a, b}
  Key = {pk_a, uk_a, pk_b}
  Fk = {fk_ab, fk_ba}
  Edge = {fk_ab, fk_ba}
  Index = {ix}
  Trigger = {tr}
  ParentPk <- MCParentPk
  ParentKeys <- MCParentKeys
  FkPos <- MCFkPos
  Batches <- MCBatches
  Policies = {TRUE, FALSE}
  MaxFaults = 2
INVARIANT MarkerNeverAhead
INVARIANT SuccessMeansImported
INVARIANT ResumeNeverStuck
INVARIANT PendingIsMissing
INVARIANT IInv
PROPERTY LoadsIntoBareHeaps
PROPERTY RecordNeverLost
PROPERTY DryRunLeavesNoTrace
