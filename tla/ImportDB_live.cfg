SPECIFICATION FairSpec
CONSTANTS
  a = a
  b = b
  pk_a = pk_a
  uk_a = uk_a
  pk_b = pk_b
  fk_ab = fk_ab
  fk_ba = fk_ba
  Class = {a, b}
  Key = {pk_a, uk_a, pk_b}
  Fk = {fk_ab, fk_ba}
  Edge = {fk_ab, fk_ba}
  Index = {ix}
  Trigger = {tr}
  ParentPk <- MCParentPk
  ParentKeys <- MCParentKeys
  FkPos <- MCFkPos
  Batches <- MCBatches
  Policies = {FALSE}
  MaxFaults = 1
INVARIANT WithheldIsMissing
PROPERTY Completes
