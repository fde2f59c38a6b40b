SPECIFICATION FairSpec
CONSTANTS
  N = 3
  Batches <- MCBatches
  Degree = 2
  MaxRun = 2
INVARIANT NoOrphanLoads
INVARIANT EachRowOnce
PROPERTY ImplementsBulkLoad
PROPERTY PoolEnds
CHECK_DEADLOCK FALSE
