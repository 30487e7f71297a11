SPECIFICATION FairSpec
CONSTANTS
  MaxBatch = 3
  TotalBudget = 8
  TokenBudget = 6
  MinBudget = 4
  MaxSeq = 4
  SeqBucket <- Buckets
  RowsPerSeq <- Rows
  Item <- Items
  Workload <- Loads
  Undecodable <- OneAtMost
  Overrides = {1, 5}
  ChunkRows = 4
  TxBatch = 3
  Interval = 2
  SelectTime = 1
  BatchTime = 2
CHECK_DEADLOCK FALSE
INVARIANT PassTypeOK
INVARIANT RangesPartition
INVARIANT ShapesBounded
INVARIANT WatchdogFed
INVARIANT EmbeddedOnce
INVARIANT NoSilentEnd
PROPERTY LoopEnds
