CONSTANTS
  w1 = w1
  w2 = w2
  c1 = c1
  c2 = c2
  GC = GC
  Writers <- TwoWriters
  Consumers <- OneConsumer
  MaxID = 2
  MaxQueueEvents = 1
  Hints = {0}
  TTLs = {0, 1}
  MaxLimit = 1
  MaxUpdates = 3
  MaxTime = 2
  MaxRestarts = 1
SPECIFICATION FairSpec
INVARIANT TypeOK
INVARIANT RowsOwned
INVARIANT LiveEventsDurable
INVARIANT RowIdsUnique
PROPERTY RowsDrain
CHECK_DEADLOCK FALSE
