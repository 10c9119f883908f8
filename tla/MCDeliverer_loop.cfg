CONSTANTS
  Extras = {0, 7}
  BatchSize = 2
  MaxConnections = 2
  MaxUpdates = 3
  MaxRuns = 1
SPECIFICATION Spec
INVARIANT TypeOK
INVARIANT QueuesHoldPending
INVARIANT OrderedPerKey
CHECK_DEADLOCK FALSE
