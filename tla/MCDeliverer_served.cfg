CONSTANTS
  Extras = {0, 7}
  BatchSize = 2
  MaxConnections = 1
  MaxUpdates = 2
  MaxRuns = 1
SPECIFICATION FairSpec
PROPERTY LoadedIsServed
CHECK_DEADLOCK FALSE
