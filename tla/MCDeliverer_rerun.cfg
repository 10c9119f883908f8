CONSTANTS
  Extras = {0, 7}
  BatchSize = 2
  MaxConnections = 2
  MaxUpdates = 2
  MaxRuns = 2
SPECIFICATION Spec
INVARIANT InFlightAccounted
INVARIANT NoRepost
INVARIANT GivenUpForCause
INVARIANT LoopInv
CHECK_DEADLOCK FALSE
