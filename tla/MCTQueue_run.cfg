CONSTANTS
  w1 = w1
  w2 = w2
  c1 = c1
  c2 = c2
  GC = GC
  Writers <- OneWriter
  Consumers <- TwoConsumers
  MaxID = 3
  MaxQueueEvents = 2
  Hints = {0}
  TTLs = {0, 1}
  MaxLimit = 1
  MaxUpdates = 3
  MaxTime = 2
  MaxRestarts = 0
SPECIFICATION Spec
SYMMETRY Symmetry
INVARIANT HeadIsOldest
INVARIANT ConfirmedWasDeliveredInRun
INVARIANT ConfirmedIsGone
PROPERTY FreshIds
PROPERTY ImplementsQueue
CHECK_DEADLOCK FALSE
