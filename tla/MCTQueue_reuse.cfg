CONSTANTS
  w1 = w1
  w2 = w2
  c1 = c1
  c2 = c2
  GC = GC
  Writers <- TwoWriters
  Consumers <- OneConsumer
  MaxID = 3
  MaxQueueEvents = 2
  Hints = {0}
  TTLs = {0, 1}
  MaxLimit = 1
  MaxUpdates = 2
  MaxTime = 2
  MaxRestarts = 1
SPECIFICATION Spec
SYMMETRY Symmetry
INVARIANT ConfirmedWasDelivered
CHECK_DEADLOCK FALSE
