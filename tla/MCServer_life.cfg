CONSTANTS
  Reqs = {r1, r2}
  Bots = {b1, b2}
  Hooked = {}
  None = None
  MaxClients = 1
  MaxCalls = 3
SPECIFICATION FairSpec
INVARIANT TypeOK
INVARIANT OneConnection
INVARIANT CleanShutdown
INVARIANT StoreOpenForGC
INVARIANT ServerInv
PROPERTY RequestsAnswered
PROPERTY ShutdownReturns
CHECK_DEADLOCK FALSE
