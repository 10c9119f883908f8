SPECIFICATION Spec
CONSTANTS
  Methods <- EveryHandler
  RawOf <- RawApart
  MemberIdIsRaw = TRUE
  MaxEvents = 1
  MaxInFlight = 1
INVARIANTS
  TypeOK
  ConnectsFirst
  OkTellsWhatHappened
  RefusalsChangeNothing
  RightAddress
  RefusedOnlyIfOut
  RequestsInv
