SPECIFICATION Spec
CONSTANTS
  Methods <- SendAndGet
  RawOf <- RawApart
  MemberIdIsRaw = TRUE
  MaxEvents = 3
  MaxInFlight = 2
INVARIANT NeverBlocksLegitimate
