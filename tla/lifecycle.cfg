CONSTANTS
  MayReset = TRUE
  ResetFails = FALSE
  BlockStart <- KoinosBlockStart
  MaxBlock = 3
  MaxRequests = 1
  MaxLaunches = 2
  Nobody = Nobody
SPECIFICATION FairSpec
INVARIANTS TypeOK SavedStays
PROPERTIES OnlyOwnPositionIsSaved ResetIsComplete SignalStops
CHECK_DEADLOCK FALSE
