CONSTANTS
  MayReset = TRUE
  ResetFails = TRUE
  BlockStart <- NoBlockStart
  MaxBlock = 3
  MaxRequests = 1
  MaxLaunches = 2
  Nobody = Nobody
SPECIFICATION Spec
PROPERTIES ResetIsComplete
CHECK_DEADLOCK FALSE
