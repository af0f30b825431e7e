SPECIFICATION Spec
CONSTANTS
  Types <- MCTypes
  Services = {1, 2}
  ReqIds = {0, 1, 2}
  Requests <- MixedRequests
  MaxCmds = 4
  MaxEvents = 0
  MaxIdle = 1
CHECK_DEADLOCK FALSE
INVARIANTS CurrentIsFront NothingLost CancelExact
PROPERTIES FirstExitMeansNoService
