SPECIFICATION FairSpec
CONSTANTS
  Types <- MCTypes
  Services = {1, 2}
  ReqIds = {0, 1, 2}
  Requests <- ExecuteRequests
  MaxCmds = 3
  MaxEvents = 2
  MaxIdle = 0
CHECK_DEADLOCK FALSE
INVARIANTS WatchWindow EventNeedsExecute
PROPERTIES ShutdownCompletes QueueSpec
