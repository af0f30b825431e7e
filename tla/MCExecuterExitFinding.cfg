SPECIFICATION Spec
CONSTANTS
  Types <- MCTypes
  Services = {1, 2}
  ReqIds = {0, 1, 2}
  Requests <- OpenCloseRequests
  MaxCmds = 5
  MaxEvents = 0
  MaxIdle = 0
CHECK_DEADLOCK FALSE
INVARIANTS OnlyLastCloseExits
CONSTRAINT ClosesFollowOpens
