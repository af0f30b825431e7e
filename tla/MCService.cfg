SPECIFICATION Spec
CONSTANTS
  Conns = {k1}
  Addrs = {a1}
  Null = null
  MaxReqs = 2
  MaxEvents = 0
  MaxRead = 2
  Types = {"Open", "Lock", "Unlock", "CancelAsyncRequest", "SetTraceLevel", "Close", "Deregister", "Execute", "Register"}
  Services = {1}
  ReqIds = {0, 1}
  Requests <- ExecuteOrClose
  MaxIdle = 0
CHECK_DEADLOCK FALSE
PROPERTIES ServiceEnds CommandAnswered SessionSpec
