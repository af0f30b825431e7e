SPECIFICATION Spec
CONSTANTS
  Callers = {c1}
  NoCaller = nobody
  ReconnectCount = 2
  MaxCreates = 2
  MaxCmds = 0
  MaxResults = 0
CHECK_DEADLOCK FALSE
INVARIANTS OneLoopRunner
