SPECIFICATION Spec
CONSTANTS
  Callers = {c1, c2}
  Nobody = nobody
  Services = {s1, s2}
  Classes = {system}
  MaxCalls = 4
  MaxEvents = 1
CHECK_DEADLOCK FALSE
INVARIANTS EntriesAccounted EventOncePerService NoEventAfterClose
