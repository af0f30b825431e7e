SPECIFICATION FairSpec
CONSTANTS
  Callers = {c1, c2}
  NoCaller = nobody
  ReconnectCount = 2
  MaxCreates = 2
  MaxCmds = 2
  MaxResults = 1
CHECK_DEADLOCK FALSE
INVARIANTS ToldOfOwnConnection SpawnsOnce WrittenInOrder
PROPERTIES CallsReturn AcceptedIsWritten LostConnectionNoticed
