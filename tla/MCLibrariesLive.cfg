SPECIFICATION Spec
CONSTANTS
  Workers = {w1, w2}
  Requests = {r1, r2}
  Loop = loop
  MaxCancels = 2
  Threads = {t1, t2, t3}
  Rounds = 2
  PosixRounds = 1
  MaxReads = 2
  Writes = {a}
  MaxTwice = 1
  Instances = {i1, i2}
  First = i1
  Accepts = 3
  MaxAccepts = 3
  Events = {"R", "D"}
  Watches = {{}, {"R"}, {"R", "D"}}
  MaxSets = 2
  Idlers = {d1, d2, d3}
  NoIdler = none
  MaxKeys = 1
  MaxReadStarts = 4
  LogThreads = {l1}
  Blocks = {1, 2}
  Paths = {p1}
  MaxLogs = 1
  MaxChanges = 0
  FreeLimit = 1
CHECK_DEADLOCK FALSE
INVARIANTS DoneOnceTruthfully ThreadsExclude
PROPERTIES EveryWorkAnswered PlatformsAgree EndsComplete
