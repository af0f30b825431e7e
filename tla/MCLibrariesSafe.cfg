SPECIFICATION Spec
CONSTANTS
  Writes = {a, b}
  MaxTwice = 1
  Size = 1
  Asyncs = {a1, a2, a3}
  Silent = {a3}
  Senders = {t1, t2}
  MaxSends = 2
  Signals = {s1, s2}
  Signums = {1}
  PipeCap = 2
  MaxSignals = 2
  MaxStarts = 3
  Ctxs = {x1, x2}
  Stats = {sA, sB}
  Errors = {e1}
  Instances = {i1, i2}
  First = i1
  Accepts = 3
  MaxAccepts = 5
  Events = {"R", "W", "D"}
  Watches = {{}, {"R"}, {"W"}, {"R", "W", "D"}}
  MaxSets = 2
  LogThreads = {l1, l2}
  Blocks = {1, 2, 3, 4}
  Paths = {p1, p2}
  MaxLogs = 1
  MaxChanges = 1
  FreeLimit = 1
  TimerHandles = {m1, m2}
  Timeouts = {0, 1, 3}
  Repeats = {0, 1}
  TimeWrap = 4
  IntMax = 2
  MaxTimerStarts = 3
  HeapNodes = {1, 2, 3, 4, 5, 6, 7}
  IoWatchers = {n1, n2}
  SignalWatcher = sw
  Fds = {0, 1, 2}
  SignalFd = 0
  EventList = evlist
  Writers = {n1}
  BatchSize = 2
  Rounds = 2
  MaxOpens = 4
  SigHandles = {g1, g2}
  SigNums = {2, 21}
  NoSig = 0
  OneShots = {g2}
  MaxRaises = 3
  MaxSigStarts = 3
  LoopHandleSet = {h1, h2, h3, h4}
  LoopThread = loop
  Root = root
  ListenPipe = listen
  Modulus = 8
  Null = null
CHECK_DEADLOCK FALSE
INVARIANTS StreamQueuesSound WakeupsCarried FsPollSound CountsExact CallbacksBeforeClose
  ServersKeepListening LoopStructuresSound LoopCallbacksDue LogSound
