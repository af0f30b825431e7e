SPECIFICATION Spec
CONSTANTS
  Conns = {k1, k2}
  Addrs = {a1, a2}
  Null = null
  MaxReqs = 2
  MaxEvents = 1
  MaxRead = 2
CHECK_DEADLOCK FALSE
SYMMETRY Symmetry
CONSTRAINT EventOrRequests
INVARIANTS SlotsArePipes RepliesToAsker RepliesInOrder NoticesAccounted NoLeakWhileConnected
PROPERTIES BroadcastReachesAll
