SPECIFICATION Spec
CONSTANTS
  SigHandles = {g1}
  SigNums = {2}
  NoSig = 0
  OneShots = {}
  MaxRaises = 2
  MaxSigStarts = 1
CHECK_DEADLOCK FALSE
INVARIANTS EndgameNotPending
