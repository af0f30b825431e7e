SPECIFICATION Spec
CONSTANTS
  Handles = {h1, h2}
  Posters = {executer, item}
  LoopThread = loop
  Root = root
  Listen = listen
  Modulus = 8
CHECK_DEADLOCK FALSE
INVARIANTS RunsWhileActive
