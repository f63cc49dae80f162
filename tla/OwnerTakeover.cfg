CONSTANTS
  p1 = p1
  p2 = p2
  p3 = p3
  Procs = {p1, p2, p3}
  None = None
  LoopsCap = 2
SPECIFICATION FairSpec
INVARIANTS
  OneConsumerUnlessSuspect
PROPERTIES
  LoopsKeepRunning
CHECK_DEADLOCK FALSE
