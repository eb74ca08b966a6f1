SPECIFICATION Spec
CONSTANTS
  w1 = w1
  w2 = w2
  Workers = {w1, w2}
  Controllers = {w1, w2}
  Faults = {}
  MaxRuns = 2
  MaxCalls = 1
INVARIANT NoOrphanCapture
CHECK_DEADLOCK FALSE
