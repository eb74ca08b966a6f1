SPECIFICATION Spec
CONSTANTS
  w1 = w1
  w2 = w2
  Workers = {w1, w2}
  Controllers = {w1}
  Faults = {"start", "stop", "dut"}
  MaxRuns = 2
  MaxCalls = 4
INVARIANT NoOrphanCapture
INVARIANT FinishedIsSealed
PROPERTY ImplementsLifecycle
CHECK_DEADLOCK FALSE
