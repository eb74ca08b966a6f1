SPECIFICATION Spec
CONSTANTS
  w1 = w1
  Workers = {w1}
  Controllers = {w1}
  Faults = {"start", "stop", "dut", "replay", "write", "restart"}
  MaxRuns = 2
  MaxCalls = 4
INVARIANT TypeOK
INVARIANT ActionsBracketed
INVARIANT FinishedNotCapturing
PROPERTY LayersSealed
PROPERTY SealedActions
CHECK_DEADLOCK FALSE
