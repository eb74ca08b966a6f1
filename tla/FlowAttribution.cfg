SPECIFICATION Spec
CONSTANTS
  w1 = w1
  w2 = w2
  Workers = {w1, w2}
  Actions = {"baseline", "boot"}
  Connections <- Mixed
  DutIp = "dut"
  TargetIps = {"peer"}
  MayRaise = TRUE
  Slack = 1
  MaxTime = 6
  MaxCalls = 2
  MaxPackets = 2
SYMMETRY WorkerSymmetry
INVARIANT TypeOK
INVARIANT WindowPacketsLinked
INVARIANT UnattributedMeansNone
INVARIANT LinkedNear
INVARIANT FlowsBidirectional
INVARIANT PolicyMatchesTraffic
INVARIANT AnalysisCoversTraffic
PROPERTY ReplayStable
CHECK_DEADLOCK FALSE
