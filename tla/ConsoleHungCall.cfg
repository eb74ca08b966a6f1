SPECIFICATION PollSpec
CONSTANTS
  Bundle <- MCBundle
  DownloadList <- MCDownloadList
  a1 = a1
  a2 = a2
  p1 = p1
  p2 = p2
  Requesters = {a1, a2}
  Pollers = {p1, p2}
  Faults = {"lost"}
  MaxRuns = 2
  MaxActions = 1
PROPERTY ActionMonitored
PROPERTY FlagCatchesUp
PROPERTY PanelReturns
CHECK_DEADLOCK FALSE
