SPECIFICATION PageSpec
CONSTANTS
  Bundle <- MCBundle
  DownloadList <- MCDownloadList
  a1 = a1
  p1 = p1
  Requesters = {a1}
  Pollers = {p1}
  Faults = {"lost"}
  MaxRuns = 2
  MaxActions = 1
INVARIANT PanelConfirmed
CHECK_DEADLOCK FALSE
