SPECIFICATION FairSpec
CONSTANTS
  Bundle <- MCBundle
  DownloadList <- MCDownloadList
  a1 = a1
  p1 = p1
  Requesters = {a1}
  Pollers = {p1}
  Faults = {"lost", "restart", "otherStarts", "otherStops", "page"}
  MaxRuns = 2
  MaxActions = 1
INVARIANT PageTypeOK
PROPERTY FlagCatchesUp
PROPERTY AutoStarts
PROPERTY PanelReturns
CHECK_DEADLOCK FALSE
