SPECIFICATION Spec
CONSTANTS
  Bundle <- MCBundle
  DownloadList <- MCDownloadList
  a1 = a1
  p1 = p1
  Requesters = {a1}
  Pollers = {p1}
  Faults = {}
  MaxRuns = 2
  MaxActions = 2
INVARIANT FilesBelong
CHECK_DEADLOCK FALSE
