SPECIFICATION Spec
CONSTANTS
  Bundle <- MCBundle
  DownloadList <- MCDownloadList
  a1 = a1
  a2 = a2
  Requesters = {a1, a2}
  Pollers = {}
  Faults = {"lost", "restart", "otherBetween", "otherStops"}
  MaxRuns = 3
  MaxActions = 2
SYMMETRY ThreadSymmetry
INVARIANT TypeOK
INVARIANT FilesBelong
PROPERTY EvidenceRefreshed
PROPERTY SavedIsSealed
CHECK_DEADLOCK FALSE
