SPECIFICATION Spec
CONSTANTS
  w1 = w1
  w2 = w2
  Workers = {w1, w2}
  Tools = {"dumpcap"}
  Faults = {}
  PacketLimit = 2
  MaxPackets = 2
SYMMETRY WorkerSymmetry
INVARIANT FinalCaptureComplete
CHECK_DEADLOCK FALSE
