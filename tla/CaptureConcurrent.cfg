SPECIFICATION FairSpec
CONSTANTS
  w1 = w1
  w2 = w2
  Workers = {w1, w2}
  Tools = {"dumpcap", "tcpdump"}
  Faults = {"wait"}
  PacketLimit = 2
  MaxPackets = 2
INVARIANT NoTempLeft
INVARIANT NoStraySnapshot
PROPERTY StopTerminates
PROPERTY OrphanEnds
CHECK_DEADLOCK FALSE
