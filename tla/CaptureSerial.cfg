SPECIFICATION Spec
CONSTANTS
  w1 = w1
  Workers = {w1}
  Tools = {"dumpcap", "tcpdump"}
  Faults = {"sudo", "disk", "wait"}
  PacketLimit = 3
  MaxPackets = 3
INVARIANT TypeOK
INVARIANT EvidenceNotLost
PROPERTY SnapshotPublishesWhole
PROPERTY StopPublishesAll
CHECK_DEADLOCK FALSE
