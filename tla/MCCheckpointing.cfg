SPECIFICATION FairSpec
CONSTANTS
  nb_nodes = 3
  bufmsgs = 2
  IndexBits = 2
  nb_iter = 3
INVARIANTS
  CheckpointingTypeOK
  AckCanBeSent
  RecvAckGetsAck
  NeverOverrun
  EpochTellsNew
  SnapshotIsFresh
PROPERTIES
  SnapshotsComplete
CHECK_DEADLOCK FALSE
