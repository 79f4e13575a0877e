SPECIFICATION Spec
CONSTANTS
  channel_size = 3
  IndexBits = 2
  MaxWrites = 20
INVARIANTS
  UmpTypeOK
  InOrder
  EpochTellsNew
  NeverOverrun
  AckCanBeSent
CHECK_DEADLOCK FALSE
