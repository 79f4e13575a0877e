SPECIFICATION FairSpec
CONSTANTS
  channel_size = 2
  IndexBits = 2
  MaxWrites = 2
PROPERTIES
  SleepsUntilItCanWrite
CHECK_DEADLOCK FALSE
