SPECIFICATION FairSpec
CONSTANTS
  NbLearners = 2
  NB_MESSAGES = 3
  UrpcBits = 3
  MaxMessages = 18
INVARIANTS
  UrpcTypeOK
  SendNeverSpins
  NeverOverrun
  EpochTellsNew
  WholeUnlessEpochZero
PROPERTY
  EveryMessageReceived
CHECK_DEADLOCK FALSE
