SPECIFICATION FairSpec
CONSTANTS
  r1 = r1
  r2 = r2
  r3 = r3
  w1 = w1
  w2 = w2
  NoOne = NoOne
  Readers = {r1, r2}
  Writers = {w1}
  channel_size = 2
  NBits = 2
  IntBits = 2
  MaxWrites = 4
  MaxReaders = 2
  Env = {"missed", "late"}

  
PROPERTIES
  
  WriteReturns
CHECK_DEADLOCK FALSE
