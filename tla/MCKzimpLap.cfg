SPECIFICATION Spec
CONSTANTS
  r1 = r1
  r2 = r2
  r3 = r3
  w1 = w1
  w2 = w2
  NoOne = NoOne
  Readers = {r1}
  Writers = {w1, w2}
  channel_size = 2
  NBits = 1
  IntBits = 1
  MaxWrites = 4
  MaxReaders = 1
  Env = {"lap"}
INVARIANTS
  OneWriterPerMessage
CHECK_DEADLOCK FALSE
