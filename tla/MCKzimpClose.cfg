SPECIFICATION Spec
CONSTANTS
  r1 = r1
  r2 = r2
  r3 = r3
  w1 = w1
  w2 = w2
  NoOne = NoOne
  Readers = {r1, r2, r3}
  Writers = {w1, w2}
  channel_size = 2
  NBits = 2
  IntBits = 2
  MaxWrites = 4
  MaxReaders = 3
  Env = {"close"}
INVARIANTS
  NoOverwriteWhileRead
  ExactlyOnceInOrder
  SteadyInv
  OrderInv
PROPERTIES
  RefinesMulticast
CHECK_DEADLOCK FALSE
