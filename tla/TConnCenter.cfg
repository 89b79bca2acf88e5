SPECIFICATION Spec
CONSTANTS
  c1 = c1
  c2 = c2
  i1 = i1
  i2 = i2
  Conns = {c1, c2}
  Ids = {i1, i2}
  Senders = {}
  Null = Null
  Bye = Bye
  MaxPackets = 1
SYMMETRY ConnSymmetry
INVARIANTS
  TypeOK
  RecordedIsConnected
  ClosedIsRemoved
  NewestIsCached
CHECK_DEADLOCK FALSE
