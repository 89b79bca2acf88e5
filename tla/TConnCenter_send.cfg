SPECIFICATION FairSpec
CONSTANTS
  c1 = c1
  c2 = c2
  i1 = i1
  i2 = i2
  Conns = {c1}
  Ids = {i1, i2}
  Senders = {c1}
  Null = Null
  Bye = Bye
  MaxPackets = 2
PROPERTIES
  LostIsRemoved
CHECK_DEADLOCK FALSE
