SPECIFICATION FairSpec
CONSTANTS
  c1 = c1
  c2 = c2
  w1 = w1
  w2 = w2
  Callers = {c1, c2}
  Workers = {w1, w2}
  Timeout = 3
  SendFails = TRUE
  None = None
  MaxCalls = 2
  MaxSeq = 5
  MaxNow = 4
INVARIANTS
  TypeOK
  NoStaleHandler
  OwnAnswer
PROPERTIES
  CallsReturn
CHECK_DEADLOCK FALSE
