SPECIFICATION FairSpec
CONSTANTS
  r1 = r1
  r2 = r2
  Reqs = {r1, r2}
  NoReq = NoReq
  Size = 3
  Chunk = 1
  MaxFaults = 2
INVARIANTS
  TypeOK
  DoneIsComplete
PROPERTIES
  Finishes
CHECK_DEADLOCK FALSE
