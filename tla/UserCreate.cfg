SPECIFICATION USpec
CONSTANTS
  a1 = a1
  a2 = a2
  b1 = b1
  Threads = {a1, a2, b1}
  NodeOf <- MCNodeOf
  FaultKinds = {"load", "insert"}
  MaxCalls = 4
  MaxLinks = 4
  NoThread = NoThread
  Names = {"u"}
  SeedIds = {1}
  MaxUsers = 3
  Seed = Seed
INVARIANTS
  TypeOK
  PerNodeIncreasing
  CreatedOnce
  ReturnedIsStored
  NamesApart
SYMMETRY MCSymmetry
CHECK_DEADLOCK FALSE
