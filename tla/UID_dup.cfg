SPECIFICATION Spec
CONSTANTS
  a1 = a1
  a2 = a2
  b1 = b1
  Threads = {a1, b1}
  NodeOf <- MCNodeOf
  FaultKinds = {}
  MaxCalls = 3
  MaxLinks = 2
  NoThread = NoThread
INVARIANTS
  UniqueSequence
CHECK_DEADLOCK FALSE
