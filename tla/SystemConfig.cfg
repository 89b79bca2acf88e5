SPECIFICATION Spec
CONSTANTS
  a1 = a1
  a2 = a2
  b1 = b1
  Threads = {a1, a2, b1}
  NodeOf <- MCNodeOf
  Values = {1, 2}
  Defaults = {8}
  Absent = 0
  NoEntry = NoEntry
  MaxAge = 2
  LoadFails = FALSE
  MaxOps = 3
  MaxNow = 3
INVARIANTS
  TypeOK
  AnswerAge
  SetInvalidates
CHECK_DEADLOCK FALSE
