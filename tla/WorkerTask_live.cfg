SPECIFICATION FairSpec
CONSTANTS
  n1 = n1
  n2 = n2
  j = j
  w1 = w1
  w2 = w2
  c1 = c1
  Tasks = {n1, n2, j}
  NameOf <- MCNameOf
  Periodic = {n1}
  Uninterruptable = {j}
  Workers = {w1, w2}
  Clients = {c1}
  MaxCalls = 2
  NoTask = NoTask
  NoWorker = NoWorker
PROPERTIES
  ScheduledRuns
  ShutdownCompletes
CHECK_DEADLOCK FALSE
