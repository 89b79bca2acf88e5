SPECIFICATION FairSpec
CONSTANTS
  Docs <- MCDocs
  Number = 2
  Start = 2
  Collections <- MCCollections
  MaxTime = 3
  MaxWrites = 2
  MaxFaults = 1
INVARIANTS
  TypeOK
  SettledIsCopied
PROPERTIES
  Arrives
  RunEnds
CHECK_DEADLOCK FALSE
