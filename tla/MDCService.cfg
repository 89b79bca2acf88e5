SPECIFICATION FairSpec
CONSTANTS
  Streams <- MCStreams
  MaxSize = 3
  MaxChunk = 6
  InitialSize = 7
  Extra = 1
INVARIANTS
  TypeOK
  Unread
  Drained
  BoundedBuffer
PROPERTIES
  Implements
  ImplementsFair
CHECK_DEADLOCK FALSE
