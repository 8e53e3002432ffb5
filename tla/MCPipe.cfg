SPECIFICATION FairSpec
CONSTANTS
  PIPE_BUF_SIZE = 2
  Writer = {w1, w2}
  Reader = {r1}
  Byte = {0, 1}
  MaxLen = 3
INVARIANTS
  RingExact
PROPERTIES
  ImplementsStream
  
  
CHECK_DEADLOCK FALSE
