SPECIFICATION Spec
CONSTANTS
  BufLen = 3
  FifoDepth = 1
  Timeout = 2
  MaxCount = 3
  K = 3
INVARIANT NothingStuck
PROPERTIES
  InOrder
  CallsReturn
