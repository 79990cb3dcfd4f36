SPECIFICATION Spec
CONSTANTS
  Caller = {c1, c2}
  Sizes = {5, 20, 34}
  RecvBufSize = 4096
  BlockSizes = {2}
  MaxWft = 1
  SnModulus = 4
  MaxMessages = 2
  MaxLost = 0
  MaxWaits = 0
INVARIANT ConsecutiveHasLength
CHECK_DEADLOCK FALSE
