SPECIFICATION MCSpec
CONSTANTS
  Caller = {c1}
  Sizes = {5, 20, 48}
  RecvBufSize = 4096
  BlockSizes = {2}
  MaxWft = 1
  SnModulus = 4
  MaxMessages = 3
  MaxLost = 4
  MaxWaits = 0
INVARIANT TypeOK
INVARIANT ConsecutiveHasLength
INVARIANT NoFloodNoSilentLoss
INVARIANT FailureHasCauseAtPeer
PROPERTY ImplementsTransfer
PROPERTY LinksEnd
CHECK_DEADLOCK FALSE
