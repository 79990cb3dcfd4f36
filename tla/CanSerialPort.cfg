SPECIFICATION FairSpec
CONSTANTS
  Producer = {p1, p2}
  TxQueueMax = 2
  MaxFrames = 5
  MaxReceived = 1
INVARIANT TypeOK
INVARIANT NeverPopsEmpty
INVARIANT SentInOrder
INVARIANT LossNeedsOverflow
PROPERTY ImplementsFifo
PROPERTY NothingIsStuck
