SPECIFICATION FairSpec
CONSTANTS
  MaxWrites = 3
  MaxOpens = 2
  MaxUnplugs = 1
INVARIANT WireFaithful
PROPERTY BufferStable
PROPERTY HandlersEnd
CHECK_DEADLOCK FALSE
