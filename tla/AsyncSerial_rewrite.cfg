SPECIFICATION FairSpec
CONSTANTS
  MaxWrites = 2
  MaxOpens = 2
  MaxUnplugs = 0
PROPERTY ReopenedGoesOut
CHECK_DEADLOCK FALSE
