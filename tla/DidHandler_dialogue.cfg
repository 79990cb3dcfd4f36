SPECIFICATION FairSpec
CONSTANTS
  Did = {1, 2}
  MaxRetries = 1
  Answers = {"ok", "pending", "rejected", "condition", "other"}
  SessionPends = TRUE
  Destroys = FALSE
  MaxClicks = 2
  MaxAborts = 0
  MaxLate = 1
  MaxDrops = 1
  MaxPendings = 1
INVARIANT TypeOK
INVARIANT NoEmptyPop
INVARIANT NothingLeftBehind
INVARIANT WritesAccounted
INVARIANT ValueIsOfDid
PROPERTY RemovesTheAsked
PROPERTY DialogueEnds
CHECK_DEADLOCK FALSE
