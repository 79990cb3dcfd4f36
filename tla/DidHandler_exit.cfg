SPECIFICATION FairSpec
CONSTANTS
  Did = {1, 2}
  MaxRetries = 1
  Answers = {"ok", "pending", "rejected", "condition", "other"}
  SessionPends = FALSE
  Destroys = TRUE
  MaxClicks = 2
  MaxAborts = 1
  MaxLate = 0
  MaxDrops = 0
  MaxPendings = 1
PROPERTY DestructorReturns
CHECK_DEADLOCK FALSE
