SPECIFICATION Spec
CONSTANTS
  Did = {1, 2}
  MaxRetries = 1
  Answers = {"ok"}
  SessionPends = FALSE
  Destroys = FALSE
  MaxClicks = 2
  MaxAborts = 1
  MaxLate = 0
  MaxDrops = 0
  MaxPendings = 0
INVARIANT NothingLeftBehind
CHECK_DEADLOCK FALSE
