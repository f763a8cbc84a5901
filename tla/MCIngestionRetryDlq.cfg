SPECIFICATION Spec
CONSTANTS
  Batch = {b1}
  Run = {r1}
  Failing = {}
  DlqDown = TRUE
  MaxAttempts = 2
  Limit = 1
  NoBatch = NoBatch
CHECK_DEADLOCK FALSE
INVARIANT NothingLost
