SPECIFICATION Spec
CONSTANTS
  Batch = {b1}
  Run = {r1, r2}
  Failing = {}
  DlqDown = FALSE
  MaxAttempts = 2
  Limit = 1
  NoBatch = NoBatch
CHECK_DEADLOCK FALSE
PROPERTY BackoffRespected
