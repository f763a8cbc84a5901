SPECIFICATION FairSpec
CONSTANTS
  Batch = {b1, b2}
  Run = {r1, r2}
  Failing = {r1}
  DlqDown = TRUE
  MaxAttempts = 2
  Limit = 1
  NoBatch = NoBatch
INVARIANTS OneReplayer DeadWasTried
PROPERTIES SettledInTheEnd
CHECK_DEADLOCK FALSE
