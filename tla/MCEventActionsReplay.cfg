SPECIFICATION Spec
CONSTANTS
  Session = {user, hook}
  Failing = {}
  Type = {create_work_order}
  Contractual = {}
  Stocked = {}
  Instance = {1}
  NoInstance = NoInstance
  NoPlan = NoPlan
  MaxDone = 2
INVARIANT PerformedOnce
CHECK_DEADLOCK FALSE
