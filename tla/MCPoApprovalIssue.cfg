SPECIFICATION Spec
CONSTANTS
  Session = {s1, s2}
  PoWriter = {s1, s2}
  Failing = {}
  Routes = {"engine", "unruled"}
  Instance = {1, 2}
  NoInstance = 0
PROPERTIES IssuedIsApproved
CHECK_DEADLOCK FALSE
