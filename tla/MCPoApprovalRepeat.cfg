SPECIFICATION Spec
CONSTANTS
  Session = {s1}
  PoWriter = {s1}
  Failing = {}
  Routes = {"engine"}
  Instance = {1, 2, 3}
  NoInstance = 0
PROPERTIES IssuedStays
CHECK_DEADLOCK FALSE
