SPECIFICATION Spec
CONSTANTS
  Session = {s1, s2, s3}
  PoWriter = {s1, s2}
  Failing = {s1}
  Routes = {"auto", "engine", "unruled"}
  Instance = {1, 2}
  NoInstance = 0
INVARIANTS SettledByItsVerdict MirrorsInstance
PROPERTIES NoManualBypass
CHECK_DEADLOCK FALSE
