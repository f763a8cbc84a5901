SPECIFICATION Spec
CONSTANTS
  s1 = s1  s2 = s2
  ann = ann  bob = bob
  Session = {s1, s2}
  User = {ann, bob}
  Item = {i1}
  Evidenced = {i1}
  Exception = {x1}
  SelfReview = FALSE
  Nobody = Nobody
  NoItem = NoItem
SYMMETRY Symmetry
INVARIANTS ClosedIsCompleteSerially ReviewedByAnother
CHECK_DEADLOCK FALSE
