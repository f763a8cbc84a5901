SPECIFICATION Spec
CONSTANTS
  s1 = s1  s2 = s2  s3 = s3  p1 = p1  p2 = p2  p3 = p3
  NoPayment = NoPayment
  Session = {s1}
  Payment = {p1, p2, p3}
  Amounts = {1, 2}
  Total = 2
  FirstStatus = {"draft", "submitted"}
INVARIANTS StatusFollowsLedger
SYMMETRY Symmetry
CHECK_DEADLOCK FALSE
