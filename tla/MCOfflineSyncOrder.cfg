SPECIFICATION OfflineSpec
CONSTANTS
  t1 = t1
  t2 = t2
  q1 = q1
  q2 = q2
  q3 = q3
  Key = {1, 2}
  Tab = {t1}
  Req = {q1}
  Faulty = FALSE
  NoReq = NoReq
CHECK_DEADLOCK FALSE
INVARIANT LatestSaveStands
