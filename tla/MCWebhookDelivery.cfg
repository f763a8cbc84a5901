SPECIFICATION WebhookFairSpec
CONSTANTS
  w1 = w1  w2 = w2  d1 = d1  d2 = d2  e1 = e1  e2 = e2
  Dispatch = {w1, w2}
  Stopped = {w1}
  Delivery = {d1, d2}
  Endpoint = {e1, e2}
  Managed = {e1}
  To <- MCTo
  BatchSize = 1
  MaxPosts = 2
INVARIANTS GivenUpWasTried AttemptsWereMade
PROPERTIES DeliveriesSettled
CHECK_DEADLOCK FALSE
