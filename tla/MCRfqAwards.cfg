SPECIFICATION Spec
CONSTANTS
  s1 = s1  s2 = s2
  l1 = l1  l2 = l2
  b1 = b1  b2 = b2
  Session = {s1, s2}
  Line = {l1, l2}
  Bid = {b1, b2}
  Price = {1, 2}
  MaxOrders = 3
  NoBid = NoBid
  NoPrice = NoPrice
  NoLine = NoLine
SYMMETRY Symmetry
INVARIANTS BidMirrorsAwardsSerially OrdersAreAwardedSerially
PROPERTY AwardedBidIsFrozen
CHECK_DEADLOCK FALSE
