SPECIFICATION GrnSpec
CONSTANTS
  s1 = s1  s2 = s2
  Caller = {s1, s2}
  PoWriter = {s1, s2}
  Failing = {s1}
  Receipt = {1, 2}
  Line = {1, 2}
  Ordered <- MCOrdered
  Payloads <- MCPayloads
  MaxTries = 3
INVARIANTS ReceivedIsBacked DistinctNumbers
PROPERTIES ReceiptStands
CHECK_DEADLOCK FALSE
