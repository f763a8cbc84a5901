SPECIFICATION GrnSpec
CONSTANTS
  s1 = s1  s2 = s2
  Caller = {s1, s2}
  PoWriter = {s1, s2}
  Failing = {}
  Receipt = {1, 2}
  Line = {1, 2}
  Ordered <- MCOrdered
  Payloads <- MCPlainPayloads
  MaxTries = 3
INVARIANTS FullyReceivedIsReceived
CHECK_DEADLOCK FALSE
