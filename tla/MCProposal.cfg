SPECIFICATION Spec
CONSTANTS
  Sales = {sales}
  Finance = {cfo}
  Hook = {hook}
  Price = {0, 1}
  Envelopes = 2
  Instance = {1}
  NoPrice = NoPrice
  NoInstance = NoInstance
INVARIANTS SentPriceIsApproved AcceptedWasSigned
CHECK_DEADLOCK FALSE
