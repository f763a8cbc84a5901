SPECIFICATION Spec
CONSTANTS
  Sales = {sales}
  Finance = {cfo}
  Hook = {hook}
  Price = {0}
  Envelopes = 1
  Instance = {}
  NoPrice = NoPrice
  NoInstance = NoInstance
PROPERTIES AcceptedStays
CHECK_DEADLOCK FALSE
