SPECIFICATION FairSpec
CONSTANTS
  Sales = {sales}
  Finance = {cfo}
  Hook = {hook}
  Price = {0}
  Envelopes = 1
  Instance = {1}
  NoPrice = NoPrice
  NoInstance = NoInstance
PROPERTIES SignatureArrives
CHECK_DEADLOCK FALSE
