SPECIFICATION Spec
CONSTANTS
  Sales = {s1, s2}
  Finance = {cfo}
  Hook = {hook}
  Price = {0}
  Envelopes = 2
  Instance = {}
  NoPrice = NoPrice
  NoInstance = NoInstance
INVARIANTS AcceptedNamesEnvelope
CHECK_DEADLOCK FALSE
