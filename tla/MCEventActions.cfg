SPECIFICATION FairSpec
CONSTANTS
  Session = {user, hook}
  Failing = {hook}
  Type = {spare_parts_request, warranty_claim}
  Contractual = {warranty_claim}
  Stocked = {spare_parts_request}
  Instance = {1, 2}
  NoInstance = NoInstance
  NoPlan = NoPlan
  MaxDone = 2
INVARIANTS ContractualWasApproved RepeatedOnlyAfterSlips RowIsTrueAlone
PROPERTY DecidedIsCarriedOut
CHECK_DEADLOCK FALSE
