SPECIFICATION Spec
CONSTANTS
  s1 = s1  s2 = s2  s3 = s3
  ann = ann  bob = bob
  finance = finance  legal = legal  admin = admin
  NoRole = NoRole
  NoUser = NoUser
  Session = {s1, s2}
  Editor = {s1}
  User = {ann, bob}
  Role = {finance, legal, admin}
  AdminRole = admin
  Holders <- MCHolders
  Instance = {1, 2}
  Order = {1, 2}
  Chains <- MCChains
INVARIANTS OneOpenInstance
CHECK_DEADLOCK FALSE
