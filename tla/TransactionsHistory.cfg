SPECIFICATION Spec
CONSTANTS
  t1 = t1
  t2 = t2
  t3 = t3
  google = google
  Tx <- TwoTx
  User <- OneUser
  Idp <- OneIdp
  PoolSize = 2
INVARIANT AnonymisedLeavesNoAddress
CHECK_DEADLOCK FALSE
