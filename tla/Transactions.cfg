SPECIFICATION FairSpec
CONSTANTS
  t1 = t1
  t2 = t2
  t3 = t3
  google = google
  Tx <- TwoTx
  User <- TwoUsers
  Idp <- OneIdp
  PoolSize = 2
INVARIANT TypeOK
INVARIANT HistoryIsTrue
INVARIANT JobClearsHistory
INVARIANT SilentOnlyBesideJob
INVARIANT DeadlockNeedsHaste
PROPERTY EveryTransactionEnds
CHECK_DEADLOCK FALSE
