\* Two requests in flight on one account with two ways to sign in, and mails
\* that may be sent twice.  The nightly job is in AccountsNightly.
SPECIFICATION Spec
CONSTANTS
  u1 = u1
  google = google
  r1 = r1
  r2 = r2
  api = api
  microservice = microservice
  User <- OneUser
  Idp <- OneIdp
  Request <- TwoRequests
  Cron <- NoJob
  Batch = 1
  MaxPasswords = 1
  MaxAborts = 1
  Redeliver = TRUE
  Overlap = TRUE
SYMMETRY RequestSymmetry
INVARIANT TypeOK
INVARIANT SingleSession
INVARIANT DeletedStaysOut
INVARIANT RequestsFounded
PROPERTY DeactivatedStaysOut
PROPERTY VerifiedStays
CHECK_DEADLOCK FALSE
