\* Two confirmations of a password reset at a time.
SPECIFICATION Spec
CONSTANTS
  u1 = u1
  google = google
  r1 = r1
  r2 = r2
  api = api
  microservice = microservice
  User <- OneUser
  Idp <- NoIdp
  Request <- TwoRequests
  Cron <- NoJob
  Batch = 1
  MaxPasswords = 3
  MaxAborts = 1
  Redeliver = FALSE
  Overlap = TRUE
INVARIANT OneAttemptPerLink
CHECK_DEADLOCK FALSE
