\* A request is in flight while the nightly job runs.
SPECIFICATION Spec
CONSTANTS
  u1 = u1
  google = google
  r1 = r1
  r2 = r2
  api = api
  microservice = microservice
  User <- OneUser
  Idp <- OneIdp
  Request <- OneRequest
  Cron <- OneJob
  Batch = 1
  MaxPasswords = 1
  MaxAborts = 1
  Redeliver = FALSE
  Overlap = TRUE
PROPERTY OnlyLongDeleted
CHECK_DEADLOCK FALSE
