\* The job runs in both processes while one request and the mail handler run.
SPECIFICATION FairSpec
CONSTANTS
  u1 = u1
  google = google
  r1 = r1
  r2 = r2
  api = api
  microservice = microservice
  User <- OneUser
  Idp <- NoIdp
  Request <- OneRequest
  Cron <- TwoJobs
  Batch = 1
  MaxPasswords = 2
  MaxAborts = 1
  Redeliver = FALSE
  Overlap = TRUE
INVARIANT DeletedStaysOut
PROPERTY EventuallyAnonymised
PROPERTY AnonymisedIsClosed
PROPERTY VerifiedStays
CHECK_DEADLOCK FALSE
