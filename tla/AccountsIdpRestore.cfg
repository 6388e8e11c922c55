\* One request at a time: a deleted user signs in through the provider.
SPECIFICATION Spec
CONSTANTS
  u1 = u1
  google = google
  r1 = r1
  r2 = r2
  api = api
  microservice = microservice
  User <- OneUser
  Idp <- OneIdp
  Request <- OneRequest
  Cron <- NoJob
  Batch = 1
  MaxPasswords = 1
  MaxAborts = 1
  Redeliver = FALSE
  Overlap = FALSE
PROPERTY IdpRestores
CHECK_DEADLOCK FALSE
