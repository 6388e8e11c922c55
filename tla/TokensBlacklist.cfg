\* One access token, one request: it is used, then signed out.
SPECIFICATION Spec
CONSTANTS
  j1 = j1
  j2 = j2
  j3 = j3
  r1 = r1
  r2 = r2
  Jwt <- OneToken
  Request <- OneRequest
  AccessTtl = 2
  RefreshTtl = 3
  Ticks = 2
  Lag = 1
  MaxTime = 6
INVARIANT SignedOutIsRefused
CHECK_DEADLOCK FALSE
