\* Three access tokens and two requests against a clock of two ticks a second:
\* every rounding of a half second occurs, and tokens outlive their session.
SPECIFICATION Spec
CONSTANTS
  j1 = j1
  j2 = j2
  j3 = j3
  r1 = r1
  r2 = r2
  Jwt <- ThreeTokens
  Request <- TwoRequests
  AccessTtl = 2
  RefreshTtl = 3
  Ticks = 2
  Lag = 1
  MaxTime = 8
SYMMETRY Symmetry
INVARIANT TypeOK
INVARIANT EntryFits
INVARIANT SessionHorizon
INVARIANT RefreshStops
CHECK_DEADLOCK FALSE
