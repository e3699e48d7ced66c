\* The pair may stop for good: both processes can have ended.
SPECIFICATION Spec
CONSTANTS
  a = a
  b = b
  Node = {a, b}
  TTL <- MCTTL
  Renew <- MCRenew
  Hold = {1}
  DefaultRouteHold = 1
  MaxTime = 1000
  MaxStarts = 1000
  ResignWithinTTL = TRUE
VIEW LeaseView
SYMMETRY Symmetry
INVARIANTS
  AtMostOneActive
PROPERTY
  OneLeaderAtATime
CHECK_DEADLOCK FALSE
