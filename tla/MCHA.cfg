\* The pair may stop for good: both processes can have ended.
SPECIFICATION Spec
CONSTANTS
  a = a
  b = b
  Node = {a, b}
  TTL <- MCTTL
  Renew <- MCRenew
  Hold = {2}
  DefaultRouteHold = 2
  MaxTime = 1000
  MaxStarts = 2
  Settle = 1
  MaxEvents = 2
  Faults = {"withdraw", "drop", "heal"}
VIEW HAView
CONSTRAINT Scope
INVARIANTS
  RoutersCarryOne
  WithdrawComes
PROPERTY
  ResignsWithoutRoutes
CHECK_DEADLOCK FALSE
