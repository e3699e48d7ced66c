CONSTANTS
  p1 = p1
  p2 = p2
  Prefix = {p1, p2}
  Inbound = {p2}
  MaxImprovements = 1
  InboundMax = 1
  MaxRules = 1
  MaxHeld = 1
  SwapMayFail = FALSE
SPECIFICATION Spec
INVARIANTS OnePathPerPrefix NoOrphan OutOfInject SharedCap HeldStaysOut
