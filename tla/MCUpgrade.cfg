\* A version that stays up runs on: nothing more happens until somebody asks.
SPECIFICATION Spec
CONSTANTS
  Version = {1, 2, 3}
  Bad = {2}
  MaxAttempts = 2
  Faults = {"disk"}
  MaxEvents = 7
INVARIANTS DroppedAfterTwo
PROPERTIES Recovers
CHECK_DEADLOCK FALSE
