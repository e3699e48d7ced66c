\* A version that stays up runs on: nothing more happens until somebody asks.
SPECIFICATION Spec
CONSTANTS
  Version = {1, 2, 3}
  Bad = {2, 3}
  MaxAttempts = 2
  Faults = {"exec", "save", "delete"}
  MaxEvents = 7
VIEW UpgradeView
INVARIANTS RunsWhatIsRecorded RollbackOnDisk
CHECK_DEADLOCK FALSE
