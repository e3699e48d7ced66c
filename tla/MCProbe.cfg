SPECIFICATION ProbeFairSpec
CONSTANTS
  Prefix = {1, 2, 3}
  Provider = {1, 2}
  Source = {1, 2}
  FreshSource = {2}
  Barred = {3}
  Reach <- MCReach
  Workers = 2
  Inflight = 1
  RoundTime = 2
  ManualTTL = 3
  MaxManual = 1
  Lists <- MCLists
  Intervals = {3}
  MaxAge = 4
  ProbeStarts <- MCProbeStarts
INVARIANTS BoundedProbes NoLateStored FailClosed NotOverslept

PROPERTIES KeepsProbing
