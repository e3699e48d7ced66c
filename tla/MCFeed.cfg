SPECIFICATION Spec
CONSTANTS
  p1 = p1
  Prefix = {p1}
  TTLs = {6}
  Interval = 2
  StartPoll = 2
  Slack = 2
  Retry = 1
  Transit = 1
  ApplyTime = 1
  MaxEvents = 3
VIEW FeedView
INVARIANTS DropsOnTime HealthyKeeps WithdrawPrompt FeedOnWire StopDrops
