SPECIFICATION DecideSpec
CONSTANTS
  Prefix = {1, 2}
  Provider = {1, 2, 3}
  Native = 1
  Shapes <- DShapes
  HoldTime = 1
  MaxAge = 1
  TTL = 4
  NativeConfirm = 2
  Window = 3
  Cooldown = 1
  MaxCooldown = 2
  VerifyWindow = 1
  Backoff = 1
  MaxBackoff = 2
  MaxStreak = 2
  MaxStrikes = 2
  Starts <- DStarts
  Configs <- DConfigs
  Evals <- DEvals
INVARIANTS HeldOffStaysNative WithdrawIsReal
PROPERTIES ConfirmedMoves FlapBounded WithinCap
CHECK_DEADLOCK FALSE
