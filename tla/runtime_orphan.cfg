SPECIFICATION Spec
CONSTANTS
  ControlPeriod = 2
  FrameTtl = 3
  CommissioningMode = TRUE
  DirectRestart = FALSE
  KillHoldingLock = TRUE
  MaxLate = 0
  RestartGap = 2
  MaxTime = 8
  MaxKills = 1
INVARIANT
  DeadManStop
