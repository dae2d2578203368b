SPECIFICATION Spec
CONSTANTS
  ControlPeriod = 2
  FrameTtl = 8
  CommissioningMode = TRUE
  DirectRestart = FALSE
  KillHoldingLock = FALSE
  MaxLate = 3
  RestartGap = 2
  MaxTime = 12
  MaxKills = 0
PROPERTY
  BreakBeforeMake
