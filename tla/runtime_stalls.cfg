SPECIFICATION Spec
CONSTANTS
  ControlPeriod = 2
  FrameTtl = 2
  CommissioningMode = FALSE
  DirectRestart = TRUE
  KillHoldingLock = FALSE
  MaxLate = 6
  RestartGap = 0
  MaxTime = 5
  MaxKills = 1
INVARIANTS
  EnabledHasOwnFrame
  NoFalseRegression
  DeadManStop
