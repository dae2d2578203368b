SPECIFICATION Spec
CONSTANTS
  ControlPeriod = 2
  FrameTtl = 3
  CommissioningMode = FALSE
  DirectRestart = FALSE
  KillHoldingLock = FALSE
  MaxLate = 0
  RestartGap = 2
  MaxTime = 8
  MaxKills = 2
INVARIANTS
  TypeOK
  RevokedStops
  TickEnables
PROPERTY
  KeepsContract
