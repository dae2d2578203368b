SPECIFICATION Spec
CONSTANTS
  MaxTime = 2
  MaxEpoch = 2
  Origin = {Brain, Controller}
  Domain = {"Parameters"}
  Parameter = {p}
  Top = 1
  Duration = 1
  Ttl = 1
  MaxChanges = 1
  MaxGeneration = 3
  MaxRevision = 3
  Profile = {x, y}
  Registry = {1, 2}
  None = None
  LastGeneration = 3
  EventOrigin = {Brain, Controller}
  EventEpoch = {1, 2}
  Navigation = {"Navigate", "Back"}
  Critical = {"ConfirmRoute"}
  Routine = {"SelectRoute"}
  Capacity = 3
  MaxPushes = 5
  Rules <- FaultRules
  Motor = {1, 2}
  Watched <- WatchedFaults
  Reports <- ReportedAlone
  LeaseGeneration = {1, 2, 3}
  Policy <- FailurePolicy
  AbortAfterGrace = TRUE
  Grace = 1
  Motors <- DriveMotors
  Restarting <- LoseCount
  RestartAt = 4
  Warned <- MayWarn
  Skid = 2
  Tolerance = 1
  Confirm = 2
  MaxRefused = 1
  Full = 3
  Rise = 1
  Fall = 2
  MinThrottle = 1
  LockDelay = 2
SYMMETRY Symmetry
INVARIANTS
  TypeOK
  SavedIsLoaded
  EventsKept
  RetriesBounded
  GoodIsExact
  NothingRemembered
PROPERTIES
  CommitIsolated
  LeaseStaysVoid
  Debounced
  LatchHolds
  MotorsRemembered
  EndsForGood
CHECK_DEADLOCK FALSE
