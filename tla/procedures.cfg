SPECIFICATION Spec
CONSTANTS
  Fields = 2
  Status = {s1, s2}
  GenerationModulus = 8
  N = 3
  Value = {a, b, c}
  MaxDrops = 1
  Device = {motor, imu}
  Dwell = 2
  SensorTimeout = 3
  MaxFailures = 2
  Channel = {"wheel", "gyro"}
  Expected = {"wheel"}
  Imu = {"gyro"}
  Rig <- MCRig
  Level <- MCLevel
  MinValue = 0
  MaxValue = 2
  MaxRate = 1
  MaxAge = 1
  FreezeTimeout = 2
  Recovery = 2
  Horizon = 5
  Leaf <- MCLeaf
  Top <- MCTop
  Kind <- MCKind
  Children <- MCChildren
  Deadline <- MCDeadline
  Requires <- MCRequires
  AllowedIn <- MCAllowedIn
  Interruptible <- MCInterruptible
  Known <- MCKnown
  Capacity = 2
  LeaseModulus = 4
  MaxEpoch = 4
  Motion <- MCMotion
  Halting <- MCHalting
  DoNothing <- MCDoNothing
  MotionTop <- MCMotionTop
  Timeout = 3
  Settle = 1
  Stall = 1
  Route = {"stay", "cross", "push"}
  DoNothingRoute = "stay"
  Side = {"near", "far"}
  Compatible <- MCCompatible
  Approved = {"stay", "cross"}
  CommandOf <- MCCommandOf
INVARIANTS
  TypeOK
  ReadIsCurrent
  NoTornElement
  GoodIsEarned
  EndedOnce
  NoSharedSubsystem
  RunsInItsEpoch
  RouteIsConfirmed
PROPERTIES
  AlertIsFelt
  IsQueue
  VelocityOfRunningMotion
  MotionsEnd
