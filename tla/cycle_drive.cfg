SPECIFICATION Spec
CONSTANTS
  Wheel = {left, right}
  Top = 2
  Steps = {1}
  LiftInputs <- OneInput
  LeaseModulus = 3
  MaxEpoch = 4
INVARIANTS
  TypeOK
  LeaseKept
  CoastOncePerPress
PROPERTIES
  SlewBounded
