SPECIFICATION Spec
CONSTANTS
  Wheel = {left, right}
  Top = 1
  Steps = {1}
  LiftInputs <- StickUp
  LeaseModulus = 3
  MaxEpoch = 3
INVARIANTS
  LiftRaises
