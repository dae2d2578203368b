SPECIFICATION SupervisorSpec
CONSTANTS
  MaxTime = 1
  MaxEpoch = 2
  LeaseGeneration = {1, 2}
  Policy <- FailurePolicy
  AbortAfterGrace = TRUE
  Grace = 1
INVARIANT FailedLeaseStaysDead
