SPECIFICATION MCSpec
CONSTANTS
  FailureLimit = 2
  MaxEvents = 2
  MaxJobs = 1
INVARIANTS TypeOK StopHolds
PROPERTIES LostTunnelNoticed RecoveryEnds
CHECK_DEADLOCK FALSE
