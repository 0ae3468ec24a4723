SPECIFICATION Spec
CONSTANTS
  Gateways = {"a", "b", "c"}
  Bundles <- MCBundles
  Checkers = {1}
  Requests = {1}
  FailureThreshold = 2
  RecoveryThreshold = 2
  MaxEvents = 3
INVARIANTS TypeOK PoolComplete RetriesMoveOn SdkInPool
PROPERTIES FailbackEarned RequestsEnd FailsBack
CHECK_DEADLOCK FALSE
