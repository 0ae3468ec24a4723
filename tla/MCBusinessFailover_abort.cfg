SPECIFICATION Spec
CONSTANTS
  a = a
  b = b
  Backends = {a, b}
  Fallible = {a}
  None = None
  Routes <- OneRoute
  Requests = {r1}
  Threshold = 2
  Cooldown = 1
  RecoveryVotes = 2
  MinHold = 1
INVARIANT HealthyStaysInRotation
