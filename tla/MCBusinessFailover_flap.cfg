SPECIFICATION FairSpec
CONSTANTS
  a = a
  b = b
  Backends = {a, b}
  Fallible = {a, b}
  None = None
  Routes <- OneRoute
  Requests = {r1}
  Threshold = 2
  Cooldown = 1
  RecoveryVotes = 2
  MinHold = 1
PROPERTY FailbackLasts
