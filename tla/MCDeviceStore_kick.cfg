SPECIFICATION Spec
CONSTANTS
  Users = {u1}
  Installs = {i1, i2, i3}
  Sessions = {s1, s2, s3}
  None = None
  KickOldest = TRUE
  DefaultLimit = 1
  Limits = {1, 2}
  TTL = 1
  TouchAfter = 0
  OfflineAfter = 1
  PurgeAfter = 1
  MaxTime = 0
SYMMETRY Symmetry
INVARIANTS
  EndedStaysEnded
PROPERTIES
  AdmissionWithinLimit
  EvictionIsMinimal
