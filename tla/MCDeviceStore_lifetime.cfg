SPECIFICATION Spec
CONSTANTS
  Users = {u1}
  Installs = {i1, i2}
  Sessions = {s1, s2}
  None = None
  KickOldest = FALSE
  DefaultLimit = 1
  Limits = {2}
  TTL = 1
  TouchAfter = 0
  OfflineAfter = 0
  PurgeAfter = 0
  MaxTime = 2
SYMMETRY Symmetry
INVARIANTS
  TypeOK
  StoreConsistent
  GrantedSurvivesRestart
  EndedStaysEnded
PROPERTIES
  SessionsDieOnce
  UseKeepsDeviceSeen
  AdmissionWithinLimit
  KeepsPromise
