SPECIFICATION FairSpec
CONSTANTS
  Gateways = {g1, g2}
  Installs = {i1, i2}
  Devices = {d1}
  Sessions = {s1, s2}
  Loaders = {sync}
  Periodic = sync
  None = None
  Limit = 1
  SaveOutcomes = {"saved"}
PROPERTY WritesBecomeVisible
