SPECIFICATION FairSpec
CONSTANTS
  s1 = s1
  s2 = s2
  c1 = c1
  k1 = k1
  k2 = k2
  none = none
  stale = stale
  None = none
  Stale = stale
  Process = {s1}
  Client = {c1}
  Conn = {k1}
  Cleanup = TRUE
  Worker = {"extraction", "embedding"}
  Config <- Strict
  MaxCrashes = 0
PROPERTIES
  StopNotStranded
