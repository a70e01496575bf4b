SPECIFICATION Spec
CONSTANTS
  s1 = s1
  s2 = s2
  c1 = c1
  k1 = k1
  k2 = k2
  none = none
  stale = stale
  None = none
  Stale = stale
  Process = {s1, s2}
  Client = {c1}
  Conn = {k1, k2}
  Cleanup = TRUE
  Worker = {"extraction", "embedding"}
  Config <- Configs
  MaxCrashes = 1
SYMMETRY Symmetry
INVARIANTS
  TypeOK
  SingleWriter
  ClosedAfterShutdown
  OkMeansCommitted
  PathIsServed
