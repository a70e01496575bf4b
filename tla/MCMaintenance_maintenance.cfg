SPECIFICATION Spec
CONSTANTS
  o1 = o1
  o2 = o2
  none = none
  nofile = nofile
  None = none
  NoFile = nofile
  Operators = {o1, o2}
  Commands <- Command
  InitialStores <- Stores
  MaxWrites = 1
  MaxJobs = 2
  Tolerance = 0
SYMMETRY Symmetry
INVARIANTS
  TypeOK
  PublishedComplete
  LedgerHonest
PROPERTIES
  LiveChangedAtRest
  RehearsalHonest
