SPECIFICATION FairSpec
CONSTANTS
  w1 = w1
  w2 = w2
  nobody = nobody
  MaxFacts = 2
  MaxAttempts = 2
  Worker = {w1, w2}
  NoWorker = nobody
INVARIANTS
  TypeOK
  ErasedNotEmbedded
PROPERTIES
  ImplementsCoverage
  EventuallyEmbedded
