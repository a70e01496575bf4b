SPECIFICATION FairSpec
CONSTANTS
  t1 = t1
  a = a
  Payload = {t1}
  Answer <- OneFact
  MaxRows = 1
  MaxAttempts = 2
  MaxSessions = 2
INVARIANTS
  TypeOK
  ClosedStoresQuiet
PROPERTIES
  DoneRowsStored
  TranscriptsSettle
  FactsEmbedded
