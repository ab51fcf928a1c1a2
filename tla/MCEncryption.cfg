SPECIFICATION FairSpec
CONSTANTS
  Docs <- OneDoc
  Settings <- Uses
INVARIANTS
  ReadsBack
  QueriesSeePlaintext
  MigrationComplete
PROPERTIES
  SealedReachPolicy
CHECK_DEADLOCK FALSE
