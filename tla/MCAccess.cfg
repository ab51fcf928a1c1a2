SPECIFICATION FairSpec
CONSTANTS
  Calls <- Cs
  Settings <- Servers
INVARIANTS
  SlotsExact
  AuditFaithful
PROPERTIES
  Answered
CHECK_DEADLOCK FALSE
