\* A client that waits for its answers, without and with faults, and two
\* requests at once.
SPECIFICATION FairSpec
CONSTANTS
  c1 = c1
  c2 = c2
  a = a
  b = b
  c = c
  Caller = {c1, c2}
  Tx = {t1}
  Settings <- MCSettings
INVARIANTS
  AppliedAsAnswered
  LimitsHold
PROPERTIES
  CallsEnd
  AbandonedAreReaped
CHECK_DEADLOCK FALSE
