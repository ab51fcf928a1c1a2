\* Keyed calls by one caller and by two, index builds under a quota, deadlines.
CONSTANTS
  t1 = t1
  t2 = t2
  a = a
  b = b
  Key = {k}
  None = None
  NoRec = NoRec
  NoIdx = NoIdx
  Thread = {t1, t2}
  Settings <- MCSettings
SPECIFICATION FairSpec
INVARIANTS
  IndexExact
  LimitsHold
PROPERTIES
  CasSeesItsRead
  ReapsOnlyExpired
  ExpiredAreReaped
CHECK_DEADLOCK FALSE
