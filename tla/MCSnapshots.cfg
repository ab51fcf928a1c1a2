SPECIFICATION FairSpec
CONSTANTS
  Snaps = {"s1", "s2"}
  Settings <- Cases
  SegMax = 1
INVARIANTS
  RestoresCut
