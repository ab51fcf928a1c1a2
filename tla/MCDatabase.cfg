SPECIFICATION Spec
CONSTANTS
  Coll = {1, 2, 3}
  Settings <- Uses
  MaxSalt = 3
  MaxCrashes = 2
INVARIANTS
  CanReopen
  OneOwner
  WrongKeyRefused
CHECK_DEADLOCK FALSE
