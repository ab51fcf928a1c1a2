\* A crash before index.json was ever rewritten.
CONSTANTS
  MaxId = 2
  MaxSeg = 3
  Value = {va}
  SegmentMaxSize = 2
  Nil = Nil
  Writers = {w1}
  Readers = {}
  MaxBatch = 1
  MaxLen = 2
  MaxCrashes = 1
  IOFaults = {}
SPECIFICATION Spec
INVARIANT
  AcknowledgedSurviveCrash
