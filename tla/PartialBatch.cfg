\* A batch whose second record Append refuses.
CONSTANTS
  MaxId = 2
  MaxSeg = 3
  Value = {va}
  SegmentMaxSize = 2
  Nil = Nil
  Writers = {w1}
  Readers = {}
  MaxBatch = 2
  MaxLen = 2
  MaxCrashes = 1
  IOFaults = {}
SPECIFICATION Spec
PROPERTY
  RejectedBatchWritesNothing
