\* A swap between the two halves of a Get.
CONSTANTS
  MaxId = 2
  MaxSeg = 4
  Value = {va}
  SegmentMaxSize = 1
  Nil = Nil
  Writers = {w1}
  Readers = {r1}
  MaxBatch = 1
  MaxLen = 2
  MaxCrashes = 0
  IOFaults = {}
SPECIFICATION Spec
INVARIANT
  GetReturnsItsRecord
