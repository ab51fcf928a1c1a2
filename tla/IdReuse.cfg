\* A crash inside rotateSegment.
CONSTANTS
  MaxId = 2
  MaxSeg = 3
  Value = {va}
  SegmentMaxSize = 1
  Nil = Nil
  Writers = {w1}
  Readers = {}
  MaxBatch = 1
  MaxLen = 2
  MaxCrashes = 1
  IOFaults = {}
SPECIFICATION Spec
INVARIANT
  NoIdReuse
