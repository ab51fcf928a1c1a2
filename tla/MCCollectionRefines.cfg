\* One writer with batches of two, and a second crash for the recovery from the
\* first: the engine implements RecordStore.
CONSTANTS
  MaxId = 2
  MaxSeg = 3
  Value = {va, vb}
  SegmentMaxSize = 1
  Nil = Nil
  Writers = {w1}
  Readers = {}
  MaxBatch = 2
  MaxLen = 2
  MaxCrashes = 2
  IOFaults = {}
SPECIFICATION Spec
CONSTRAINT NoHazard
SYMMETRY ValueSymmetry
PROPERTY
  RefinesRecordStore
