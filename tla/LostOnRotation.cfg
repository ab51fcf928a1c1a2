\* A segment sealed while a pass is between its snapshot and its swap.
CONSTANTS
  MaxId = 2
  MaxSeg = 4
  Value = {va}
  SegmentMaxSize = 1
  Nil = Nil
  Writers = {w1}
  Readers = {}
  MaxBatch = 1
  MaxLen = 2
  MaxCrashes = 0
  IOFaults = {}
SPECIFICATION Spec
PROPERTY
  CompactionPreservesData
