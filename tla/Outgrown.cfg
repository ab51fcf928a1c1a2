\* Two appends before either writer rotates; the pass re-splits them.
CONSTANTS
  MaxId = 2
  MaxSeg = 3
  Value = {va}
  SegmentMaxSize = 1
  Nil = Nil
  Writers = {w1, w2}
  Readers = {}
  MaxBatch = 1
  MaxLen = 2
  MaxCrashes = 0
  IOFaults = {}
SPECIFICATION Spec
INVARIANT
  RenamesOnlySealed
