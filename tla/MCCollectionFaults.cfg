\* A reader beside the compactor; index.json or the manifest cannot be written.
CONSTANTS
  MaxId = 2
  MaxSeg = 3
  Value = {va}
  SegmentMaxSize = 1
  Nil = Nil
  Writers = {w1}
  Readers = {r1}
  MaxBatch = 1
  MaxLen = 2
  MaxCrashes = 0
  IOFaults = {"manifest", "index"}
SPECIFICATION Spec
CONSTRAINT OnlyFailedIndex
INVARIANT
  FailedPersistInvisible
PROPERTY
  UnmovedGetIsCurrent
