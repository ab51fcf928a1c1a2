\* index.json cannot be persisted, the next pass is cut short.
CONSTANTS
  MaxId = 2
  MaxSeg = 4
  Value = {va}
  SegmentMaxSize = 1
  Nil = Nil
  Writers = {w1}
  Readers = {}
  MaxBatch = 1
  MaxLen = 2
  MaxCrashes = 0
  IOFaults = {"index"}
SPECIFICATION Spec
INVARIANT
  LeftManifestHarmless
