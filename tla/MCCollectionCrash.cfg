\* Two writers, rotation, compaction, restarts and one crash at any step.
CONSTANTS
  MaxId = 2
  MaxSeg = 3
  Value = {va}
  SegmentMaxSize = 1
  Nil = Nil
  Writers = {w1, w2}
  Readers = {}
  MaxBatch = 1
  MaxLen = 2
  MaxCrashes = 1
  IOFaults = {}
SPECIFICATION Spec
CONSTRAINT NoHazardYet
SYMMETRY WriterSymmetry
INVARIANTS
  TypeOK
  DurableLog
  ReadsSeeCommits
  ReplayOrder
  FreshIds
