\* The manifest of a pass cannot be written; its temp files stay for the next pass.
CONSTANTS
  MaxId = 2
  MaxSeg = 4
  Value = {va}
  SegmentMaxSize = 1
  Nil = Nil
  Writers = {w1}
  Readers = {}
  MaxBatch = 1
  MaxLen = 2
  MaxCrashes = 0
  IOFaults = {"manifest"}
SPECIFICATION Spec
PROPERTY
  DeletedStayDeleted
