\* Logs of up to four entries in three segments.
CONSTANTS
  MaxId = 2
  MaxSeg = 3
  Value = {va, vb}
  SegmentMaxSize = 1
  Nil = Nil
  MaxEntries = 4
  MaxRev = 3
  MaxLeft = 1
SPECIFICATION Spec
INVARIANTS
  LastWriteWins
  RevisionsSurviveReplay
  FilesAreTheCut
