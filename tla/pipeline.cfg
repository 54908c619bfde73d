SPECIFICATION Spec
CONSTANTS
  MaxSeq = 4
  Chunks = 2
  Restarts = 1
  MaxWaits = 2
INVARIANTS OneBuffer FramesAccounted SnapshotWhole
PROPERTIES HoldEnds
