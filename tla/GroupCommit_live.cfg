CONSTANTS
  p1 = p1
  p2 = p2
  p3 = p3
  Producers <- ThreeProducers
  MaxBufferedRecords = 1
  MaxBatch = 1
  MaxSeq = 2
  OnFull = "block"
  Fsync = "always"
  SegmentRecords = 9
  Faults = {}

SPECIFICATION FairSpec
PROPERTIES
  CallsReturn
