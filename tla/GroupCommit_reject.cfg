CONSTANTS
  p1 = p1
  p2 = p2
  p3 = p3
  Producers <- TwoProducers
  MaxBufferedRecords = 2
  MaxBatch = 2
  MaxSeq = 3
  OnFull = "rejectNew"
  Fsync = "perBatch"
  SegmentRecords = 9
  Faults = {"append", "sync"}

SPECIFICATION Spec
SYMMETRY ProducerSymmetry
INVARIANTS
  TypeOK
  OneLeader
  AckedIsDurable
  FlushCovers
  OrderInv
  OutcomesAreOwn
PROPERTIES
  ImplementsOrderedLog
