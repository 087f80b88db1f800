CONSTANTS
  SegmentRecords = 3
  MaxDiskRecords = 3
  BatchRecords = 2
  MaxRetries <- Forever
  StoreTypes = {"disk", "memory"}
  OnFull = "rejectNew"
  Fsync = "perBatch"
  Outcomes = {"all_acked"}
  MaxRecords = 4
  MaxGroup = 2
  MaxFlushes = 1
  MaxRestarts = 1
  Crashes = {"kill", "power"}

SPECIFICATION Spec
INVARIANTS
  TypeOK
  NoLoss
