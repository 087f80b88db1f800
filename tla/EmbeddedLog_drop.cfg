CONSTANTS
  SegmentRecords = 2
  MaxDiskRecords = 2
  BatchRecords = 2
  MaxRetries = 0
  StoreTypes = {"disk", "memory"}
  OnFull = "dropOldest"
  Fsync = "interval"
  Outcomes = {"all_acked", "failed"}
  MaxRecords = 4
  MaxGroup = 2
  MaxFlushes = 0
  MaxRestarts = 2
  Crashes = {"kill", "close"}

SPECIFICATION Spec
INVARIANTS
  OrderPreserved
  WithinBudget
PROPERTIES
  CheckpointMonotone
  ImplementsStoreAndForward
