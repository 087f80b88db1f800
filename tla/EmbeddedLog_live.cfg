CONSTANTS
  SegmentRecords = 2
  MaxDiskRecords = 3
  BatchRecords = 2
  MaxRetries <- Forever
  StoreTypes = {"disk", "memory"}
  OnFull = "block"
  Fsync = "always"
  Outcomes = {"all_acked", "failed", "partial"}
  MaxRecords = 5
  MaxGroup = 2
  MaxFlushes = 0
  MaxRestarts = 0
  Crashes = {}

SPECIFICATION WorkingSinkSpec
INVARIANTS
  NoDuplicateInLife
PROPERTIES
  StreamMoves
