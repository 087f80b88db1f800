CONSTANTS
  Kind <- FiveRecords
  BatchRecords = 2
  FileRecords = 2
  MaxFiles = 1
  MaxRetries = 1
  Setups <- AllSetups
  MaxFaults = 1
  MaxRestarts = 1

SPECIFICATION FairSpec
INVARIANTS
  TypeOK
  AckedInFiles
  RepeatsExplained
PROPERTIES
  SinkAdvances
CHECK_DEADLOCK FALSE
