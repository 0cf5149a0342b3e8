SPECIFICATION Spec
CONSTANTS
  StartBlock = 1
  ChunkBlocks = 2
  MaxBlock = 3
  MaxLag = 3
  MaxReorgs = 1
  MaxFaults = 2
  StrictLogs = TRUE
INVARIANTS
  TypeOK
  CursorCoversStored
  HealthyMeansCaughtUp
PROPERTIES
  ReconciledGapIsNotLive
  ForkFreezesStream
  CursorNeverRetreats
CHECK_DEADLOCK FALSE
