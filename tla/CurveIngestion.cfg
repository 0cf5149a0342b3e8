SPECIFICATION Spec
CONSTANTS
  NumCurves = 2
  MaxBlock = 2
  ChunkBlocks = 1
  MaxAddresses = 2
  MaxFaults = 1
INVARIANT LaunchStreamComplete 
PROPERTY  EveryCurveGrouped
CHECK_DEADLOCK FALSE
