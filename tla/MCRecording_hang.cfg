SPECIFICATION FairSpec
CONSTANTS
  Capacity = 1
  FileLengths <- TwoFiles
  BuildFails = FALSE
  MaxOps = 3
CHECK_DEADLOCK FALSE
PROPERTIES
  DestroyAlwaysReturns
