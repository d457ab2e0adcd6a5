SPECIFICATION FairSpec
CONSTANTS
  Capacity = 1
  Times <- OneTime
  MaxAVIFrames = 2
  Threshold = 0
  EveryNth = 1
  Limits = {0, 1}
  AutoStop = TRUE
  SHA256 = FALSE
  SourceEnds = TRUE
  BuildFails = FALSE
  MaxFrames = 3
  MaxOps = 3
CHECK_DEADLOCK FALSE
PROPERTIES
  CommandsReturn
