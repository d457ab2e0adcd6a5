SPECIFICATION Spec
CONSTANTS
  Capacity = 2
  Times <- OneTime
  MaxAVIFrames = 2
  Threshold = 0
  EveryNth = 1
  Limits = {0}
  AutoStop = FALSE
  SHA256 = FALSE
  SourceEnds = FALSE
  BuildFails = FALSE
  MaxFrames = 3
  MaxOps = 3
CHECK_DEADLOCK FALSE
INVARIANTS
  QueuedFramesAreWritten
