SPECIFICATION Spec
CONSTANTS
  Capacity = 2
  Times <- OneTime
  MaxAVIFrames = 2
  Threshold = 0
  EveryNth = 1
  Limits = {0}
  AutoStop = FALSE
  SHA256 = TRUE
  SourceEnds = FALSE
  BuildFails = TRUE
  MaxFrames = 4
  MaxOps = 3
CHECK_DEADLOCK FALSE
INVARIANTS
  NoUseAfterFree
  WriterBelongsToWorker
  FilesHaveNoHoles
  ReportAfterVerification
PROPERTIES
  ProgressRunsForward
  NoFrameDroppedWhileFinalizing
