SPECIFICATION Spec
CONSTANTS
  Capacity = 1
  Times <- JumpTimes
  MaxAVIFrames = 3
  Threshold = 1
  EveryNth = 1
  Limits = {0}
  AutoStop = FALSE
  SHA256 = FALSE
  SourceEnds = FALSE
  BuildFails = FALSE
  MaxFrames = 4
  MaxOps = 2
CHECK_DEADLOCK FALSE
INVARIANTS
  FileLengthBounded
  DiscontinuityStartsNewFile
