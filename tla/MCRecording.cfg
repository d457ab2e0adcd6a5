SPECIFICATION FairSpec
CONSTANTS
  Capacity = 1
  FileLengths <- ThreeFiles
  BuildFails = TRUE
  MaxOps = 4
CHECK_DEADLOCK FALSE
INVARIANTS
  SentInOrder
  EndIsAfterLastFile
  NoUseAfterFree
  PauseHolds
PROPERTIES
  RecordingEnds
  DestroyReturns
