SPECIFICATION FairSpec
CONSTANTS
  AutoStop = TRUE
  SourceEnds = TRUE
  BuildFails = TRUE
  MaxFrames = 1
  MaxOps = 3
CHECK_DEADLOCK FALSE
INVARIANTS
  CheckCompleteMatches
PROPERTIES
  ReportKept
  DisplayCatchesUp
  AutoExit
