SPECIFICATION FairSpec
CONSTANTS
  W = 256
  Sizes <- SomeSizes
  FileSizes <- SomeFiles
  FrameCounts = {1}
  BATCH = 2
CHECK_DEADLOCK FALSE
INVARIANTS
  OKHasContents
  SearchStaysInList
PROPERTIES
  WalkEnds
