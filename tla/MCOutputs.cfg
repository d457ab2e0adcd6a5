SPECIFICATION FairSpec
CONSTANTS
  MaxFrames = 3
  Frames <- ThreeFrames
  PoolSize = 2
  DeviceDepth = 1
  DeviceFails = TRUE
  BadFrames = {3}
  MonFrames <- ThreeFrames
  MonPoolSize = 1
  MonBadFrames = {3}
  MaxStops = 1
CHECK_DEADLOCK FALSE
INVARIANTS
  SamplesOwned
  PlayedInOrder
  EndAfterLastFrame
  LazySignalling
  PreviewIsAwake
PROPERTIES
  PreviewMovesForward
  QueuedIsPlayed
  OutputsClose
