SPECIFICATION FairSpec
CONSTANTS
  QueueSize = 2
  MaxFrames = 6
  Closers <- BothClosers
  Timed = TRUE
  c1 = c1
  c2 = c2
CHECK_DEADLOCK FALSE
INVARIANTS
  HeldFrameIntact
  RingHoldsFramesInOrder
PROPERTIES
  BlockedPutReturns
  EndStopsConsumer
  AcceptedIsDelivered
  ImplementsFIFO
