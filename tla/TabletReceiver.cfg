SPECIFICATION Spec
CONSTANTS
  b1 = b1
  b2 = b2
  Buffers <- MCBuffers
  MaxFeeds = 3
  MaxConns = 2
  MaxSurfaces = 2
INVARIANTS BuffersInOnePlace PushedInOrder CodecOutlivesPump DecoderOnLiveSurface DecoderOfThisConnection
PROPERTIES QueuedUnitIsTaken CallsReturnUnlessHung
CHECK_DEADLOCK FALSE
