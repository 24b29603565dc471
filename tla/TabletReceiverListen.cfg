SPECIFICATION Spec
CONSTANTS
  b1 = b1
  b2 = b2
  Buffers <- MCBuffers
  MaxFeeds = 1
  MaxConns = 1
  MaxSurfaces = 1
PROPERTIES BackToListening
CHECK_DEADLOCK FALSE
