SPECIFICATION Spec
CONSTANTS
  Pool = 3
  Depth = 4
  MaxFrames = 5
  MaxFails = 1
INVARIANTS UnitsInOrder TextureNotInUse
PROPERTIES NoSilentStallUnlessFailed DestroyReturns
CHECK_DEADLOCK FALSE
