SPECIFICATION Spec
CONSTANTS
  UseGpu = TRUE
  MaxFails = 1
  MaxLosses = 1
  Retries = 2
  MaxPics = 2
INVARIANT PushedIsCurrent
PROPERTIES NeverFlashesBack StopEndsCapture
CHECK_DEADLOCK FALSE
