SPECIFICATION Spec
CONSTANTS
  UseGpu = FALSE
  MaxFails = 0
  MaxLosses = 1
  Retries = 2
  MaxPics = 1
INVARIANT NeverCrashes
CHECK_DEADLOCK FALSE
