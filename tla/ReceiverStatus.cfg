SPECIFICATION StatusSpec
CONSTANTS
  QueueSize = 2
  MaxFrames = 4
INVARIANT GreenMeansFrames
PROPERTY SilenceIsShown
CHECK_DEADLOCK FALSE
