SPECIFICATION Spec
CONSTANTS
  MaxAttempt = 2
  MayOther = TRUE
  MaxPlugs = 1
  MaxGlitches = 2
INVARIANTS NoOrphan CaptureBeforeDisplay GoneMeansUnplugged
PROPERTIES DisplayGoes
CHECK_DEADLOCK FALSE
