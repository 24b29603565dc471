SPECIFICATION Spec
CONSTANT MaxAttempts = 3
INVARIANTS GreenMeansStreaming QuitLeavesPanelOff
PROPERTY JoinsReturnUnlessWindowCall
CHECK_DEADLOCK FALSE
