SPECIFICATION Spec
PROPERTIES ModeChangeEndsSession
