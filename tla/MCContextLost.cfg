SPECIFICATION Spec
CONSTANTS
    MaxAttempts = 3
    MaxRestarts = 0
PROPERTIES
    FlowsSurvive
CHECK_DEADLOCK FALSE
