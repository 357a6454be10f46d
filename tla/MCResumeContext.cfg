SPECIFICATION Spec
CONSTANTS
    MaxAttempts = 4
    MaxRestarts = 1
INVARIANTS
    ClientContextIsShared
    AgreeOnceReconnected
CHECK_DEADLOCK FALSE
