SPECIFICATION Spec
CONSTANTS
    MaxBytes <- Upload
    StreamBuffer = 2
    IoBudget = 2
    WireCap = 2
    MaxGrace = 1
    MaxAttempts = 3
INVARIANTS
    NoLoss
    NoProtocolError
    ResumeAgrees
    OneTargetConnection
PROPERTIES
    IsStream
CHECK_DEADLOCK FALSE
