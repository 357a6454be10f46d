SPECIFICATION LiveSpec
CONSTANTS
    MaxBytes <- Uniform
    StreamBuffer = 1
    IoBudget = 1
    WireCap = 2
    MaxGrace = 1
    MaxAttempts = 2
PROPERTIES
    ResumeConfirmed
    Settles
    EventuallyDelivered
    BothEnd
CHECK_DEADLOCK FALSE
