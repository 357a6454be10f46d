SPECIFICATION Spec
CONSTANTS
    Keys = {k1, k2}
    Callers = {t1}
    Scopes <- AllScopes
    Limit = 1
    MaxAge = 1
    Lease = 2
    Handlers = 1
    MaxTime = 2
SYMMETRY Symmetric
PROPERTIES NoAnswerAfterCut BoundedStaleness
CHECK_DEADLOCK FALSE
