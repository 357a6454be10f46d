SPECIFICATION Spec
CONSTANTS
    Keys = {k1}
    Callers = {t1, t2}
    Scopes <- AllScopes
    Limit = 1
    MaxAge = 2
    Lease = 3
    Handlers = 1
    MaxTime = 4
SYMMETRY Symmetric
PROPERTIES RevokedImmediately
CHECK_DEADLOCK FALSE
