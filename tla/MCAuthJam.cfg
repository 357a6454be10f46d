CONSTANTS
  Procs = {p1}
  MaxLogins = 2
  MaxRequests = 2
SPECIFICATION Spec
INVARIANT RefreshPossible
CHECK_DEADLOCK FALSE
