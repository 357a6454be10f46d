CONSTANTS
  Procs = {p1, p2}
  MaxLogins = 2
  MaxRequests = 3
SPECIFICATION FairSpec
INVARIANTS Recoverable NeverRefused
PROPERTY Settled
CHECK_DEADLOCK FALSE
