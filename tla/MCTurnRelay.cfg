CONSTANTS
  Creds = {c1}
  Clients = {a1}
  MaxRelays = 2
  Lease = 1
  TTL = 2
  MaxCredentials = 1
  MaxAllocations = 2
  MaxAllocationsPerTenant = 1
  MaxTime = 2
SPECIFICATION FairSpec
INVARIANTS OwnDatagram CountersExact RevokedClosed
PROPERTIES NoLateForward LeaseEnds NoRevival CloseReturns
CHECK_DEADLOCK FALSE
