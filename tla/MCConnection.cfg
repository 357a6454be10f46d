SPECIFICATION FairSpec
CONSTANTS
    MaxRpcs = 2
    HistoryKeep = 0
    MaxPushes = 1
INVARIANTS SingleLive NoResurrection ClientHoldsCurrent NeverConflicts StartedInOrder
PROPERTIES PendingTaken Served
