SPECIFICATION FairSpec
CONSTANTS
    BucketSize = 2
    ForceMemory = 2
    MaxDelta = 2
    Window = 4
    MaxSegments = 5
    MaxEvents = 2
INVARIANTS
    TypeOK SnapCount AckedSaved NoDangling IndexAfterMedia AckedReceived
    HistoryKept MediaOnce
PROPERTIES
    StoredForward AckedInTheEnd
CHECK_DEADLOCK FALSE
