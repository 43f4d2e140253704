SPECIFICATION Spec
CONSTANTS
    BucketSize = 2
    ForceMemory = 2
    MaxDelta = 2
    Window = 4
    MaxSegments = 6
    MaxEvents = 1
INVARIANT AckedByOld
CHECK_DEADLOCK FALSE
