SPECIFICATION FairSpec
CONSTANTS
    MaxConns = 3
    Video = TRUE
    Key = {0, 2}
    Empty = {}
    InfoAt = {2}
    MaxSkip = 1
    MaxFrames = 3
    MaxFaults = 2
INVARIANTS
    TypeOK LastAckSent NoFatalAck
PROPERTIES
    Delivered AcksForward Settled
CHECK_DEADLOCK FALSE
