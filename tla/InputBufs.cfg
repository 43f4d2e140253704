SPECIFICATION Spec
CONSTANTS
    Tracks = {t1}
    Fillers = {f1}
    Requests = {r1, r2}
    Others = TRUE
    None = None
    MaxBlocks = 3
    MaxFrames = 2
    MaxIndex = 2
SYMMETRY Symmetry
INVARIANTS
    TypeOK DataKept KeptNoLonger Counted
CHECK_DEADLOCK FALSE
