SPECIFICATION Spec
CONSTANTS
    ua = ua
    ub = ub
    Upstreams = {ua, ub}
    BufSize = 2
    Confs <- SafeConfs
INVARIANTS
    TypeOK ReaderRetained  BufferOwned
    HeaderHeld StreamAligned  OnlyConfirmedForgotten EosIsLast
PROPERTIES
     ResumeForward MemoryLastResort
