SPECIFICATION Spec
CONSTANTS
    ua = ua
    ub = ub
    Upstreams = {ua, ub}
    BufSize = 2
    Confs <- TiedConfs
INVARIANTS
    ReaderRetained
