SPECIFICATION Spec
CONSTANTS
    ua = ua
    ub = ub
    Upstreams = {ua}
    BufSize = 2
    Confs <- AbortConfs
INVARIANTS
    NoOpenHeaderSent
