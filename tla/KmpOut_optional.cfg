SPECIFICATION Spec
CONSTANTS
    ua = ua
    ub = ub
    Upstreams = {ua, ub}
    BufSize = 2
    Confs <- OptionalConfs
INVARIANTS
    OptionalIgnored
