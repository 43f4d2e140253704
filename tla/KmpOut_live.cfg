SPECIFICATION FairSpec
CONSTANTS
    ua = ua
    ub = ub
    Upstreams = {ua}
    BufSize = 2
    Confs <- LiveConfs
PROPERTIES
    Delivered DetachedFreed
