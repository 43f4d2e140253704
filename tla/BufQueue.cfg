SPECIFICATION Spec
CONSTANTS
    n1 = n1
    n2 = n2
    n3 = n3
    n4 = n4
    r1 = r1
    r2 = r2
    Nodes <- NodeSet
    Readers <- ReaderSet
    MemLimit = 4
    MaxFree = 1
    MaxBlocks = 6
SYMMETRY Symmetry
INVARIANTS
    TypeOK Accounted NoAlias StreamsInside ReadsOwnBlock
PROPERTIES
    WindowSpec
