----------------------------- MODULE MCBufQueue -----------------------------
EXTENDS BufQueue, TLC

CONSTANTS n1, n2, n3, n4, r1, r2

NodeSet == {n1, n2, n3, n4}
ReaderSet == {r1, r2}

Symmetry == Permutations(NodeSet) \cup Permutations(ReaderSet)
=============================================================================
