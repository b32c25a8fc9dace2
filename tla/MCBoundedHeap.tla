--------------------------- MODULE MCBoundedHeap ---------------------------
EXTENDS BoundedHeap, TLC

MCSymmetry == Permutations(Tags) \cup Permutations(Nodes)
=============================================================================
