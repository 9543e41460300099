--------------------------- MODULE MCDesktopExit ---------------------------
EXTENDS DesktopExit, TLC
Symmetry == Permutations(Tasks) \cup Permutations(Calls)
============================================================================
