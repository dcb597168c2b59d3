--------------------------- MODULE MCPlayerProcess ---------------------------
EXTENDS PlayerProcess, TLC

Symmetry == Permutations(Baselines) \cup Permutations(Pids)
=============================================================================
