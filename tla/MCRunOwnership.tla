---------------------------- MODULE MCRunOwnership ----------------------------
EXTENDS RunOwnership, TLC

Symmetry == Permutations(Process)
===============================================================================
