------------------------------ MODULE MCRunPlates ------------------------------
\* Instances of RunPlates for TLC.
EXTENDS RunPlates, TLC

CONSTANTS q1, q2, w1, w2

Symmetry == Permutations(PlateWorkers) \cup Permutations(Plates)
=============================================================================
