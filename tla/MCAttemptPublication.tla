------------------------ MODULE MCAttemptPublication ------------------------
EXTENDS AttemptPublication, TLC
Symmetry == Permutations(Workers)
=============================================================================
