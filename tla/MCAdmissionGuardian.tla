------------------------ MODULE MCAdmissionGuardian ------------------------
EXTENDS AdmissionGuardian, TLC

Symmetry == Permutations(Clients)
=============================================================================
