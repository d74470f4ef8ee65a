--------------------------- MODULE MCJobBudget ---------------------------
(* JobBudget with interchangeable owners, for model checking. *)
EXTENDS JobBudget, TLC

Symmetry == Permutations(Owners)
=============================================================================
