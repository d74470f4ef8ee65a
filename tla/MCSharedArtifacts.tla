-------------------------- MODULE MCSharedArtifacts --------------------------
(* Two processes work for up to three attempts that make the same request. *)
EXTENDS SharedArtifacts, TLC

Symmetry == Permutations(Procs) \cup Permutations(Values)
=============================================================================
