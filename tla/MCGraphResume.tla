---------------------------- MODULE MCGraphResume ----------------------------
(* Three jobs: 1 and 2 in a row, 3 after both, so that the last job        *)
(* receives the handoff of 1 directly and through 2.                       *)
EXTENDS GraphResume, TLC

MCDeps == <<{}, {1}, {1, 2}>>
MCPairDeps == <<{}, {1}>>
MCGateDeps == <<{}, {1}, {2}, {1, 2, 3}>>
Symmetry == Permutations(Graphs) \cup Permutations(Dispatches)
=============================================================================
