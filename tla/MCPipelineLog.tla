---------------------------- MODULE MCPipelineLog ----------------------------
(* Two writers, readers that poll, read whole files and are interrupted.   *)
EXTENDS PipelineLog

Symmetry == Permutations(Writers)
=============================================================================
