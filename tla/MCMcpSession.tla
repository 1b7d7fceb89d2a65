----------------------------- MODULE MCMcpSession -----------------------------
(* McpSession on small sets of callers, containers, tabs and references. *)
EXTENDS McpSession, TLC

\* All of these are only compared.
Symmetry == Permutations(Callers) \cup Permutations(Containers)
            \cup Permutations(Targets) \cup Permutations(Refs)
=============================================================================
