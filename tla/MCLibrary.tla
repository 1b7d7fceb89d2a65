------------------------------ MODULE MCLibrary ------------------------------
(* Library on small sets of containers, templates, proxies, certificates. *)
EXTENDS Library, TLC

\* Identifiers are only compared.
Symmetry == Permutations(Proxies)
=============================================================================
