--------------------------- MODULE MCCertificates ---------------------------
(* Certificates on small sets of hosts, certificates and operations. *)
EXTENDS Certificates, TLC

\* Identifiers are only compared.
Symmetry == Permutations(Hosts) \cup Permutations(Certificates)
              \cup Permutations(Operations)
=============================================================================
