------------------------ MODULE MCContainerLifecycle ------------------------
(* ContainerLifecycle on small sets of hosts, containers and launches. *)
EXTENDS ContainerLifecycle, TLC

\* Identifiers are only compared.
Symmetry == Permutations(Hosts) \cup Permutations(Containers)
              \cup Permutations(Launches)
=============================================================================
