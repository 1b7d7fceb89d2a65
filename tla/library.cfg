\* Every handler of the library, against one container and its launches.
CONSTANTS
  Containers = {k1}
  Templates = {t1}
  Proxies = {p1, p2}
  Certificates = {c1}
  None = None
SPECIFICATION Spec
SYMMETRY Symmetry
INVARIANTS TypeOK NoBrokenReferences ConfigurationsResolve NeverSilentlyDirect
