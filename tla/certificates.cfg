\* Two hosts import one certificate under two identifiers, trust it, delete it, and recover.
CONSTANTS
  Hosts = {h1, h2}
  Certificates = {c1, c2}
  Fingerprints = {f1}
  Operations = {o1, o2}
  None = None
  MaxStarting = 1
  FaultKinds = {"lock", "write", "sync", "rename", "remove", "trust", "reference", "crash"}
  MaxFaults = 1
SPECIFICATION Spec
SYMMETRY Symmetry
CHECK_DEADLOCK FALSE
INVARIANTS TypeOK BytesKept StagedIsTracked UniqueFingerprint OwnedTrustRemembered TrustedIsInstalled
PROPERTY ForeignTrustKept
