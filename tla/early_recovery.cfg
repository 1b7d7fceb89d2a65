\* A host starts while another is installing trust.
CONSTANTS
  Hosts = {h1, h2}
  Certificates = {c1}
  Fingerprints = {f1}
  Operations = {o1, o2}
  None = None
  MaxStarting = 1
  FaultKinds = {}
  MaxFaults = 0
SPECIFICATION Spec
CHECK_DEADLOCK FALSE
PROPERTY OwnedTrustBlocksDeletion
