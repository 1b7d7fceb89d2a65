\* A store, file or launcher call fails, or a host goes, at every point.
CONSTANTS
  Hosts = {h1, h2}
  Containers = {c1}
  Launches = {l1, l2}
  None = None
  PromptMarkers = FALSE
  KillOnExit = TRUE
  AutomationInputs = {FALSE}
  FaultKinds = {"lock", "write", "sync", "remove", "launcher", "exit"}
  MaxFaults = 1
SPECIFICATION Spec
SYMMETRY Symmetry
INVARIANTS TypeOK NoUntrackedBrowser PendingMeansStopped
