\* Failures and the loss of a host: which of them leave a profile behind.
CONSTANTS
  Hosts = {h1, h2}
  Containers = {c1}
  Launches = {l1}
  None = None
  PromptMarkers = FALSE
  KillOnExit = FALSE
  AutomationInputs = {FALSE, TRUE}
  FaultKinds = {"lock", "write", "sync", "remove", "launcher", "exit", "crash"}
  MaxFaults = 2
SPECIFICATION Spec
SYMMETRY Symmetry
PROPERTIES NoLeakedProfile
