\* A launch without automation follows one with it.
CONSTANTS
  Hosts = {h1}
  Containers = {c1}
  Launches = {l1, l2}
  None = None
  PromptMarkers = TRUE
  KillOnExit = FALSE
  AutomationInputs = {FALSE, TRUE}
  FaultKinds = {}
  MaxFaults = 1
SPECIFICATION Spec
INVARIANT EndpointClearedOnExit
