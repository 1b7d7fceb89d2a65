\* Chromium marks its profile some time after it starts.
CONSTANTS
  Hosts = {h1, h2}
  Containers = {c1}
  Launches = {l1, l2}
  None = None
  PromptMarkers = FALSE
  KillOnExit = FALSE
  AutomationInputs = {FALSE}
  FaultKinds = {}
  MaxFaults = 1
SPECIFICATION Spec
PROPERTY NoDuplicateLaunch
