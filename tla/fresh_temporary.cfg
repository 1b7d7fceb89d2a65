\* A startup cleanup meets a new temporary container.
CONSTANTS
  Hosts = {h1, h2}
  Containers = {c1}
  Launches = {l1}
  None = None
  PromptMarkers = TRUE
  KillOnExit = FALSE
  AutomationInputs = {FALSE}
  FaultKinds = {}
  MaxFaults = 1
SPECIFICATION Spec
PROPERTY TemporaryKeptUntilExit
