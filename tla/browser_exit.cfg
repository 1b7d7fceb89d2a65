\* The exit of a browser reaches the metadata.
CONSTANTS
  Hosts = {h1, h2}
  Containers = {c1}
  Launches = {l1}
  None = None
  PromptMarkers = FALSE
  KillOnExit = FALSE
  AutomationInputs = {FALSE}
  FaultKinds = {"crash"}
  MaxFaults = 1
SPECIFICATION FairSpec
PROPERTIES ExitIsRecorded TemporaryIsRemoved
