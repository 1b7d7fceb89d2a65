\* Two hosts compete for one container; a launch stalls or fails, a browser
\* crashes, or a host goes and its browser outlives it.
CONSTANTS
  Hosts = {h1, h2}
  Containers = {c1}
  Launches = {l1, l2}
  None = None
  PromptMarkers = TRUE
  KillOnExit = FALSE
  AutomationInputs = {FALSE}
  FaultKinds = {"stall", "launcher", "exit", "crash"}
  MaxFaults = 1
SPECIFICATION Spec
SYMMETRY Symmetry
PROPERTIES ReservationIsExclusive RunningWhileBrowserLives ProfileRemovedUnused ImplementsContract
