\* The page, the worker, and two host processes one after the other.
CONSTANTS
  MaxPorts = 2
  MaxRefreshes = 2
  Commands = {c1}
  None = None
  MaxVersion = 1
CHECK_DEADLOCK FALSE
SPECIFICATION FairSpec
INVARIANTS TypeOK PendingOnTheOpenPort
PROPERTIES NeverShowsOlder RefreshEnds
