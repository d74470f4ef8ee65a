SPECIFICATION FairSpec
CONSTANTS
  Clients = {c1, c2}
  Launchers = {c1}
  Controller = controller
  None = none
  Strangers = FALSE
  MaxFaults = 0
CHECK_DEADLOCK FALSE
PROPERTY FailureStopsRun StopKills
