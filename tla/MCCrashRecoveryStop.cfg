\* Two servers: the second is looked at after the alert on the first.
SPECIFICATION Spec
CONSTANTS
  s1 = s1
  s2 = s2
  h1 = h1
  h2 = h2
  Registry <- TwoServers
  Window = 60
  MaxAttempts = 1
  ConfirmPolls = 2
  Buttons <- StopOnly
  Toggled <- Neither
  Tracked <- Neither
  Handlers <- OneHandler
  MaxQueue = 1
  MaxTime = 0
  MaxFaults = 0
PROPERTY
  StopRespected
