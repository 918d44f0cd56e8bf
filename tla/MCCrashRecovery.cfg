\* Two servers, two handlers, one attempt in a window of one tick, one fault: the
\* second server is looked at after the alert on the first, and meanwhile by the
\* handler of the next cycle.
SPECIFICATION Spec
SYMMETRY HandlerSymmetry
CONSTANTS
  s1 = s1
  s2 = s2
  h1 = h1
  h2 = h2
  Registry <- TwoServers
  Window = 1
  MaxAttempts = 1
  ConfirmPolls = 1
  Buttons <- StopOnly
  Toggled <- Neither
  Tracked <- Neither
  Handlers <- TwoHandlers
  MaxQueue = 1
  MaxTime = 1
  MaxFaults = 1
INVARIANTS
  TypeOK
  OneAlertPerEpisode
  PileUpBounded
PROPERTY
  FirstStopRespected
