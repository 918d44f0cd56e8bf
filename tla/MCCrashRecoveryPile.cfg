\* Two servers and two handlers: the second server is looked at after the alert
\* on the first, and meanwhile by the handler of the next cycle.
SPECIFICATION Spec
CONSTANTS
  s1 = s1
  s2 = s2
  h1 = h1
  h2 = h2
  Registry <- TwoServers
  Window = 60
  MaxAttempts = 2
  ConfirmPolls = 2
  Buttons <- Neither
  Toggled <- Neither
  Tracked <- Neither
  Handlers <- TwoHandlers
  MaxQueue = 0
  MaxTime = 0
  MaxFaults = 1
INVARIANT
  NoPileUp
