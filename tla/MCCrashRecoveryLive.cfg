\* One server, two handlers, two attempts in a window of one tick, two ticks, one
\* fault.
SPECIFICATION FairSpec
CONSTANTS
  s1 = s1
  s2 = s2
  h1 = h1
  h2 = h2
  Registry <- OneServer
  Window = 1
  MaxAttempts = 2
  ConfirmPolls = 2
  Buttons <- StopOnly
  Toggled <- First
  Tracked <- Neither
  Handlers <- TwoHandlers
  MaxQueue = 1
  MaxTime = 2
  MaxFaults = 1
INVARIANT
  AutoStartsBounded
PROPERTY
  CrashesHandled
