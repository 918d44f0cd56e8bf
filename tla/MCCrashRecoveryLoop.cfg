\* One server in a crash loop, with the settings of the code.
SPECIFICATION Spec
CONSTANTS
  s1 = s1
  s2 = s2
  h1 = h1
  h2 = h2
  Registry <- OneServer
  Window = 60
  MaxAttempts = 3
  ConfirmPolls = 2
  Buttons <- Neither
  Toggled <- Neither
  Tracked <- First
  Handlers <- OneHandler
  MaxQueue = 0
  MaxTime = 0
  MaxFaults = 0
INVARIANT
  CrashLoopStops
