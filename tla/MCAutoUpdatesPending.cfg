\* One server, one GET suspended while Steam is asked.
SPECIFICATION Spec
CONSTANTS
  s1 = s1
  s2 = s2
  h1 = h1
  h2 = h2
  Registry <- OneServer
  Handlers <- OneHandler
  Cooldown = 2
  MaxBuild = 2
  MaxQueue = 1
  MaxTime = 0
  MaxFaults = 0
PROPERTY
  NeverOnTop
