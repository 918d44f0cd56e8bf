\* One server, two GETs in flight, two builds, a clock past the cooldown.
SPECIFICATION Spec
SYMMETRY Symmetry
CONSTANTS
  s1 = s1
  s2 = s2
  h1 = h1
  h2 = h2
  Registry <- OneServer
  Handlers <- TwoHandlers
  Cooldown = 2
  MaxBuild = 2
  MaxQueue = 2
  MaxTime = 4
  MaxFaults = 1
INVARIANTS
  TypeOK
  CooldownHeld
  OneAutoUpdate
PROPERTY
  NeverWithPlayers
