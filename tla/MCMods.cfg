\* One mod, two requests in flight.
SPECIFICATION Spec
SYMMETRY Symmetry
CONSTANTS
  w1 = w1
  c1 = c1
  c2 = c2
  Wids = {w1}
  Callers = {c1, c2}
  MaxTime = 2
  MaxOrders = 3
  MaxFaults = 1
INVARIANTS
  OneInstallPerMod
  NoMissedUpdate
  BatchApplied
PROPERTY
  AutoInstallsProven
CHECK_DEADLOCK FALSE
