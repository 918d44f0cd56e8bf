\* Stop-GameServer with the graceful adapter, and a game that takes more than
\* 120 s to end.
SPECIFICATION Spec
CHECK_DEADLOCK FALSE
CONSTANTS
  Adapters <- Graceful
  Keep = 2
  MaxOrders = 2
  MaxPlay = 1
  MaxFaults = 0
INVARIANT
  EndAwaited
