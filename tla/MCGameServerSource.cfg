\* A restore of the oldest zip when backup_keep zips are there.
SPECIFICATION Spec
CHECK_DEADLOCK FALSE
CONSTANTS
  Adapters <- Force
  Keep = 2
  MaxOrders = 4
  MaxPlay = 1
  MaxFaults = 0
INVARIANT
  SourceKept
