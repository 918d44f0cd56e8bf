\* The two adapters whose behaviours contain those of the others, two zips
\* kept.  The orders are bounded, so the system may stop.
SPECIFICATION FairSpec
CHECK_DEADLOCK FALSE
CONSTANTS
  Adapters <- RconAdapters
  Keep = 2
  MaxOrders = 4
  MaxPlay = 2
  MaxFaults = 1
INVARIANTS
  TypeOK
  BackupHoldsSaves
  SafetyCopy
  DoneMeansDone
PROPERTY
  OrdersGetDone
