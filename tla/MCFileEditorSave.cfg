\* An admin opens a file, sees it, and saves.
SPECIFICATION Spec
CONSTANTS
  ini = ini
  ann = ann
  bob = bob
  Paths = {ini}
  Clients = {ann, bob}
  Ttl = 1
  PurgeEvery = 2
  MaxContents = 3
  MaxOrders = 3
  MaxFaults = 1
  MaxTime = 2
SYMMETRY Names
INVARIANT
  SaveAfterRead
