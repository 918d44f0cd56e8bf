\* The pack itself and a plugin, one check at a time.
SPECIFICATION Spec
CONSTANTS
  m1 = m1
  m2 = m2
  c1 = c1
  ModList <- TwoMods
  Root = {m1}
  Layout <- FileThenFolder
  Callers = {c1}
  MaxOrders = 2
  MaxFaults = 1
INVARIANTS
  BooksMatchDisk
  LoadedOnce
PROPERTY
  LatestNeverBack
