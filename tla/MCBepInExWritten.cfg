\* By hand: the books follow paths that were listed and not written (violated).
SPECIFICATION Spec
CONSTANTS
  m1 = m1
  m2 = m2
  c1 = c1
  ModList <- TwoMods
  Root = {m1}
  Layout <- FileThenFolder
  Callers = {c1}
  MaxOrders = 1
  MaxFaults = 1
PROPERTY
  WrittenIsThere
