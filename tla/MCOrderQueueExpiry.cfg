\* Two starts, one fault, and a clock that reaches expiry and purge, or stops.
SPECIFICATION FairSpec
CONSTANTS
  s1 = s1
  Servers <- MCServers
  Types <- OnlyStart
  Ids409 <- MCIds409
  Switched <- NoServer
  StaleHours = 1
  RetentionHours = 2
  MaxOrders = 2
  MaxHour = 3
  MaxFaults = 1
INVARIANTS
  ExpiryNeverSilent
PROPERTIES
  ImplementsLifecycle
  ActiveOrdersClose
  ExpiriesAlerted
