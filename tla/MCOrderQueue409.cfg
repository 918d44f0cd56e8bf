\* The id of order 2 contains 409.
SPECIFICATION Spec
CONSTANTS
  s1 = s1
  Servers <- MCServers
  Types <- StartStop
  Ids409 <- MCIds409
  Switched <- NoServer
  StaleHours = 1
  RetentionHours = 2
  MaxOrders = 2
  MaxHour = 0
  MaxFaults = 1
PROPERTY
  DroppedOnlyIfClosed
