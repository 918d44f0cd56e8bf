\* Two orders, two faults, the server switched off and on, no clock.
SPECIFICATION Spec
CONSTANTS
  s1 = s1
  Servers <- MCServers
  Types <- StartStop
  Ids409 <- MCIds409
  Switched <- MCServers
  StaleHours = 1
  RetentionHours = 2
  MaxOrders = 2
  MaxHour = 0
  MaxFaults = 2
INVARIANTS
  TypeOK
  StartedNeverCancelled
  ReplaysNeedFaults
  InOrderPerServer
  DesiredIsEffect
