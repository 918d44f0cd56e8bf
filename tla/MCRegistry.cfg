\* A server the agent had before, a server of the wizard.
SPECIFICATION Spec
CONSTANTS
  old = old
  new = new
  e1 = e1
  e2 = e2
  a1 = a1
  Names = {old, new}
  Seeded = {old}
  Exes = {e1, e2}
  Args = {a1}
  MaxOrders = 3
  MaxEdits = 2
  MaxFaults = 1
INVARIANTS
  AdminHasLastWord
  ActiveRunsItsExe
PROPERTIES
  ActiveStaysActive
  ConfigConverges
CHECK_DEADLOCK FALSE
