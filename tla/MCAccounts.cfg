\* Two names, two sessions, four changes of the accounts.
SPECIFICATION AccountsSpec
CONSTANTS
  ann = ann
  bob = bob
  Users = {ann, bob}
  Ttl = 3
  Throttle = 2
  PurgeEvery = 2
  MaxAttempts = 1
  MaxSessions = 2
  MaxChanges = 4
  MaxTime = 4
SYMMETRY Names
INVARIANTS
  AdminRemains
  SessionsCurrent
  SlidingExpiry
