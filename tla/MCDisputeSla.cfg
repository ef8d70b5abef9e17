\* The scale of days is 3, 5, 7, 14 in the code; their order is kept.
CONSTANTS
  Clients = {c1}
  NotifyAfter = 1
  ForceAfter = 2
  DeadlineAfter = 3
  CeilingAfter = 4
  MaxAttempts = 2
  MaxStalled = 0
  MaxDisputes = 2
  MaxEvents = 5
  LastDay = 1
  MaxFailures = 1
  MaxLosses = 1
SPECIFICATION FairSpec
CHECK_DEADLOCK FALSE
INVARIANTS
  ExecutedForceCloses
  PendingHasJob
PROPERTIES
  RestartSettles
  NotForcedBeforeFirst
