INIT InitAudit
NEXT NextAudit
CONSTANTS
  Records = 2
  QueueCapacity = 1
  IndexCapacity = 1
  Runs = 1
  StorageFaults = 1
INVARIANT
  AnchorsLagOnly
CHECK_DEADLOCK FALSE
