INIT ProvidersInit
NEXT MCNext
CONSTANTS
  disk = disk
  team = team
  primary = primary
  secondary = secondary
  Files = {disk}
  NoFile = NoFile
  Keys = {team}
  NoBudget = NoBudget
  MaxInt = 100
  MaxSeq = 100
  Definitions <- MCRemoved
  LastWindow = 0
  Bounds = {1}
  Outcomes <- MCRefunds
  MaxBoots = 2
  MaxMinted = 1
  MaxPermits = 1
  MaxLate = 0
  MaxBackups = 0
  Route <- MCRoute
  Callers = {r1, r2}
  Threshold = 2
  BaseBackoff = 1
  MaxBackoff = 3
  Items <- MCItems
  SignalOf <- MCSignals
  SizeOf <- MCSizes
  Ceiling <- MCCeiling
  PipelineLimits <- MCLimits
  QueueBytes = 4
  QueueItems = 1
  BatchItems = 2
  BatchBytes = 3
  Retries = 1
  LimitEdits = 1
INVARIANT
  OneTrial
CHECK_DEADLOCK FALSE
