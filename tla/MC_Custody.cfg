INIT MCInit
NEXT MCNext
CONSTANTS
  a1 = a1
  a2 = a2
  a3 = a3
  Processes = {a1, a2}
  Mints = 1
  Hashes = {"h1", "h2"}
  TeamNames = {"t1", "t2"}
  Entitlement = {"t1"}
  Declarations <- MCDeclarations
  SeedFiles <- MCSeedFiles
  SourceStores <- MCSources
  LegacyOwner <- MCOwner
  TeamEdits = 1
  Calls = {a1, a2}
  BodySizes = {0, 1, 3}
  RequestLimit = 2
  InflightLimit = 3
  Flips = 1
  Bearers = {a1, a2, a3}
  KeyIds = {1, 2}
  MissWindow = 2
  LastInstant = 3
  Records = 3
  QueueCapacity = 2
  IndexCapacity = 1
  Runs = 2
  StorageFaults = 2
  Uses = 3
  BufferCap = 1
  EntryBound = 2
  Instants = 2
  Retention = 0
  WireFaults = 2
  Editors = {a1, a2}
  ConsoleCeilings <- MCCeilings
  ConsoleLimits <- MCLimits
  RuleSets <- MCRules
  ContentRules = FALSE
  HandEdits = 1
  ConsoleCrashes = 1
  ConsoleFaults = 1
  Refs = {1, 2, 3}
  BodyQueueCap = 1
  SizeOfBody <- MCSizes
  MaxBodyBytes = 2
  StoreBytes = 1
  Ttl = 1
  LastTick = 1
  MasterKeys = {1, 2, 3}
  Rotations = {"x1", "x2"}
  RotationOf <- MCRotations
  StoreFaults = 1
INVARIANTS
  
  FetchesAreOne
  
  

PROPERTIES
  KeysHold
  
  BodiesHold


CHECK_DEADLOCK FALSE
SYMMETRY Swapped
