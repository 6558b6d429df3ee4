CONSTANTS
    Replicas = {r1, r2}  DocNames = {n1}  Bodies = {b1, b2}  MaxOps = 4
    r1 = r1  r2 = r2  n1 = n1  b1 = b1  b2 = b2
    Servers = {s1, s2}  PolicyNames = {p1}
    Kinds = {mandatory, unknown, lenient}
    mandatory = mandatory  unknown = unknown  lenient = lenient  t1 = t1  t2 = t2
    Strict = {mandatory, unknown}  Unenforceable = {unknown, lenient}
    Deployments = {"legacy", "identity", "authority"}  MaxPublications = 4
    Files = {f1, f2}  Watchers = {"data"}  MaxEdits = 3
    Dataplanes = {d1, d2}  Limits = {1, 2}  Slice = 1  Renew = 1  PruneAfter = 4
    TierCounts = {1, 2}  MaxTicks = 5  MaxEvents = 1
    NoRef = NoRef  MaxSaves = 2  MaxWrites = 3  MaxCrashes = 2
    MaxInt = 31  MicroPerMilli = 4  GrantBP = 3  BPUnit = 5  MaxOffers = 3
CONSTANTS
    Refusals <- MCRefusals
    SeedFiles <- MCSeedFiles
    Governs <- MCGoverns
    WireDocs <- MCWireDocs
    Contents <- MCContents
    SecretStates <- MCSecretStates
    ProviderPuts <- MCProviderPuts
    ModelPuts <- MCModelPuts
INIT MCInit
NEXT MCNext
SYMMETRY Symmetry
INVARIANTS
  StoredAsWritten
  DataEditsSeen
  
  TopologyHolds

PROPERTIES
  PoliciesEnforced
  


CHECK_DEADLOCK FALSE
