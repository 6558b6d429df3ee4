INIT MCInit
NEXT MCNext
CONSTANTS
  s1 = s1
  s2 = s2
  q1 = q1
  q2 = q2
  q3 = q3
  t1 = t1
  t2 = t2
  p1 = p1
  p2 = p2
  run1 = run1
  run2 = run2
  Ingresses = {"messages", "chat", "invoke", "converse", "responses"}
  Chains <- MCChains
  StreamLen = 3
  RouteModels <- MCModels
  Asked = "a"
  FallbackFor <- MCFallback
  Topologies <- MCTopologies
  PrivacyRules <- MCPrivacy
  ContextRules <- MCContext
  StrictTargets = {{}, {"b"}, {"b", "c"}}
  Sessions = {s1, s2}
  AffinityRequests = {q1, q2, q3}
  AffinityTargets = {t1, t2}
  Digests = {p1, p2}
  SessionTTL = 2
  MinHold = 1
  MinRequests = 2
  MaxEntries = 1
  LastTick = 2
  Classifiers <- MCClassifiers
  Enforcing = {"c1"}
  Prompts = {{}, {"w1"}, {"w1", "w2"}}
  PolicyRefs = {"g1"}
  CacheMax = 1
  CacheTTL = 1
  RunTimeout = 1
  LastTime = 3
  Runs = {run1, run2}
  Sensitivities <- MCSensitivities
  ChatLines <- MCChatLines
  NativeEvents <- MCNativeEvents
  CanonChunks <- MCCanonChunks
  LineCap <- MCLineCap
INVARIANTS
  EgressIsMasked
  
  MoneyFollowsTheCall
  RoutesHold
  VerdictsHold
  StreamsHold

PROPERTIES
  SessionsHold


CHECK_DEADLOCK FALSE
SYMMETRY Swapped
