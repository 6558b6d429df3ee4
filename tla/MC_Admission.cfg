INIT MCInit
NEXT MCNext
CONSTANTS
  a1 = a1
  a2 = a2
  minuteRate = minuteRate
  dollars = dollars
  SharedAttempts = {a1, a2}
  Order <- MCOrder
  Kind <- MCKind
  Budgets = {dollars}
  Definitions <- MCDefinitions
  NoLimit = NoLimit
  Rate <- MCRate
  ContextWindow = 1
  Reports <- MCReports
  Scale = 2
  Period = 3
  LastInstant = 3
  KeyExpiry = 3
  MaxEdits = 1
  NoTx = NoTx
  NoClaim = NoClaim
  PerMTok = 3
  MaxInt64 = 11
  NoCount = NoCount
  NoRate = NoRate
  LimiterCap = 2
  BudgetCap = 2
  MinuteTicks = 2
  DayTicks = 2
  MonthTicks = 2
  MaxAmount = 7
  Requests <- MC_Requests
  Team = "team"
  KeyOf <- MC_KeyOf
  UserOf <- MC_UserOf
  Limits <- MC_Limits
  WarnLimits <- MC_Warn
  Edits <- MC_Edits
  Estimate = 1
  Bound = 2
  Answers <- MC_Answers
  Attempts <- MC_Attempts
  MoneyCap = 3
  LeaseBlocks = {FALSE, TRUE}
  AuthorityModes = {FALSE, TRUE}
  MaxNow = 2
  Settlements = {s1, s2}
  Costs = {3, 5}
  Thresholds <- MCThresholds
  RecentCap = 1
  LastWindow = 1
INVARIANTS
  NoWaitCycle
  SharedLimitsHold
  
  CountersHold
  AlertsHold

PROPERTIES
  AdmittedSoundly


CHECK_DEADLOCK FALSE
SYMMETRY Swapped
