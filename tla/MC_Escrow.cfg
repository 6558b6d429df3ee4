INIT MCInit
NEXT MCNext
CONSTANTS
  disk = disk
  clone = clone
  team = team
  Files = {disk, clone}
  NoFile = NoFile
  Keys = {team}
  NoBudget = NoBudget
  MaxInt = 5
  MaxSeq = 100
  Definitions <- MCDefinitions
  LastWindow = 1
  Bounds = {1, 2}
  Outcomes <- MCOutcomes
  MaxBoots = 2
  MaxMinted = 2
  MaxPermits = 2
  MaxLate = 1
  MaxBackups = 1
INVARIANTS
  CallsBacked
  NeverStuck

PROPERTIES
  ForgetsOnlySettled
  ImplementsPrepaid
