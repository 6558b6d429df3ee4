INIT MCInit
NEXT MCNext
CONSTANTS
  d1 = d1
  d2 = d2
  b1 = b1
  b2 = b2
  budget1 = budget1
  Dataplanes = {d1, d2}
  Boots = {b1, b2}
  Keys = {budget1}
  Windows = {0, 1}
  NoBudget = NoBudget
  NoRow = NoRow
  NoTx = NoTx
  MaxInt = 2
  MaxSeq = 2
  Ladder = {50, 100}
  Definitions <- MCMixed
  Requests <- MCRequests
  MeterIds <- MCMeterIds
INVARIANTS
  BooksBalance
  TypeOK

PROPERTIES
  GrantsAreFinal
  IssueWithinLimit
  LatchesHold


SYMMETRY Swapped
