SPECIFICATION EodFairSpec
CONSTANTS
  s1 = s1
  s2 = s2
  SectorOrder <- MCOrder
  Unverified = {s2}
  CoverageStart = 1
  CoverageEnd = 3
  Weekends = {}
  Holidays = {2}
  ClosedOverrides = {}
  OpenOverrides = {}
  Instants <- MCInstants
  NewYear = 9
  MaxAttempts = 2
  Imports <- MCImports
  WritesMayFail = TRUE
  MaxRestarts = 1
INVARIANT BudgetHolds
PROPERTY StoreImplemented
PROPERTY AutomaticIsFinal
PROPERTY PendingIsRetried
CHECK_DEADLOCK FALSE
