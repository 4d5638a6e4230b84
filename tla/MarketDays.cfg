SPECIFICATION MarketDaysSpec
CONSTANTS
  sh = sh
  a = a
  b = b
  Anchor = sh
  Proxies = {a, b}
  BatchSize = 1
  low = low
  high = high
  none = none
  p = p
  q = q
  NoJob = nojob
  nojob = nojob
  Closes = {low, high}
  NoClose = none
  Jobs = {p, q}
  MinimumBars = 2
  WritesMayFail = TRUE
  Missed = {"reconcile"}
  MaxBackfills = 1
  CoverageStart = 1
  CoverageEnd = 4
  Weekends = {}
  Holidays = {2}
  ClosedOverrides = {}
  OpenOverrides = {}
  Instants <- MCInstants
  ReportDays = {1, 2, 3}
  ActiveFrom = 2
  Views = {"turn_hold", "turn_weak", "not_mentioned"}
  Lines = {"hold"}
  Printed = {"turn_hold"}
  WindowDays = 2
  MinOverlays = 2
  MaxChanges = 3
SYMMETRY Symmetry
INVARIANT SuccessIsCovered
INVARIANT CompletedDaysOnly
INVARIANT PagesAgree
PROPERTY CloseStays
PROPERTY SessionNotRewritten
CHECK_DEADLOCK FALSE
