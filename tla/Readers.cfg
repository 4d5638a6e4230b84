SPECIFICATION ReadersSpec
CONSTANTS
  enhanced = enhanced
  reports = reports
  Keys <- MCKeys
  NoKey = NoKey
  Ttl <- MCTtl
  Tasks = {t1, t2}
  MaxVersion = 2
  MaxGeneration = 2
  r1 = r1
  r2 = r2
  r3 = r3
  coal = coal
  part = part
  Reports = {r1, r2, r3}
  NoReport = NoReport
  Objects = {coal, part}
  BaseKeys = {coal}
  ReportDate <- MCReportDate
  Created <- MCCreated
  ActiveOn <- MCActive
  PathDays <- MCPathDays
  MarketDays = {20261230, 20270104}
  LateBars <- MCLateBars
  Editions <- MCEditions
  Bindings <- MCBind
  Volatile = {r2}
  index = index
  Feeds = {index}
  Symbols = {s1}
  TtlUseful <- MCUseful
  TtlUseless <- MCUseless
  MaxAge = 900
  Ahead = 30
  TradingDays = {1}
  Instants <- MCInstants
  Visits = {q1, q2}
  NoFeed = NoFeed
  NoVisit = NoVisit
  a = a
  b = b
  c = c
  d = d
  p = p
  NoTopic = NoTopic
  Topics <- MCTopics
  Splits <- MCSplits
  Continues <- MCContinues
  Resembles <- MCResembles
  Retired = {p}
  LateTopics = {b}
  CountedSplits = {c}
  MinColumns = 5
  WrapMax = 2
  FullShape <- MCFullShape
  Windows <- MCWindows
  ReportOrder <- MCOrder
  Calendar <- MCCalendar
  SplitUps <- MCSplitUps
  ManyColumns = 5
  EnoughRows = 2
  NoPaper = NoPaper
  Papers <- MCPapers
INVARIANT AckedIsVisible
INVARIANT CacheNotStale
INVARIANT LedgerIsCanonical
INVARIANT StatusesArePrinted
INVARIANT UnattendedIsCertain
INVARIANT QuotesAdvance
INVARIANT HonestQuotes
PROPERTY OutdatedExpires
PROPERTY ExactDay
PROPERTY SourceKeepsStatus
CHECK_DEADLOCK FALSE
