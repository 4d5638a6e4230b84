SPECIFICATION FairSpec
CONSTANTS
  d1 = d1
  d2 = d2
  Dates <- MCDates
  NoDate = NoDate
  Reports = {a}
  NoReport = NoReport
  Handlers = {h1}
  NoHandler = NoHandler
  Ops = {"upload", "upload_md", "parse", "patch", "ready", "publish", "withdraw", "view", "resolve", "term", "reconcile"}
  ParseOutcomes <- Findings
  Hints <- NoHint
  AutoPublish = TRUE
  CommitMayFail = TRUE
  MaxCrashes = 1
INVARIANT KnownStatus
 
PROPERTY PublishedOnlyWithdrawn
PROPERTY InterruptedRecovers
