SPECIFICATION Spec
CONSTANTS
  d1 = d1
  d2 = d2
  Dates <- MCDates
  NoDate = NoDate
  Reports = {a}
  NoReport = NoReport
  Handlers = {h1}
  NoHandler = NoHandler
  Ops = {"upload", "publish", "ready", "resolve"}
  ParseOutcomes <- Findings
  Hints <- NoHint
  AutoPublish = FALSE
  CommitMayFail = FALSE
  MaxCrashes = 0
SYMMETRY Symmetry
INVARIANT RequiredIssueBlocks
