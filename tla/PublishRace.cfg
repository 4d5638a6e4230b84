SPECIFICATION Spec
CONSTANTS
  d1 = d1
  d2 = d2
  Dates <- MCDates
  NoDate = NoDate
  Reports = {a, b}
  NoReport = NoReport
  Handlers = {h1, h2}
  NoHandler = NoHandler
  Ops = {"upload", "publish", "withdraw"}
  ParseOutcomes <- Clean
  Hints <- OtherHint
  AutoPublish = TRUE
  CommitMayFail = FALSE
  MaxCrashes = 0
PROPERTY OnceWhileTwo
PROPERTY LibraryImplemented
PROPERTY AutoNeverReplaces
PROPERTY PdfWhileApart
PROPERTY RecordWhileApart
