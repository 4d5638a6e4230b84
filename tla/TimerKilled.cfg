SPECIFICATION Spec
CONSTANTS
  Main = main
  Threads = {main, t1}
  Nobody = Nobody
  Loops = {l1, l2}
  NoLoop = NoLoop
  WritesMayFail = TRUE
  MaxSessions = 2
  MaxRestarts = 0
PROPERTY OnlyPauseEndsLoop
CHECK_DEADLOCK FALSE
