SPECIFICATION Spec
CONSTANTS
  Main = main
  Threads = {main, t1}
  Nobody = Nobody
  Loops = {l1, l2}
  NoLoop = NoLoop
  WritesMayFail = FALSE
  MaxSessions = 2
  MaxRestarts = 0
INVARIANT OneLoop
CHECK_DEADLOCK FALSE
