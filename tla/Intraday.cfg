SPECIFICATION FairSpec
CONSTANTS
  Main = main
  Threads = {main, t1}
  Nobody = Nobody
  Loops = {l1, l2}
  NoLoop = NoLoop
  WritesMayFail = FALSE
  MaxSessions = 2
  MaxRestarts = 1
INVARIANT OneCycle
INVARIANT PauseHolds
INVARIANT OneRunningSession
INVARIANT EnabledHasLoop
PROPERTY RefreshGoesOn
PROPERTY PauseEndsLoops
CHECK_DEADLOCK FALSE
