CONSTANTS
  r1 = r1
  r2 = r2
  r3 = r3
  NoRun = NoRun
  Runs <- TwoRuns
  MaySignal = TRUE
  MayCrash = FALSE
  MaxLost = 0
SPECIFICATION Safety
INVARIANT
  InterruptedRunLeavesNoLock
