CONSTANTS
  r1 = r1
  r2 = r2
  r3 = r3
  NoRun = NoRun
  Runs <- ThreeRuns
  MaySignal = FALSE
  MayCrash = FALSE
  MaxLost = 0
SPECIFICATION Spec
PROPERTIES
  LockIsReleased
  RunsEnd
  StateIsLinear
