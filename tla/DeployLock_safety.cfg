CONSTANTS
  r1 = r1
  r2 = r2
  r3 = r3
  NoRun = NoRun
  Runs <- ThreeRuns
  MaySignal = TRUE
  MayCrash = TRUE
  MaxLost = 1
SPECIFICATION Safety
INVARIANTS
  MutualExclusion
  CheckedStateStands
PROPERTIES
  SavesExtendTheirPlan
SYMMETRY RunSymmetry
