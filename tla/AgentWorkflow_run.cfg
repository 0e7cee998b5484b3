CONSTANTS
  w1 = w1
  w2 = w2
  Workers <- TwoWorkers
  MaxSteps = 2
  MaxFaults = 1
SPECIFICATION WorkflowSpec
INVARIANTS
  WorkflowTypeOK
  EventsApplyOnce
  RunIsNotStranded
PROPERTIES
  RunsEndUnlessBlocked
CHECK_DEADLOCK FALSE
