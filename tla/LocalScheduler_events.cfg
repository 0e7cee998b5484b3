CONSTANTS
  e1 = e1
  e2 = e2
  Timer = Timer
  NoTimeout = NoTimeout
  Events <- TwoEvents
  MaxRetries = 1
  MaxVersions = 4
  MaxDates = 3
  MaxInstances = 2
SPECIFICATION SchedulerSpec
INVARIANT
  ScheduledIsPending
PROPERTIES
  OnlyCurrentRuns
  EventsAreDone
CHECK_DEADLOCK FALSE
