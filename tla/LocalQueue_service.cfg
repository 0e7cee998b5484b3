CONSTANTS
  g = g
  k = k
  l = l
  p1 = p1
  c1 = c1
  FifoModes <- BothModes
  Groups <- OneGroup
  NoGroup = NoGroup
  DedupIds <- TwoKeys
  Delays <- NowOrLater
  MaxDelay = 1
  VisibilityTimeout = 2
  MaxVisibility = 2
  Timeouts <- AtOnceOrInFull
  Retention = 3
  DeadRetention = 1
  MaxAttempts = 2
  DedupInterval = 2
  Pollers <- OnePoller
  BatchSize = 2
  BatchWindow = 1
  Concurrency = 2
  Clients <- OneClient
  WaitTime = 1
  MaxSent = 2
  MaxTime = 3
SPECIFICATION Spec
INVARIANTS
  TypeOK
  OneBatchPerGroup
  TimerCoversMessages
  DrainIsNoticed
PROPERTIES
  PollersDontSleep
  GroupsInOrder
  LeavesOnlySettled
SYMMETRY KeySymmetry
