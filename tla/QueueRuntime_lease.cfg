CONSTANTS
  k = k
  l = l
  t = t
  g = g
  Subscriptions <- JustSlots
  Keys <- TwoKeys
  Tenants <- OneTenant
  Groups <- OneGroup
  NoGroup = NoGroup
  Second = 2
  Margin = 1
  Ttl = 1
  MaxDeferDelay = 1
  MaxDeferCount = 1
  SlotWait = 1
  DeferDelays <- OnlyLong
  RetryDelays <- OneDelay
  MaxInvocations = 2
  MaxMessages = 3
SPECIFICATION Spec
INVARIANT AtMostMaxAtOnce
CHECK_DEADLOCK FALSE
