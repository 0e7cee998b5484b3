CONSTANTS
  RetryDelays <- TwoDelays
  MaxMessages = 4
SPECIFICATION ForwarderSpec
INVARIANTS
  ArrivesInOrder
  WaitIsBounded
PROPERTIES
  MessagesSettle
CHECK_DEADLOCK FALSE
