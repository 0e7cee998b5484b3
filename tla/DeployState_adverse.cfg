CONSTANTS
  a = a
  b = b
  c = c
  Ids <- TwoIds
  Concurrency = 2
  MaxNesting = 1
  Projects <- Families
  Setups <- AdverseSetups
SPECIFICATION Spec
PROPERTIES
  DeploysEnd
