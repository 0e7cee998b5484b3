CONSTANTS
  a = a
  b = b
  c = c
  Ids <- TwoIds
  Concurrency = 2
  MaxNesting = 1
  Projects <- Families
  Setups <- UnhandledSetups
SPECIFICATION Safety
INVARIANTS
  NothingIsForgotten
