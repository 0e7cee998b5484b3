CONSTANTS
  a = a
  b = b
  c = c
  Ids <- ThreeIds
  Concurrency = 2
  MaxNesting = 1
  Projects <- Families
  Setups <- EngineSetups
SPECIFICATION Safety
INVARIANTS
  TypeOK
  SavedStateLoads
  DeployedDependenciesExist
  NothingIsForgotten
  StateDescribesResources
  CleanupsAfterRollouts
  
PROPERTIES
  KnownUntilGone
SYMMETRY IdSymmetry
