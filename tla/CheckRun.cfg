SPECIFICATION Spec
CONSTANTS
  s1 = s1
  s2 = s2
  w1 = w1
  Strategies <- TwoStrategies
  Workers <- OneWorker
  Attempts = 2
  Configs <- SomeConfigs
  MaxChecks = 2
SYMMETRY Interchangeable
INVARIANTS
  TypeOK
  SavedAsReported
  TornFileStopsChecks
  RegularEndLeavesNothing
CHECK_DEADLOCK FALSE
