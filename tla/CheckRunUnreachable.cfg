SPECIFICATION Spec
CONSTANTS
  s1 = s1
  s2 = s2
  w1 = w1
  Strategies <- TwoStrategies
  Workers <- OneWorker
  Attempts = 1
  Configs <- SomeConfigs
  MaxChecks = 1
INVARIANTS
  UnreachableNotPunished
CHECK_DEADLOCK FALSE
