SPECIFICATION FairSpec
CONSTANTS
  w1 = w1
  w2 = w2
  Workers <- TwoWorkers
  NumTasks = 4
  TaskCap = 2
  ResultCap = 1
  Limit = 1
  CancelAllowed = TRUE
INVARIANTS
  TypeOK
  EachTaskInOnePlace
  ProbedAtMostOnce
  OvershootBounded
  CompleteUnlessCancelled
PROPERTIES
  ImplementsContract
  ReturnsUnlessWakeupLost
  WorkersEnd
