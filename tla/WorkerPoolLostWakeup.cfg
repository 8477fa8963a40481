SPECIFICATION FairSpec
CONSTANTS
  w1 = w1
  w2 = w2
  Workers <- TwoWorkers
  NumTasks = 4
  TaskCap = 1
  ResultCap = 1
  Limit = 1
  CancelAllowed = FALSE
PROPERTIES
  Returns
CHECK_DEADLOCK FALSE
