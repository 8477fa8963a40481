SPECIFICATION Spec
CONSTANTS
  MaxQueue = 5
  MaxMark = 7
  MaxWorkers = 4
INVARIANTS
  NoWorkerBypassed
