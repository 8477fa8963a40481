SPECIFICATION Spec
CONSTANTS
  w1 = w1
  w2 = w2
  w3 = w3
  Workers <- ThreeWorkers
  p1 = p1
  p2 = p2
  Ports <- TwoPorts
  Begins <- OneBeginsOther
  MaxRuns = 3
SYMMETRY Interchangeable
INVARIANTS
  TypeOK
  ProbeHasRule
  ProcessesAccounted
  RulesAccounted
PROPERTIES
  ProbeKeepsRule
  VerdictNeedsSetup
