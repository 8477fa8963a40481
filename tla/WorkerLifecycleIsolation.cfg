SPECIFICATION Spec
CONSTANTS
  w1 = w1
  w2 = w2
  w3 = w3
  p1 = p1
  p2 = p2
  Workers <- TwoWorkers
  Ports <- TwoPorts
  Begins <- OneBeginsOther
  MaxRuns = 3
INVARIANT ProbeReachesOwnQueue
