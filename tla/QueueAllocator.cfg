SPECIFICATION FairSpec
CONSTANTS
  u1 = u1
  u2 = u2
  u3 = u3
  u4 = u4
  NumQueues = 2
  Users <- FourUsers
  MaxLeases = 2
INVARIANTS
  TypeOK
  QueuesConserved
  WaitersHaveWaker
PROPERTY EveryAcquireEnds
