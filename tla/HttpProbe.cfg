SPECIFICATION FairSpec
CONSTANTS
  MaxBytes = 5
  ChunkSize = 2
  Requests <- SomeRequests
INVARIANTS
  TypeOK
  SuccessHasEvidence
  FailureIsTheServers
  FullMeansWhole
  SuspicionKept
PROPERTY ProbeEnds
