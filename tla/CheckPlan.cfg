SPECIFICATION PlanSpec
CONSTANTS
  Families = {1, 2, 3}
  Actions = {1, 2, 3, 4, 5}
  DiversityRank <- SomeDiversity
  CombinationRank <- SomeOrder
  Legacy = {3}
  Digits <- DigitOrder
  Leading <- Filters
  Luas <- SomeLuas
  Inputs <- NoInputs
  OptionSet <- SomeOptions
  Values <- SomeValues
  Templates <- SomeTemplates
  Standard <- Standards
  Shown <- SomeShown
  Unset = 0
  Found <- SomeFound
  BlobName <- SomeBlobName
  Hosts = {"a", "b"}
  Names <- SomeNames
  Valid <- SomeValid
  Reserved <- SomeReserved
  Cleaned <- SomeCleaned
  Files <- SomeFiles
  Stem <- SomeStems
  Present <- SomePresent
  NoFile = "builtin"
  Plans <- SomePlans
  MaxFiles = 2
INVARIANTS
  PlanTypeOK
  NothingLost
  Interleaved
  CombinedAsAllowed
  TargetsAgree
  BlobsDeclared
  PayloadsTried
  PayloadsBuiltAsValidated
