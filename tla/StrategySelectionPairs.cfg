SPECIFICATION Spec
CONSTANTS
  Families <- ThreeFamilies
  Actions = {1, 2, 3, 4, 5}
  DiversityRank <- SomeDiversity
  CombinationRank <- SomeOrder
  Legacy = {3}
  Digits <- DigitOrder
  Leading = {"hello"}
  Luas = {"a", "b", "c", "d", "e", "f", "g"}
  MaxVariants = 2
  Inputs <- Catalogs
  OptionSet <- JustBase
INVARIANT AllowedPairTried
