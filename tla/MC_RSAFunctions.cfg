SPECIFICATION FairSpec
CONSTANTS
  Args <- SmallArgs
  IntLimit = 64
  PhiArgs <- SmallPhis
  EArgs <- PositiveExponents
  WordSize = 256
  Bases <- SmallBases
  Exponents <- SmallExponents
  Moduli <- SmallModuli
  MAX_NUMBERS = 28
  Numbers <- SmallNumbers
  MaxCalls = 2
INVARIANTS GCDCorrect CofactorsTied InverseCorrect ProductsExact PowerCorrect ExactOrUnfilled ClosestPrime
PROPERTY Returns
CHECK_DEADLOCK FALSE
