SPECIFICATION Spec
CONSTANTS
  MAX_NUMBERS = 1200
  Numbers <- RealNumbers
  MaxCalls = 1
INVARIANT ReadsInBounds
CHECK_DEADLOCK FALSE
