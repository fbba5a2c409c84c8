SPECIFICATION Spec
CONSTANTS
  WordSize = 16384
  CharLimit = 8
  C_MAX_NUMBERS = 16
  MIPS_MAX_NUMBERS = 18
  RandLimit = 12
  C_Args <- AllArgs
  MIPS_Args <- Args
  C_Texts <- AllChars
  MIPS_Texts <- Lines
  BufferSize = 5
  Newline = 5
  MaxIterations = 3
INVARIANTS RoundTrip ExponentFound TrapCauses ReturnsToCaller CallerStateKept
PROPERTY SameAsC
CHECK_DEADLOCK FALSE
