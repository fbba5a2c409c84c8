SPECIFICATION Spec
CONSTANTS
  Uses <- ContinueUses
  Existing <- Files
  Labels <- Defined
  Text <- Code
  Stops = {12}
  Meaning <- WithContinue
  STACK_TOP = 64
  Chars <- Letters
  Environ <- OneString
INVARIANT CommandsMeant
CHECK_DEADLOCK FALSE
