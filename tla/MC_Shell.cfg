SPECIFICATION Spec
CONSTANTS
  Uses <- AllUses
  Existing <- Files
  Labels <- Defined
  Text <- Code
  Stops = {12}
  Meaning <- HelpText
  STACK_TOP = 64
  Chars <- Letters
  Environ <- OneString
INVARIANTS CommandsMeant ArgumentsPassed TerminalRestored
CHECK_DEADLOCK FALSE
