SPECIFICATION Spec
CONSTANTS
  Programs <- SmallPrograms
  EXCEPTION_ADDR = 12
  IO_INTERVAL = 2
  MaxSteps = 3
  MaxCommands = 2
  BreakAddrs = {4, 6, 14}
PROPERTIES ReturnToInterrupted
CHECK_DEADLOCK FALSE
