SPECIFICATION Spec
CONSTANTS
  TEXT_BOT = 0
  TextSize = 8
  DATA_BOT = 8
  DataSize = 4
  DataLimit = 8
  STACK_TOP = 48
  StackSize = 4
  StackLimit = 32
  StackReach = 16
  K_DATA_BOT = 48
  KDataSize = 4
  KDataLimit = 8
  MM_IO_BOT = 56
  MM_IO_TOP = 63
  Addrs <- SmallAddrs
  Increments <- SmallIncrements
  Payload <- CountingPayload
  MaxWrites = 2
INVARIANT TypeOK
PROPERTY ImplementsFlatMemory
CHECK_DEADLOCK FALSE
