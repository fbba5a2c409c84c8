SPECIFICATION Spec
CONSTANTS
  HALF = 16
  BYTE = 4
  Bits = 8
  Addresses = {132, 133, 134, 135, 136, 137, 138, 139}
  TEXT_BOT = 64
  Label = 200
  None = None
  Lines <- SmallLines
  Values = {0, 1, 2, 7, 15, 16, 127, 128, 129, 158, 254, 255}
  Products <- SmallProducts
  Targets = {131, 132, 133, 134, 135, 136, 137, 138, 139, 140}
  Contents <- SmallContents
INVARIANTS ResultsMeant ControlMeant TransfersMeant OthersKept
CHECK_DEADLOCK FALSE
