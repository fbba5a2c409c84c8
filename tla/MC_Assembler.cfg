SPECIFICATION Spec
CONSTANTS
  x = x
  y = y
  Names <- TwoNames
  TEXT_BOT = 16
  DATA_BOT = 32
  GpSize = 4
  DataSize = 8
  CHUNK = 4
  MaxAddr = 56
  BYTE = 16
  ItemSize = 2
  MaxLines = 5
  MaxFiles = 2
INVARIANTS UsesResolved LabelsPlaced FlushEnds
PROPERTY FilesApart
SYMMETRY NameSymmetry
CHECK_DEADLOCK FALSE
