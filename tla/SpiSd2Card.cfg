SPECIFICATION Spec
CONSTANTS
  Block = {0, 1, 2}
  Size = 2
  Crc = 1
  Kind = {"SD1", "SD2", "SDHC"}
  Wrap = 3
  Timeout = 1
  MaxWrites = 1
  MaxTries = 1
  MayDie = TRUE
  MayRefuse = TRUE
INVARIANTS
  TypeOK
  InStep
  ReadReturnsBlock
  WriteIsStored
PROPERTIES
  WritesGoWhereTold
