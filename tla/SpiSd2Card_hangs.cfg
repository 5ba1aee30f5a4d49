SPECIFICATION FairSpec
CONSTANTS
  Block = {0, 1, 2}
  Size = 2
  Crc = 1
  Kind = {"SDHC"}
  Wrap = 5
  Timeout = 2
  MaxWrites = 1
  MaxTries = 1
  MayDie = TRUE
  MayRefuse = FALSE
PROPERTY
  WaitsEnd
