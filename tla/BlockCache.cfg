SPECIFICATION MCSpec
CONSTANTS
  Block = {0, 1, 2, 3}
  FatBlock = {1}
  ClientBlock = {3}
  BlocksPerFat = 1
  FatCount = 2
  Part = {1, 2}
  FirstPart = 1
  Value = {0, 1}
  Zero = 0
  NoBlock = 9
  NoData = NoData
  CardFails = TRUE
INVARIANTS TypeOK CleanBufferIsOnCard MirrorBelongsToBuffer FatCopiesAgree
PROPERTY ImplementsBlockStore
