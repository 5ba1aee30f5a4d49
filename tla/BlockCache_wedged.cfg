SPECIFICATION MCSpec
CONSTANTS
  Block = {0, 1, 2, 3, 4, 5, 6}
  FatBlock = {1, 2}
  ClientBlock = {5, 6}
  BlocksPerFat = 2
  FatCount = 2
  Part = {1}
  FirstPart = 1
  Value = {0, 1}
  Zero = 0
  NoBlock = 9
  NoData = NoData
  CardFails = FALSE
INVARIANT SyncSucceedsOnWorkingCard
