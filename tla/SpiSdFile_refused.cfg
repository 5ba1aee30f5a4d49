SPECIFICATION FairSpec
CONSTANTS
  BlockSize = 1
  BlocksPerCluster = 1
  Cluster = {c1, c2}
  NoCluster = NoCluster
  EOC = EOC
  EOCIsABlock = FALSE
  Modes <- TwoModes
  MaxRequest = 2
  MaxSize = 2
  DateTime = FALSE
  CardFails = TRUE
INVARIANTS
  CleanHandleMatchesEntry
  AppendWritesAtEnd
PROPERTIES
  CallsReturn
CHECK_DEADLOCK FALSE
