SPECIFICATION FairSpec
CONSTANTS
  ClusterCount = 4
  File = {f1, f2}
  NoFile = NoFile
  MaxCount = 3
  EOC = EOC
  Bad = Bad
  CardFails = TRUE
  Retry = FALSE
INVARIANTS TypeOK ChainsAreInFat NoCrossLinks HintIsExact NoSpaceMeansNoSpace NoLostClusters
PROPERTIES ImplementsChainStore CallsReturn
CHECK_DEADLOCK FALSE
