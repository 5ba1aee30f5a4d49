SPECIFICATION Spec
CONSTANTS
  ClusterCount = 3
  File = {f1, f2}
  NoFile = NoFile
  MaxCount = 3
  EOC = EOC
  Bad = Bad
  CardFails = TRUE
  Retry = TRUE
SYMMETRY Symmetry
INVARIANT ChainsAreInFat
CHECK_DEADLOCK FALSE
