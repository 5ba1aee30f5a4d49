SPECIFICATION Spec
CONSTANTS
  BlockSize = 2
  BlocksPerCluster = 2
  Cluster = {c1, c2}
  NoCluster = NoCluster
  EOC = EOC
  EOCIsABlock = FALSE
  Modes <- OneMode
  MaxRequest = 5
  MaxSize = 10
  DateTime = TRUE
  CardFails = TRUE
SYMMETRY Symmetry
INVARIANTS
  AccessAtPositionAlways
CHECK_DEADLOCK FALSE
