SPECIFICATION Spec
CONSTANTS
  BlockSize = 2
  BlocksPerCluster = 2
  Cluster = {c1, c2}
  NoCluster = NoCluster
  EOC = EOC
  EOCIsABlock = TRUE
  Modes <- OneMode
  MaxRequest = 5
  MaxSize = 10
  DateTime = TRUE
  CardFails = FALSE
SYMMETRY Symmetry
INVARIANTS
  WritesStayInFile
