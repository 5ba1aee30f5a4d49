SPECIFICATION Spec
CONSTANTS
  BlockSize = 2
  BlocksPerCluster = 2
  Cluster = {c1, c2, c3}
  NoCluster = NoCluster
  EOC = EOC
  EOCIsABlock = FALSE
  Modes <- SomeModes
  MaxRequest = 5
  MaxSize = 12
  DateTime = TRUE
  CardFails = FALSE
SYMMETRY Symmetry
INVARIANTS
  TypeOK
  AccessAtPosition
  EntryFitsChain
  NothingLeaks
