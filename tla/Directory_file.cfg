SPECIFICATION Spec
CONSTANTS
  Root = Root
  Other = {c1, c2}
  NoCluster = NoCluster
  EOC = EOC
  Free = Free
  Name = {n1, n2}
  NoName = NoName
  PerCluster = 3
  EmptyFiles = TRUE
  MaxRefused = 0
SYMMETRY Symmetry
INVARIANT EntriesInDirectories
CHECK_DEADLOCK FALSE
