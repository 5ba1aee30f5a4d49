SPECIFICATION Spec
CONSTANTS
  Root = Root
  Other = {c1, c2}
  NoCluster = NoCluster
  EOC = EOC
  Free = Free
  Name = {n1, n2}
  NoName = NoName
  PerCluster = 3
  EmptyFiles = FALSE
  MaxRefused = 1
SYMMETRY Symmetry
INVARIANTS
  TypeOK
  EveryEntryIsFound
  TreeIsSound
  NoLeak
  RemovedIsEmpty
  Durable
PROPERTIES
  CrashSparesOthers
  RmRfClears
CHECK_DEADLOCK FALSE
