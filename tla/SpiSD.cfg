SPECIFICATION Spec
CONSTANTS
  n1 = n1
  n2 = n2
  n3 = n3
  Node = {n1, n2, n3}
  RootDir = RootDir
  NoNode = NoNode
  Free = Free
  Deleted = Deleted
  Dot1 = Dot1
  Other = Other
  PerCluster = 2
  Label <- MCLabel
  Slash = "/"
  Dot = "."
  Letter <- Letters
  Illegal = {"*"}
  Upper <- UpperCase
  BaseMax = 2
  ExtMax = 1
  Cards <- MCCards
  Worked <- MCWorked
  EntriesPerBlock = 2
  Fat12End = 3
  Fat16End = 6
  MaxShift = 3
  MaxRefused = 1
  Calls <- MCCalls
  TextChar = {"a", ".", "/"}
  TextMax = 5
  Lists = TRUE
SYMMETRY Symmetry
INVARIANTS
  TypeOK
  BeginMatchesCard
  GeometryIsSound
  HandlesTakeTurns
  ListingIsComplete
  NamesSurvive
PROPERTIES
  ImplementsFileTree
