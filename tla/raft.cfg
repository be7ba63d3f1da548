SPECIFICATION Spec
CONSTANTS
  Node = {n1, n2, n3, n4, n5}
  None = None
  MaxTerm = 2
SYMMETRY NodeSymmetry
CHECK_DEADLOCK FALSE
INVARIANTS
  TypeOK
  ElectionSafety
  VotesAreBacked
PROPERTIES
  LeaderKeepsItsTerm
