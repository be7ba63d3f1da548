SPECIFICATION Spec
CONSTANTS
  a = a
  b = b
  c = c
  Node <- MCNode
  Capacity <- MCCapacity
  Report <- MCReport
  RingEnd = 10
  VirtualNodes = 2
  Probe <- MCProbe
  Threshold = 1
INVARIANTS
  TypeOK
  OwnersAreKnown
  FullShare
  RoutedWhileAnyoneCan
  UnfitNotRouted
PROPERTIES
  PositionsKept
  OnlyItsTasksMove
