SPECIFICATION Spec
CONSTANTS
  n1 = n1
  n2 = n2
  n3 = n3
  Node <- MCNode
  Punctual <- MCPunctual
  Report <- MCReport
  Interval = 2
  MaxLate = 1
  Threshold = 3
PROPERTY RemovedOnlyWhileOverdue
