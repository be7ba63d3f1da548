SPECIFICATION Spec
CONSTANTS
  t1 = t1
  t2 = t2
  n1 = n1
  n2 = n2
  Task = {t1}
  Node = {n1, n2}
  MaxSubmits <- Once
  MaxFails = 3
  MaxConcurrent = 1
  Overlap = FALSE
  Faults <- NoFaults
  MaxFaults = 0
INVARIANT PoisonLeavesTheQueues
