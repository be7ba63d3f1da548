SPECIFICATION FairSpec
CONSTANTS
  t1 = t1
  t2 = t2
  n1 = n1
  n2 = n2
  Task = {t1, t2}
  Node = {n1, n2}
  MaxSubmits <- OneResubmitted
  MaxFails = 1
  MaxConcurrent = 1
  Overlap = FALSE
  Faults <- NoFaults
  MaxFaults = 0
PROPERTIES
  ImplementsLedger
  AcceptedIsResolved
