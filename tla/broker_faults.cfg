SPECIFICATION Spec
CONSTANTS
  t1 = t1
  t2 = t2
  n1 = n1
  n2 = n2
  Task = {t1, t2}
  Node = {n1, n2}
  MaxSubmits <- OneResubmitted
  MaxFails = 1
  MaxConcurrent = 1
  Overlap = FALSE
  Faults <- AllFaults
  MaxFaults = 1
SYMMETRY Symmetry
INVARIANTS
  TypeOK
  RetriesDoNotMultiply
  OneSubmissionOpen
  NothingLost
  ClosedStaysClosed
  SnapshotCoversWork
  RefusalHasOwner
PROPERTY LossIsRemembered
