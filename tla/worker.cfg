SPECIFICATION FairSpec
CONSTANTS
  t1 = t1
  t2 = t2
  Task = {t1, t2}
  MaxConcurrent = 2
  MaxRevisions = 2
INVARIANTS
  TypeOK
  SlotsAccounted
  AckedNeverFailed
  RevisionsBounded
  OutcomeReported
PROPERTIES
  CompletedIsWhole
  ShutdownEnds
  KeepsClaiming
CHECK_DEADLOCK FALSE
