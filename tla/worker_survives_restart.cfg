SPECIFICATION FairSpec
CONSTANTS
  t1 = t1
  t2 = t2
  Task = {t1, t2}
  MaxConcurrent = 2
  MaxRevisions = 2
PROPERTY SurvivesBrokerRestart
CHECK_DEADLOCK FALSE
