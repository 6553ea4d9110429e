\* One job within its grace, and one worker.
SPECIFICATION FairSpec
CONSTANTS
  j1 = j1  j2 = j2  j3 = j3
  Jobs = {j1, j2}
  Retries = {}
  Workers = {k1}
  Priority <- Priorities
  MaxAttempts = 2
  Graced = {j1}
  NoJob = NoJob
PROPERTIES JobsSettle
CHECK_DEADLOCK FALSE
