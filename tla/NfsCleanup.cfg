\* A write and a retry of it that arrives while the first is still at work.
SPECIFICATION Spec
CONSTANTS
  Writers = {w1}
  IoTasks = {t1, t2}
  Sweepers = {s1}
  MaxRequests = 1
  MaxIssues = 1
  MaxReissued = 0
  MaxFaults = 0
  MaxClaims = 2
  MaxHeads = 1
  Quota = 2
  Budget <- Equal
  w1 = w1
  NoTask = NoTask  NoWriter = NoWriter
INVARIANTS CleanupCompletable
CHECK_DEADLOCK FALSE
