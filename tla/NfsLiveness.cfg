\* Two writers that share the cleanup queue, one of them with a request, and a
\* crash or a lost lease, under the fairness of the loops.
SPECIFICATION FairSpec
CONSTANTS
  Writers = {w1, w2}
  IoTasks = {t1}
  Sweepers = {s1}
  MaxRequests = 1
  MaxIssues = 1
  MaxReissued = 0
  MaxFaults = 1
  MaxClaims = 3
  MaxHeads = 0
  Quota = 2
  Budget <- First
  w1 = w1
  NoTask = NoTask  NoWriter = NoWriter
PROPERTIES StagingSettles
CHECK_DEADLOCK FALSE
