\* Two uploads that share the job queue, under the fairness of the maintenance loops.
SPECIFICATION FairSpec
CONSTANTS
  u1 = u1  u2 = u2  n1 = n1
  Uploads = {u1, u2}
  Nodes = {n1}
  Parts = {p1}
  Bytes = {b1}
  Tasks = {t1}
  Writers = {r1}
  Workers = {k1}
  Quota = 2
  Size <- SizesMixed
  Total <- TotalMixed
  Layout <- OneWhole
  PartsOf <- AllParts
  Target <- SameNode
  MaxAttempts = 2
  StallsPastGrace = FALSE
  NoVersion = NoVersion  NoBytes = NoBytes  Missing = Missing
  NoTask = NoTask  NoUpload = NoUpload
INVARIANTS ReclaimedLeavesNoBytes
PROPERTIES OverdueResolves
CHECK_DEADLOCK FALSE
