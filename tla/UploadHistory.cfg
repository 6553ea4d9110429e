\* Two uploads of different sizes for the same file, begun against the same
\* head, under a quota that both just fit.
SPECIFICATION Spec
CONSTANTS
  u1 = u1  u2 = u2  n1 = n1
  Uploads = {u1, u2}
  Nodes = {n1}
  Parts = {p1}
  Bytes = {b1}
  Tasks = {t1, t2}
  Writers = {r1}
  Workers = {k1}
  Quota = 3
  Size <- SizesMixed
  Total <- TotalMixed
  Layout <- OneWhole
  PartsOf <- AllParts
  Target <- SameNode
  MaxAttempts = 1
  StallsPastGrace = FALSE
  NoVersion = NoVersion  NoBytes = NoBytes  Missing = Missing
  NoTask = NoTask  NoUpload = NoUpload
INVARIANTS LinearHistory QuotaExact
SYMMETRY Interchangeable
CHECK_DEADLOCK FALSE
