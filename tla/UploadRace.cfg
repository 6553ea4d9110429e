\* One chunked upload of two parts, two finalizers, and requests that
\* stall for as long as they like.
SPECIFICATION Spec
CONSTANTS
  u1 = u1  u2 = u2  n1 = n1
  Uploads = {u1}
  Nodes = {n1}
  Parts = {p1, p2}
  Bytes = {b1, b2}
  Tasks = {t1, t2}
  Writers = {r1}
  Workers = {k1}
  Quota = 1
  Size <- Sizes1
  Total <- Total1
  Layout <- OneChunked
  PartsOf <- AllParts
  Target <- SameNode
  MaxAttempts = 2
  StallsPastGrace = TRUE
  NoVersion = NoVersion  NoBytes = NoBytes  Missing = Missing
  NoTask = NoTask  NoUpload = NoUpload
INVARIANTS TypeOK RowsAgree BytesIntact AckedPartKept
PROPERTIES AckedPartImmutable StaleTaskPowerless
SYMMETRY Interchangeable
CHECK_DEADLOCK FALSE
