\* A writer with three requests, the first of which may be issued again.  Two requests or
\* retries are served at a time, and there is a maintenance worker.
SPECIFICATION Spec
CONSTANTS
  Writers = {w1}
  IoTasks = {t1, t2}
  Sweepers = {s1}
  MaxRequests = 3
  MaxIssues = 2
  MaxReissued = 1
  MaxFaults = 1
  MaxClaims = 2
  MaxHeads = 1
  Quota = 3
  Budget <- Equal
  w1 = w1
  NoTask = NoTask  NoWriter = NoWriter
INVARIANTS TypeOK AckedWritesKept DeletedStaysDeleted QuotaExact PublishedIntact
PROPERTIES ReportedRangeKept ImplementsStagedWrite
SYMMETRY Interchangeable
CHECK_DEADLOCK FALSE
