\* Under the fairness of the loops: a job that must be deferred, one of a lower priority and an operator's
\* retry, two workers.
SPECIFICATION FairSpec
CONSTANTS
  j1 = j1  j2 = j2  j3 = j3
  Jobs = {j1, j2, j3}
  Retries = {j3}
  Workers = {k1, k2}
  Priority <- Priorities
  MaxAttempts = 2
  Graced = {j1}
  NoJob = NoJob
INVARIANTS LedgerAgrees OneHolder
PROPERTIES ImplementsDurableJob JobsSettleOrStick
CHECK_DEADLOCK FALSE
