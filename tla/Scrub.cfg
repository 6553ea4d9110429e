\* Two scrubs at a time of a payload that an upload owns, against commit,
\* deletion, every kind of decay and crashes, under the fairness of the loops.
SPECIFICATION FairSpec
CONSTANTS
  Payloads = {x1}
  Owned = {x1}
  Workers = {k1, k2}
  Damage = {"corrupt", "missing", "unsafe"}
  MaxAttempts = 3
  MaxCrashes = 2
  NoPayload = NoPayload  NoWorker = NoWorker
INVARIANTS OnlyDecayQuarantined QuarantinedOutOfReach
PROPERTIES EvidencePreserved UploadsCovered QuarantineCompletes
CHECK_DEADLOCK FALSE
