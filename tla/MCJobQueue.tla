----------------------------- MODULE MCJobQueue -----------------------------
(* Small instances of JobQueue for TLC. *)
EXTENDS JobQueue

CONSTANTS j1, j2, j3

\* upload_reconcile jobs and operator retries are queued at 50, deletions of
\* orphans at 80, periodic scrubs at 120.
Priorities == [j \in Jobs |-> CASE j = j1 -> 50 [] j = j2 -> 120 [] OTHER -> 50]
=============================================================================
