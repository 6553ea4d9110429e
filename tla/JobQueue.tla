------------------------------ MODULE JobQueue ------------------------------
(***************************************************************************)
(* The durable job queue: the rows of jobs and job_attempts, the           *)
(* maintenance workers that claim, renew, complete, fail and defer jobs,   *)
(* and the operator's retry of a terminal one.                             *)
(*                                                                         *)
(* Each transaction is one action.  What a job does to the rest of the     *)
(* system is left out: an attempt only ends, in any way its handler can.   *)
(* The queue belongs to one tenant, as every worker does.                  *)
(***************************************************************************)
EXTENDS Integers, FiniteSets

CONSTANTS
  Jobs,          \* job identifiers
  Retries,       \* the identifiers operator retries use
  Workers,       \* maintenance workers
  Priority,      \* [Jobs -> Nat], claimed in ascending order
  MaxAttempts,   \* 8 in the code
  Graced,        \* upload_reconcile jobs of uploads still within their grace
  NoJob

ASSUME QueueAssumption ==
  /\ Retries \subseteq Jobs /\ Graced \subseteq Jobs
  /\ Priority \in [Jobs -> Nat]
  /\ MaxAttempts \in Nat \ {0}
  /\ NoJob \notin Jobs

VARIABLES
  state, attempts,   \* jobs.state, attempt_count
  token,             \* jobs.fencing_token
  lapsed,            \* is lease_expires_at past?
  wait,              \* what available_at waits for: "now" when it is past
  grace,             \* must the handler still defer the job?
  ledger,            \* job_attempts: the outcome of each attempt, "open" while unfinished
  worker             \* what each worker runs

vars == <<state, attempts, token, lapsed, wait, grace, ledger, worker>>

States == {"none", "queued", "running", "retry_wait", "terminal", "complete"}
Outcomes == {"none", "open", "completed", "failed", "deferred", "lease_expired"}

IdleWorker == [step |-> "idle", job |-> NoJob, token |-> 0, attempt |-> 0]
WorkerRecord == [step: {"running", "refused"}, job: Jobs, token: Nat, attempt: Nat]
                \cup {IdleWorker}

NoAttempt == [n \in 1..MaxAttempts |-> "none"]

TypeOK ==
  /\ state \in [Jobs -> States]
  /\ attempts \in [Jobs -> 0..MaxAttempts]
  /\ token \in [Jobs -> Nat]
  /\ lapsed \in [Jobs -> BOOLEAN]
  /\ wait \in [Jobs -> {"now", "backoff", "grace"}]
  /\ grace \in [Jobs -> BOOLEAN]
  /\ ledger \in [Jobs -> [1..MaxAttempts -> Outcomes]]
  /\ worker \in [Workers -> WorkerRecord]

Init ==
  /\ state = [j \in Jobs |-> "none"]
  /\ attempts = [j \in Jobs |-> 0]
  /\ token = [j \in Jobs |-> 0]
  /\ lapsed = [j \in Jobs |-> FALSE]
  /\ wait = [j \in Jobs |-> "now"]
  /\ grace = [j \in Jobs |-> j \in Graced]
  /\ ledger = [j \in Jobs |-> NoAttempt]
  /\ worker = [w \in Workers |-> IdleWorker]

-----------------------------------------------------------------------------
(* Jobs appear *)

\* INSERT INTO jobs ... ON CONFLICT DO NOTHING: one row per idempotency key.
EnqueueJob(j) ==
  /\ state[j] = "none" /\ j \notin Retries
  /\ state' = [state EXCEPT ![j] = "queued"]
  /\ UNCHANGED <<attempts, token, lapsed, wait, grace, ledger, worker>>

\* filebeltctl job retry: a new job with the kind and the payload of the
\* terminal one, which is left as it is.
RetryJob(j, k) ==
  /\ state[j] = "terminal"
  /\ k \in Retries /\ state[k] = "none"
  /\ state' = [state EXCEPT ![k] = "queued"]
  /\ grace' = [grace EXCEPT ![k] = grace[j]]
  /\ UNCHANGED <<attempts, token, lapsed, wait, ledger, worker>>

-----------------------------------------------------------------------------
(* Time *)

LeaseLapses(j) ==
  /\ state[j] = "running" /\ ~lapsed[j]
  /\ lapsed' = [lapsed EXCEPT ![j] = TRUE]
  /\ UNCHANGED <<state, attempts, token, wait, grace, ledger, worker>>

BackoffElapses(j) ==
  /\ wait[j] = "backoff"
  /\ wait' = [wait EXCEPT ![j] = "now"]
  /\ UNCHANGED <<state, attempts, token, lapsed, grace, ledger, worker>>

\* A deferred job becomes available at the end of the grace it waits for.
GraceEnds(j) ==
  /\ grace[j]
  /\ grace' = [grace EXCEPT ![j] = FALSE]
  /\ wait' = [wait EXCEPT ![j] = IF @ = "grace" THEN "now" ELSE @]
  /\ UNCHANGED <<state, attempts, token, lapsed, ledger, worker>>

-----------------------------------------------------------------------------
(* claim_job *)

\* Mutation: nothing retires a job whose last worker died.
NoneSpent == {}

\* Running jobs whose last lease has passed: claim_job retires all of them.
Spent == {j \in Jobs : /\ state[j] = "running" /\ lapsed[j]
                       /\ attempts[j] >= MaxAttempts}

\* Rows another claim has locked are skipped (FOR UPDATE SKIP LOCKED).
Locked == {worker[w].job : w \in {v \in Workers : worker[v].step = "refused"}}

\* Mutation: a settled job is picked again.
ClaimableAgain == {j \in Jobs \ Locked :
  \/ state[j] \in {"queued", "retry_wait", "terminal"} /\ wait[j] = "now"
  \/ state[j] = "running" /\ lapsed[j] /\ attempts[j] < MaxAttempts}

Claimable == {j \in Jobs \ Locked :
  \/ state[j] \in {"queued", "retry_wait"} /\ wait[j] = "now"
  \/ state[j] = "running" /\ lapsed[j] /\ attempts[j] < MaxAttempts}

\* ORDER BY priority; available_at and created_at order equal priorities.
First == {j \in Claimable : \A k \in Claimable : Priority[j] <= Priority[k]}

\* Mutation: a takeover leaves the attempt of the lost worker unfinished.
LeftOpen(l) == l

Closed(l) == [n \in 1..MaxAttempts |-> IF l[n] = "open" THEN "lease_expired" ELSE l[n]]

Retired(j) == j \in Spent

\* The transaction finds no job to run, and keeps its retirements.
ClaimNothing(w) ==
  /\ worker[w].step = "idle" /\ First = {} /\ Spent # {}
  /\ state' = [j \in Jobs |-> IF Retired(j) THEN "terminal" ELSE state[j]]
  /\ lapsed' = [j \in Jobs |-> lapsed[j] /\ ~Retired(j)]
  /\ ledger' = [j \in Jobs |-> IF Retired(j) THEN Closed(ledger[j]) ELSE ledger[j]]
  /\ UNCHANGED <<attempts, token, wait, grace, worker>>

\* The transaction retires, takes a job over or picks a waiting one, advances
\* its attempt and its fence together, and opens the attempt's row.
ClaimJob(w, j) ==
  /\ worker[w].step = "idle" /\ j \in First /\ attempts[j] < MaxAttempts
  /\ state' = [i \in Jobs |-> IF i = j THEN "running"
                              ELSE IF Retired(i) THEN "terminal" ELSE state[i]]
  /\ lapsed' = [i \in Jobs |-> lapsed[i] /\ i # j /\ ~Retired(i)]
  /\ attempts' = [attempts EXCEPT ![j] = @ + 1]
  /\ token' = [token EXCEPT ![j] = @ + 1]
  /\ ledger' = [i \in Jobs |->
       IF i = j THEN [Closed(ledger[j]) EXCEPT ![attempts[j] + 1] = "open"]
       ELSE IF Retired(i) THEN Closed(ledger[i]) ELSE ledger[i]]
  /\ worker' = [worker EXCEPT ![w] = [step |-> "running", job |-> j,
                                      token |-> token[j] + 1,
                                      attempt |-> attempts[j] + 1]]
  /\ UNCHANGED <<wait, grace>>

\* The job picked has used all its attempts: CHECK (attempt_count BETWEEN 0
\* AND 8) refuses the update, and the whole transaction rolls back, its
\* retirements included.  Until it has, it holds the row's lock.
ClaimRefused(w, j) ==
  /\ worker[w].step = "idle" /\ j \in First /\ attempts[j] >= MaxAttempts
  /\ worker' = [worker EXCEPT ![w] = [step |-> "refused", job |-> j,
                                      token |-> token[j], attempt |-> attempts[j]]]
  /\ UNCHANGED <<state, attempts, token, lapsed, wait, grace, ledger>>

ClaimRolledBack(w) ==
  /\ worker[w].step = "refused"
  /\ worker' = [worker EXCEPT ![w] = IdleWorker]
  /\ UNCHANGED <<state, attempts, token, lapsed, wait, grace, ledger>>

-----------------------------------------------------------------------------
(* run_one_job *)

\* Mutation: the update asks for the state only.
HoldsAnyAttempt(w) == /\ worker[w].step = "running"
                      /\ state[worker[w].job] = "running"

\* WHERE state='running' AND fencing_token=$3
Holds(w) == /\ worker[w].step = "running"
            /\ state[worker[w].job] = "running"
            /\ token[worker[w].job] = worker[w].token

\* The fenced update that ends an attempt; a worker that no longer holds the
\* job changes nothing and returns an error, which is logged.
Ends(w, s, until, outcome) ==
  LET j == worker[w].job IN
  /\ worker[w].step = "running"
  /\ worker' = [worker EXCEPT ![w] = IdleWorker]
  /\ \/ /\ Holds(w)
        /\ state' = [state EXCEPT ![j] = s]
        /\ wait' = [wait EXCEPT ![j] = until]
        /\ lapsed' = [lapsed EXCEPT ![j] = FALSE]
        /\ ledger' = [ledger EXCEPT ![j][worker[w].attempt] = outcome]
     \/ /\ ~Holds(w)
        /\ UNCHANGED <<state, wait, lapsed, ledger>>
  /\ UNCHANGED <<attempts, token, grace>>

\* complete_job, after the handler; one that must defer does not complete.
CompleteJob(w) ==
  /\ worker[w].step = "running" /\ ~grace[worker[w].job]
  /\ Ends(w, "complete", wait[worker[w].job], "completed")

\* fail_job of a retryable error, the attempt's maximum runtime included.
FailJob(w) ==
  Ends(w, IF worker[w].attempt < MaxAttempts THEN "retry_wait" ELSE "terminal",
       "backoff", "failed")

\* fail_job of InvalidJob or LeaseLost.
RejectJob(w) == Ends(w, "terminal", "backoff", "failed")

\* defer_job: whatever the attempt's number, the job waits for its grace.
DeferJob(w) ==
  /\ worker[w].step = "running" /\ grace[worker[w].job]
  /\ Ends(w, "retry_wait", "grace", "deferred")

\* heartbeat: renews even a lease that has passed, and gives the attempt up
\* when the job belongs to another.
HeartbeatJob(w) ==
  /\ worker[w].step = "running"
  /\ \/ /\ Holds(w)
        /\ lapsed' = [lapsed EXCEPT ![worker[w].job] = FALSE]
        /\ UNCHANGED worker
     \/ /\ ~Holds(w)
        /\ worker' = [worker EXCEPT ![w] = IdleWorker]
        /\ UNCHANGED lapsed
  /\ UNCHANGED <<state, attempts, token, wait, grace, ledger>>

WorkerCrashes(w) ==
  /\ worker[w].step # "idle"
  /\ worker' = [worker EXCEPT ![w] = IdleWorker]
  /\ UNCHANGED <<state, attempts, token, lapsed, wait, grace, ledger>>

-----------------------------------------------------------------------------
JobNext(j) ==
  \/ EnqueueJob(j) \/ (\E k \in Jobs : RetryJob(j, k))
  \/ LeaseLapses(j) \/ BackoffElapses(j) \/ GraceEnds(j)

ClaimNext(w) ==
  ClaimNothing(w) \/ (\E j \in Jobs : ClaimJob(w, j) \/ ClaimRefused(w, j))

AttemptEnds(w) == CompleteJob(w) \/ FailJob(w) \/ RejectJob(w) \/ DeferJob(w)

WorkerNext(w) ==
  \/ ClaimNext(w) \/ ClaimRolledBack(w) \/ AttemptEnds(w)
  \/ HeartbeatJob(w) \/ WorkerCrashes(w)

Next == (\E j \in Jobs : JobNext(j)) \/ (\E w \in Workers : WorkerNext(w))

Spec == Init /\ [][Next]_vars

\* Clocks advance; the lease of a job whose worker is gone passes.
Abandoned(j) == \A w \in Workers : ~(Holds(w) /\ worker[w].job = j)

\* The job loop ticks every five seconds, a handler ends within the maximum
\* runtime of six hours, and a transaction commits or rolls back.  Nobody
\* owes a job, a crash or an operator's retry.
Fairness ==
  /\ \A j \in Jobs : /\ WF_vars(Abandoned(j) /\ LeaseLapses(j))
                     /\ WF_vars(BackoffElapses(j))
                     /\ WF_vars(GraceEnds(j))
  /\ \A w \in Workers : /\ WF_vars(ClaimNext(w))
                        /\ WF_vars(ClaimRolledBack(w))
                        /\ WF_vars(AttemptEnds(w))

FairSpec == Spec /\ Fairness

-----------------------------------------------------------------------------
(* What must hold *)

\* The jobs row and its attempts tell one story: attempts are numbered without
\* a gap up to attempt_count, the last one is unfinished exactly while the job
\* runs, none before it is, and a job is complete exactly when its last
\* attempt completed.
LedgerAgrees == \A j \in Jobs :
  /\ \A n \in 1..MaxAttempts : (ledger[j][n] # "none") <=> (n <= attempts[j])
  /\ \A n \in 1..MaxAttempts : (ledger[j][n] = "open") <=> (n = attempts[j] /\ state[j] = "running")
  /\ \A n \in 1..MaxAttempts :
       (ledger[j][n] = "completed") <=> (n = attempts[j] /\ state[j] = "complete")

\* However many workers still believe they run a job, the fence lets at most
\* one of them write its row.
OneHolder == \A v, w \in Workers :
  Holds(v) /\ Holds(w) /\ worker[v].job = worker[w].job => v = w

\* The abstract job: leases, fences, takeovers and retirements only ever try
\* it again, one attempt at a time, or settle it once.
Phase == [j \in Jobs |->
  CASE state[j] = "none" -> "absent"
    [] state[j] \in {"queued", "retry_wait"} -> "waiting"
    [] state[j] = "running" -> "trying"
    [] OTHER -> state[j]]

Durable == INSTANCE DurableJob WITH phase <- Phase, log <- ledger

\* The queue implements the abstract job.
ImplementsDurableJob == Durable!Spec

\* "Retryable failures use exponential full-jitter backoff for at most eight
\* attempts ... Terminal and operator-blocked state remains in PostgreSQL":
\* every job that is submitted ends complete or terminal.
JobsSettle == \A j \in Jobs :
  state[j] = "queued" ~> state[j] \in {"complete", "terminal"}

\* A deferral at the last attempt leaves a job that every claim picks and none
\* can take.
Stuck(j) == state[j] = "retry_wait" /\ attempts[j] = MaxAttempts

\* Short of that deferral every job settles: a worker that dies, stalls or
\* answers late at any attempt only costs the job that attempt.
JobsSettleOrStick == \A j \in Jobs :
  state[j] = "queued" ~> (state[j] \in {"complete", "terminal"} \/ \E k \in Graced \cup Retries : Stuck(k))

-----------------------------------------------------------------------------
(* Why it holds: the facts that every step preserves together *)

\* A fence is the number of the attempt it was issued for; no two workers run
\* the same attempt, and none runs one that has not begun.
TokenInv ==
  /\ \A j \in Jobs : token[j] = attempts[j]
  /\ \A w \in Workers : worker[w].step = "running" =>
       /\ worker[w].token = worker[w].attempt
       /\ worker[w].attempt \in 1..attempts[worker[w].job]
  /\ \A v, w \in Workers :
       /\ worker[v].step = "running" /\ worker[w].step = "running"
       /\ worker[v].job = worker[w].job /\ worker[v].token = worker[w].token
       => v = w

IndInv == TypeOK /\ LedgerAgrees /\ TokenInv
=============================================================================
