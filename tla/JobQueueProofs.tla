--------------------------- MODULE JobQueueProofs ---------------------------
(***************************************************************************)
(* The job queue for any number of jobs, workers and attempts: its rows    *)
(* and attempts agree, one worker at most can write a job, and it          *)
(* implements the abstract durable job.                                    *)
(***************************************************************************)
EXTENDS JobQueue, TLAPS

\* The empty queue satisfies the invariant.
LEMMA QueueInit == Init => IndInv
  BY QueueAssumption DEF Init, IndInv, TypeOK, LedgerAgrees, TokenInv, States, Outcomes,
     WorkerRecord, IdleWorker, NoAttempt

\* Every step keeps the types.
LEMMA QueueTypes == ASSUME IndInv, Next PROVE TypeOK'
<1> USE QueueAssumption DEF States, Outcomes
<1>0. TypeOK  BY DEF IndInv
<1>1. ASSUME NEW j \in Jobs, JobNext(j) PROVE TypeOK'
  <2>1. CASE EnqueueJob(j)      BY <1>0, <2>1 DEF EnqueueJob, TypeOK
  <2>2. CASE \E k \in Jobs : RetryJob(j, k)  BY <1>0, <2>2 DEF RetryJob, TypeOK
  <2>3. CASE LeaseLapses(j)     BY <1>0, <2>3 DEF LeaseLapses, TypeOK
  <2>4. CASE BackoffElapses(j)  BY <1>0, <2>4 DEF BackoffElapses, TypeOK
  <2>5. CASE GraceEnds(j)       BY <1>0, <2>5 DEF GraceEnds, TypeOK
  <2> QED  BY <1>1, <2>1, <2>2, <2>3, <2>4, <2>5 DEF JobNext
<1>2. ASSUME NEW w \in Workers, ClaimNothing(w) PROVE TypeOK'
  <2>1. \A j \in Jobs : Closed(ledger[j]) \in [1..MaxAttempts -> Outcomes]
    BY <1>0 DEF Closed, TypeOK
  <2> QED  BY <1>0, <1>2, <2>1 DEF ClaimNothing, TypeOK
<1>3. ASSUME NEW w \in Workers, NEW j \in Jobs, ClaimJob(w, j) PROVE TypeOK'
  <2>1. \A i \in Jobs : Closed(ledger[i]) \in [1..MaxAttempts -> Outcomes]
    BY <1>0 DEF Closed, TypeOK
  <2>2. attempts[j] + 1 \in 1..MaxAttempts /\ token[j] + 1 \in Nat
    BY <1>0, <1>3 DEF ClaimJob, TypeOK
  <2>3. [Closed(ledger[j]) EXCEPT ![attempts[j] + 1] = "open"] \in [1..MaxAttempts -> Outcomes]
    BY <2>1, <2>2
  <2>4. ledger' \in [Jobs -> [1..MaxAttempts -> Outcomes]]
    BY <1>0, <1>3, <2>1, <2>3 DEF ClaimJob, TypeOK
  <2>5. worker' \in [Workers -> WorkerRecord]
    BY <1>0, <1>3, <2>2 DEF ClaimJob, TypeOK, WorkerRecord
  <2>6. attempts' \in [Jobs -> 0..MaxAttempts] /\ token' \in [Jobs -> Nat]
    BY <1>0, <1>3, <2>2 DEF ClaimJob, TypeOK
  <2>7. state' \in [Jobs -> States] /\ lapsed' \in [Jobs -> BOOLEAN]
    BY <1>0, <1>3 DEF ClaimJob, TypeOK
  <2> QED  BY <1>0, <1>3, <2>4, <2>5, <2>6, <2>7 DEF ClaimJob, TypeOK
<1>4. ASSUME NEW w \in Workers, NEW j \in Jobs, ClaimRefused(w, j) PROVE TypeOK'
  <2>1. attempts[j] \in Nat /\ token[j] \in Nat  BY <1>0 DEF TypeOK
  <2> QED  BY <1>0, <1>4, <2>1 DEF ClaimRefused, TypeOK, WorkerRecord
<1>5. ASSUME NEW w \in Workers, NEW s \in States, NEW until \in {"backoff", "grace", "now"},
             NEW o \in Outcomes, Ends(w, s, until, o)
      PROVE TypeOK'
  <2>1. worker' \in [Workers -> WorkerRecord]
    BY <1>0, <1>5 DEF Ends, TypeOK, WorkerRecord
  <2>2. CASE Holds(w)
    <3>1. worker[w].job \in Jobs
      BY <1>0, <2>2 DEF Holds, TypeOK, WorkerRecord, IdleWorker
    <3>2. ledger' \in [Jobs -> [1..MaxAttempts -> Outcomes]]
      <4>1. [ledger[worker[w].job] EXCEPT ![worker[w].attempt] = o]
              \in [1..MaxAttempts -> Outcomes]
        BY <1>0, <3>1 DEF TypeOK
      <4> QED  BY <1>0, <1>5, <2>2, <3>1, <4>1 DEF Ends, TypeOK
    <3>3. state' \in [Jobs -> States]
      BY <1>0, <1>5, <2>2, <3>1 DEF Ends, TypeOK
    <3>5. lapsed' \in [Jobs -> BOOLEAN]
      <4>1. lapsed' = [lapsed EXCEPT ![worker[w].job] = FALSE]  BY <1>5, <2>2 DEF Ends
      <4> QED  BY <1>0, <4>1 DEF TypeOK
    <3>4. wait' \in [Jobs -> {"now", "backoff", "grace"}]
      BY <1>0, <1>5, <2>2, <3>1 DEF Ends, TypeOK
    <3> QED  BY <1>0, <1>5, <2>1, <3>2, <3>3, <3>4, <3>5 DEF Ends, TypeOK
  <2>3. CASE ~Holds(w)
    BY <1>0, <1>5, <2>1, <2>3 DEF Ends, TypeOK
  <2> QED  BY <2>2, <2>3
<1>6. ASSUME NEW w \in Workers, AttemptEnds(w) PROVE TypeOK'
  <2>1. worker[w].step = "running"
    BY <1>6 DEF AttemptEnds, CompleteJob, FailJob, RejectJob, DeferJob, Ends
  <2>2. wait[worker[w].job] \in {"backoff", "grace", "now"}
    BY <1>0, <2>1 DEF TypeOK, WorkerRecord, IdleWorker
  <2> QED  BY <1>5, <1>6, <2>2 DEF AttemptEnds, CompleteJob, FailJob, RejectJob, DeferJob
<1>7. ASSUME NEW w \in Workers,
             ClaimRolledBack(w) \/ HeartbeatJob(w) \/ WorkerCrashes(w)
      PROVE TypeOK'
  BY <1>0, <1>7 DEF ClaimRolledBack, HeartbeatJob, WorkerCrashes, TypeOK, WorkerRecord
<1> QED
  BY <1>1, <1>2, <1>3, <1>4, <1>6, <1>7 DEF Next, WorkerNext, ClaimNext

\* The worker that holds a job runs its last attempt, which is open.
LEMMA HolderRunsLast ==
  ASSUME IndInv, NEW w \in Workers, Holds(w)
  PROVE  /\ worker[w].job \in Jobs
         /\ worker[w].attempt = attempts[worker[w].job]
         /\ worker[w].attempt \in 1..MaxAttempts
         /\ state[worker[w].job] = "running"
         /\ ledger[worker[w].job][worker[w].attempt] = "open"
<1> USE QueueAssumption
<1>1. worker[w].job \in Jobs
  BY DEF Holds, IndInv, TypeOK, WorkerRecord, IdleWorker
<1>2. worker[w].attempt = attempts[worker[w].job] /\ state[worker[w].job] = "running"
  BY <1>1 DEF Holds, IndInv, TokenInv
<1>3. attempts[worker[w].job] \in 0..MaxAttempts
  BY <1>1 DEF IndInv, TypeOK
<1>4. worker[w].attempt \in 1..MaxAttempts
  BY <1>1, <1>2, <1>3 DEF Holds, IndInv, TokenInv
<1> QED  BY <1>1, <1>2, <1>4 DEF IndInv, LedgerAgrees

\* What a job's rows say, one job at a time.
Agrees(j) ==
  \A n \in 1..MaxAttempts :
    /\ (ledger[j][n] # "none") <=> (n <= attempts[j])
    /\ (ledger[j][n] = "open") <=> (n = attempts[j] /\ state[j] = "running")
    /\ (ledger[j][n] = "completed") <=> (n = attempts[j] /\ state[j] = "complete")

LEMMA AgreesJobwise == LedgerAgrees <=> \A j \in Jobs : Agrees(j)
  BY DEF LedgerAgrees, Agrees

\* A retired job agrees: its last attempt expired.
LEMMA RetiredAgrees ==
  ASSUME IndInv, NEW j \in Jobs, Retired(j), state'[j] = "terminal",
         ledger'[j] = Closed(ledger[j]), attempts'[j] = attempts[j]
  PROVE  Agrees(j)'
  BY DEF IndInv, LedgerAgrees, Agrees, Retired, Spent, Closed

\* Every step keeps the rows and their attempts in agreement.
LEMMA QueueLedger == ASSUME IndInv, Next PROVE LedgerAgrees'
<1> USE QueueAssumption
<1>0. TypeOK /\ (\A j \in Jobs : Agrees(j))
  BY AgreesJobwise DEF IndInv
<1> SUFFICES \A j \in Jobs : Agrees(j)'
  BY DEF LedgerAgrees, Agrees
<1>1. ASSUME NEW i \in Jobs, JobNext(i), NEW j \in Jobs PROVE Agrees(j)'
  <2>1. ledger' = ledger /\ attempts' = attempts
    BY <1>1 DEF JobNext, EnqueueJob, RetryJob, LeaseLapses, BackoffElapses, GraceEnds
  <2>2. state'[j] = state[j] \/ (state[j] = "none" /\ state'[j] = "queued")
    BY <1>0, <1>1 DEF JobNext, EnqueueJob, RetryJob, LeaseLapses, BackoffElapses, GraceEnds, TypeOK
  <2> QED  BY <1>0, <2>1, <2>2 DEF Agrees
<1>2. ASSUME NEW w \in Workers, ClaimNothing(w), NEW j \in Jobs PROVE Agrees(j)'
  <2>1. attempts'[j] = attempts[j]  BY <1>2 DEF ClaimNothing
  <2>2. CASE Retired(j)
    BY <1>2, <2>1, <2>2, RetiredAgrees DEF ClaimNothing
  <2>3. CASE ~Retired(j)
    BY <1>0, <1>2, <2>1, <2>3 DEF ClaimNothing, Agrees
  <2> QED  BY <2>2, <2>3
<1>3. ASSUME NEW w \in Workers, NEW i \in Jobs, ClaimJob(w, i), NEW j \in Jobs PROVE Agrees(j)'
  <2>1. CASE j = i
    <3>1. attempts[i] \in Nat /\ attempts[i] + 1 \in 1..MaxAttempts
      BY <1>0, <1>3 DEF ClaimJob, TypeOK
    <3>2. attempts'[j] = attempts[i] + 1 /\ state'[j] = "running"
      BY <1>0, <1>3, <2>1 DEF ClaimJob, TypeOK
    <3>3. ledger'[j] = [Closed(ledger[i]) EXCEPT ![attempts[i] + 1] = "open"]
      BY <1>3, <2>1 DEF ClaimJob
    <3>4. state[i] # "complete"
      BY <1>3 DEF ClaimJob, First, Claimable
    <3> QED
      BY <1>0, <2>1, <3>1, <3>2, <3>3, <3>4 DEF Agrees, Closed
  <2>2. CASE j # i /\ Retired(j)
    <3>1. attempts'[j] = attempts[j]  BY <1>0, <1>3, <2>2 DEF ClaimJob, TypeOK
    <3> QED  BY <1>3, <2>2, <3>1, RetiredAgrees DEF ClaimJob
  <2>3. CASE j # i /\ ~Retired(j)
    <3>1. attempts'[j] = attempts[j]  BY <1>0, <1>3, <2>3 DEF ClaimJob, TypeOK
    <3> QED  BY <1>0, <1>3, <2>3, <3>1 DEF ClaimJob, Agrees
  <2> QED  BY <2>1, <2>2, <2>3
<1>4. ASSUME NEW w \in Workers, NEW s \in {"complete", "retry_wait", "terminal"}, NEW until,
             NEW o \in {"completed", "failed", "deferred"},
             (o = "completed") <=> (s = "complete"),
             Ends(w, s, until, o), NEW j \in Jobs
      PROVE Agrees(j)'
  <2>1. attempts' = attempts  BY <1>4 DEF Ends
  <2>2. CASE Holds(w) /\ j = worker[w].job
    <3>1. worker[w].attempt = attempts[j] /\ worker[w].attempt \in 1..MaxAttempts
      BY <2>2, HolderRunsLast
    <3>2. state'[j] = s  BY <1>0, <1>4, <2>2 DEF Ends, TypeOK
    <3>3. ledger'[j] = [ledger[j] EXCEPT ![worker[w].attempt] = o]
      BY <1>0, <1>4, <2>2 DEF Ends, TypeOK
    <3>4. state[j] = "running"  BY <2>2, HolderRunsLast
    <3>5. ledger[j] \in [1..MaxAttempts -> Outcomes]  BY <1>0 DEF TypeOK
    <3> QED  BY <1>0, <1>4, <2>1, <3>1, <3>2, <3>3, <3>4, <3>5 DEF Agrees
  <2>3. CASE ~Holds(w) \/ j # worker[w].job
    <3>1. state'[j] = state[j] /\ ledger'[j] = ledger[j]
      BY <1>0, <1>4, <2>3 DEF Ends, TypeOK
    <3> QED  BY <1>0, <2>1, <3>1 DEF Agrees
  <2> QED  BY <2>2, <2>3
<1>5. ASSUME NEW w \in Workers, AttemptEnds(w), NEW j \in Jobs PROVE Agrees(j)'
  BY <1>4, <1>5 DEF AttemptEnds, CompleteJob, FailJob, RejectJob, DeferJob
<1>6. ASSUME NEW w \in Workers, NEW j \in Jobs,
             \/ \E i \in Jobs : ClaimRefused(w, i)
             \/ ClaimRolledBack(w) \/ HeartbeatJob(w) \/ WorkerCrashes(w)
      PROVE Agrees(j)'
  BY <1>0, <1>6 DEF ClaimRefused, ClaimRolledBack, HeartbeatJob, WorkerCrashes, Agrees
<1> QED
  BY <1>1, <1>2, <1>3, <1>5, <1>6 DEF Next, WorkerNext, ClaimNext

\* Every step keeps the fences apart: a claim issues one that nobody has.
LEMMA QueueTokens == ASSUME IndInv, Next PROVE TokenInv'
<1> USE QueueAssumption
<1>0. TypeOK /\ TokenInv  BY DEF IndInv
<1>1. ASSUME token' = token, attempts' = attempts,
             \A w \in Workers : worker'[w] = worker[w] \/ worker'[w].step # "running"
      PROVE TokenInv'
  BY <1>0, <1>1 DEF TokenInv
<1>2. ASSUME NEW j \in Jobs, JobNext(j) PROVE TokenInv'
  BY <1>1, <1>2 DEF JobNext, EnqueueJob, RetryJob, LeaseLapses, BackoffElapses, GraceEnds
<1>3. ASSUME NEW w \in Workers, ClaimNothing(w) PROVE TokenInv'
  BY <1>1, <1>3 DEF ClaimNothing
<1>4. ASSUME NEW w \in Workers, NEW j \in Jobs, ClaimJob(w, j) PROVE TokenInv'
  <2>1. attempts[j] \in Nat /\ token[j] = attempts[j]
    BY <1>0 DEF TypeOK, TokenInv
  <2>2. \A i \in Jobs : /\ attempts'[i] = IF i = j THEN attempts[j] + 1 ELSE attempts[i]
                        /\ token'[i] = IF i = j THEN token[j] + 1 ELSE token[i]
    BY <1>0, <1>4 DEF ClaimJob, TypeOK
  <2>3. /\ worker'[w].step = "running" /\ worker'[w].job = j
        /\ worker'[w].token = attempts[j] + 1 /\ worker'[w].attempt = attempts[j] + 1
    BY <1>0, <1>4, <2>1 DEF ClaimJob, TypeOK
  <2>4. \A v \in Workers : v # w => worker'[v] = worker[v]
    BY <1>0, <1>4 DEF ClaimJob, TypeOK
  <2>5. \A v \in Workers : worker[v].step = "running" =>
          worker[v].job \in Jobs /\ attempts[worker[v].job] \in Nat
    BY <1>0 DEF TypeOK, WorkerRecord, IdleWorker
  <2>6. \A i \in Jobs : token'[i] = attempts'[i]
    BY <1>0, <2>1, <2>2 DEF TokenInv
  <2>7. \A v \in Workers : worker'[v].step = "running" =>
          /\ worker'[v].token = worker'[v].attempt
          /\ worker'[v].attempt \in 1..attempts'[worker'[v].job]
    BY <1>0, <2>1, <2>2, <2>3, <2>4, <2>5 DEF TokenInv
  <2>8. ASSUME NEW v \in Workers, worker[v].step = "running", worker[v].job = j
        PROVE worker[v].token # attempts[j] + 1
    BY <1>0, <2>1, <2>8 DEF TokenInv
  <2> QED  BY <1>0, <2>3, <2>4, <2>6, <2>7, <2>8 DEF TokenInv
<1>5. ASSUME NEW w \in Workers, \E j \in Jobs : ClaimRefused(w, j) PROVE TokenInv'
  BY <1>0, <1>1, <1>5 DEF ClaimRefused, TypeOK
<1>6. ASSUME NEW w \in Workers,
             \/ ClaimRolledBack(w) \/ HeartbeatJob(w) \/ WorkerCrashes(w) \/ AttemptEnds(w)
      PROVE TokenInv'
  <2>1. token' = token /\ attempts' = attempts
    BY <1>6 DEF ClaimRolledBack, HeartbeatJob, WorkerCrashes, AttemptEnds, CompleteJob, FailJob,
       RejectJob, DeferJob, Ends
  <2>2. worker' = worker \/ worker' = [worker EXCEPT ![w] = IdleWorker]
    BY <1>6 DEF ClaimRolledBack, HeartbeatJob, WorkerCrashes, AttemptEnds, CompleteJob, FailJob,
       RejectJob, DeferJob, Ends
  <2>3. \A v \in Workers : worker'[v] = worker[v] \/ worker'[v].step # "running"
    BY <1>0, <2>2 DEF TypeOK, IdleWorker
  <2> QED  BY <1>1, <2>1, <2>3
<1> QED
  BY <1>2, <1>3, <1>4, <1>5, <1>6 DEF Next, WorkerNext, ClaimNext

\* A stuttering step changes nothing the invariant reads.
LEMMA QueueStutters == ASSUME IndInv, UNCHANGED vars PROVE IndInv'
  BY DEF IndInv, TypeOK, LedgerAgrees, TokenInv, vars

\* The rows, the attempts and the fences agree in every reachable state.
THEOREM QueueInductive == Spec => []IndInv
<1>1. IndInv /\ [Next]_vars => IndInv'
  BY QueueTypes, QueueLedger, QueueTokens, QueueStutters DEF IndInv
<1> QED  BY QueueInit, <1>1, PTL DEF Spec

\* The jobs row and its job_attempts rows agree after any sequence of claims,
\* takeovers, retirements and late answers.
THEOREM LedgerAlwaysAgrees == Spec => []LedgerAgrees
<1>1. IndInv => LedgerAgrees  BY DEF IndInv
<1> QED  BY <1>1, QueueInductive, PTL

\* The fence lets at most one worker write a job's row.
THEOREM OneHolderAlways == Spec => []OneHolder
<1>1. IndInv => OneHolder  BY DEF IndInv, TokenInv, OneHolder, Holds
<1> QED  BY <1>1, QueueInductive, PTL

-----------------------------------------------------------------------------
(* The queue implements the abstract job *)

\* A job whose state, attempts and ledger row stay does not move.
Still(j) == state'[j] = state[j] /\ ledger'[j] = ledger[j]

LEMMA StillMaps ==
  ASSUME NEW j \in Jobs, Still(j)
  PROVE  Phase'[j] = Phase[j] /\ ledger'[j] = ledger[j]
  BY DEF Still, Phase

\* A lease that passes for the last time ends the attempt and the job.
LEMMA RetiredMaps ==
  ASSUME IndInv, NEW j \in Jobs, Retired(j), state'[j] = "terminal",
         ledger'[j] = Closed(ledger[j])
  PROVE  Durable!EndAttempt(j)
<1> USE QueueAssumption
<1>1. Phase[j] = "trying" /\ Phase'[j] = "terminal"
  BY DEF Phase, Retired, Spent
<1>2. attempts[j] \in 1..MaxAttempts /\ ledger[j][attempts[j]] = "open"
  BY DEF IndInv, TypeOK, LedgerAgrees, Retired, Spent
<1>3. Durable!Open(j) # {}
  BY <1>2 DEF Durable!Open
<1>4. ledger'[j] = [m \in 1..MaxAttempts |->
                      IF m \in Durable!Open(j) THEN "lease_expired" ELSE ledger[j][m]]
  BY DEF Closed, Durable!Open
<1> QED  BY <1>1, <1>3, <1>4 DEF Durable!EndAttempt, Durable!Outcomes

\* A claim is the next attempt.
LEMMA ClaimMaps ==
  ASSUME IndInv, NEW w \in Workers, NEW j \in Jobs, ClaimJob(w, j)
  PROVE  Durable!Try(j)
<1> USE QueueAssumption
<1> DEFINE n == attempts[j] + 1
<1>1. n \in 1..MaxAttempts /\ attempts[j] \in Nat
  BY DEF IndInv, TypeOK, ClaimJob
<1>2. Phase[j] \in {"waiting", "trying"} /\ Phase'[j] = "trying"
  BY DEF Phase, ClaimJob, First, Claimable
<1>3. Durable!Begun(j) = 1..(n - 1)
  BY <1>1 DEF IndInv, LedgerAgrees, Durable!Begun
<1>4. ledger'[j] = [m \in 1..MaxAttempts |->
                      IF m = n THEN "open"
                      ELSE IF m \in Durable!Open(j) THEN "lease_expired" ELSE ledger[j][m]]
  <2>1. ledger'[j] = [Closed(ledger[j]) EXCEPT ![n] = "open"]
    BY DEF ClaimJob
  <2> QED  BY <1>1, <2>1 DEF Closed, Durable!Open
<1> QED  BY <1>1, <1>2, <1>3, <1>4 DEF Durable!Try

\* The fenced end of an attempt ends the open one; without the fence it
\* moves nothing.
LEMMA EndMaps ==
  ASSUME IndInv, NEW w \in Workers, NEW s, NEW until, NEW o, NEW j \in Jobs,
         Ends(w, s, until, o),
         \/ o = "completed" /\ s = "complete"
         \/ o \in {"failed", "deferred"} /\ s = "retry_wait"
         \/ o = "failed" /\ s = "terminal"
  PROVE  Durable!EndAttempt(j) \/ Still(j)
<1> USE QueueAssumption
<1>1. CASE Holds(w) /\ j = worker[w].job
  <2>1. /\ worker[w].attempt = attempts[j] /\ attempts[j] \in 1..MaxAttempts
        /\ state[j] = "running" /\ ledger[j][attempts[j]] = "open"
    BY <1>1, HolderRunsLast
  <2>2. ledger \in [Jobs -> [1..MaxAttempts -> Outcomes]] /\ state \in [Jobs -> States]
    BY DEF IndInv, TypeOK
  <2>3. state'[j] = s /\ ledger'[j] = [ledger[j] EXCEPT ![attempts[j]] = o]
    BY <1>1, <2>1, <2>2 DEF Ends
  <2>4. Durable!Open(j) = {attempts[j]}
    BY <2>1 DEF IndInv, LedgerAgrees, Durable!Open
  <2>5. ledger'[j] = [m \in 1..MaxAttempts |->
                        IF m \in Durable!Open(j) THEN o ELSE ledger[j][m]]
    BY <2>1, <2>2, <2>3, <2>4
  <2>6. Phase[j] = "trying"  BY <2>1 DEF Phase
  <2>7. \/ o = "completed" /\ Phase'[j] = "complete"
        \/ o \in {"failed", "deferred"} /\ Phase'[j] = "waiting"
        \/ o \in {"failed", "lease_expired"} /\ Phase'[j] = "terminal"
    BY <2>3 DEF Phase
  <2> QED  BY <2>4, <2>5, <2>6, <2>7 DEF Durable!EndAttempt, Durable!Outcomes
<1>2. CASE ~Holds(w) \/ j # worker[w].job
  BY <1>2 DEF Ends, Still, IndInv, TypeOK
<1> QED  BY <1>1, <1>2

\* Every step of the queue is a step of the abstract jobs.
LEMMA StepMaps == ASSUME IndInv, Next PROVE Durable!Next
<1>0. TypeOK  BY DEF IndInv
<1> SUFFICES ASSUME NEW j \in Jobs PROVE Durable!JobStep(j) \/ Still(j)
  BY StillMaps DEF Durable!Next
<1>1. ASSUME NEW i \in Jobs, JobNext(i) PROVE Durable!Submit(j) \/ Still(j)
  <2>1. ledger' = ledger
    BY <1>1 DEF JobNext, EnqueueJob, RetryJob, LeaseLapses, BackoffElapses, GraceEnds
  <2>2. state'[j] = state[j] \/ (state[j] = "none" /\ state'[j] = "queued")
    BY <1>0, <1>1 DEF JobNext, EnqueueJob, RetryJob, LeaseLapses, BackoffElapses, GraceEnds, TypeOK
  <2> QED  BY <2>1, <2>2 DEF Durable!Submit, Still, Phase
<1>2. ASSUME NEW w \in Workers, ClaimNothing(w) PROVE Durable!EndAttempt(j) \/ Still(j)
  <2>1. CASE Retired(j)   BY <1>2, <2>1, RetiredMaps DEF ClaimNothing
  <2>2. CASE ~Retired(j)  BY <1>2, <2>2 DEF ClaimNothing, Still
  <2> QED  BY <2>1, <2>2
<1>3. ASSUME NEW w \in Workers, NEW i \in Jobs, ClaimJob(w, i)
      PROVE Durable!Try(j) \/ Durable!EndAttempt(j) \/ Still(j)
  <2>1. CASE j = i                   BY <1>3, <2>1, ClaimMaps
  <2>2. CASE j # i /\ Retired(j)     BY <1>3, <2>2, RetiredMaps DEF ClaimJob
  <2>3. CASE j # i /\ ~Retired(j)    BY <1>3, <2>3 DEF ClaimJob, Still
  <2> QED  BY <2>1, <2>2, <2>3
<1>4. ASSUME NEW w \in Workers, AttemptEnds(w) PROVE Durable!EndAttempt(j) \/ Still(j)
  BY <1>4, EndMaps DEF AttemptEnds, CompleteJob, FailJob, RejectJob, DeferJob
<1>5. ASSUME NEW w \in Workers,
             \/ \E i \in Jobs : ClaimRefused(w, i)
             \/ ClaimRolledBack(w) \/ HeartbeatJob(w) \/ WorkerCrashes(w)
      PROVE Still(j)
  BY <1>5 DEF ClaimRefused, ClaimRolledBack, HeartbeatJob, WorkerCrashes, Still
<1> QED
  BY <1>1, <1>2, <1>3, <1>4, <1>5 DEF Next, WorkerNext, ClaimNext, Durable!JobStep

\* With any number of workers, takeovers and late answers, a job is tried one
\* attempt at a time, at most MaxAttempts times, keeps every outcome, and
\* settles once.
THEOREM QueueImplementsDurableJob == Spec => ImplementsDurableJob
<1>1. Init => Durable!Init
  BY DEF Init, Durable!Init, Phase, NoAttempt, Durable!NoAttempt
<1>2. IndInv /\ [Next]_vars => [Durable!Next]_<<Phase, ledger>>
  <2>1. ASSUME UNCHANGED vars PROVE UNCHANGED <<Phase, ledger>>
    BY <2>1 DEF vars, Phase
  <2> QED  BY <2>1, StepMaps
<1> QED  BY <1>1, <1>2, QueueInductive, PTL DEF Spec, ImplementsDurableJob, Durable!Spec

\* The tables and the workers keep their types, whatever a late worker writes:
\* attempts never exceed their limit and no state is unknown to the tables.
THEOREM QueueTyped == Spec => []TypeOK
BY QueueInductive, PTL DEF IndInv
=============================================================================
