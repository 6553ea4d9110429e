----------------------------- MODULE ScrubProofs -----------------------------
(***************************************************************************)
(* The safety of the scrub for any number of payloads and workers.         *)
(***************************************************************************)
EXTENDS Scrub, TLAPS

\* Nothing is quarantined at first.
LEMMA ScrubInit == Init => IndInv
  BY ScrubAssumption DEF Init, IndInv, TypeOK, OnlyDecayQuarantined, QuarantinedOutOfReach,
     WorkerInv, VaultInv, CollectedInv, Objects, Flaws, PayloadStates, Eligible, Settled, NoJob, IdleWorker

WorkerSteps == {"read", "verify", "mark", "move", "settle", "finish"}
WorkerRecord == [step: WorkerSteps, payload: Payloads, attempt: 1..MaxAttempts]
                \cup {IdleWorker}
JobRecord == [state: Settled \cup {"queued", "running"},
              attempts: 0..MaxAttempts, holder: Workers \cup {NoWorker}]

\* The types, with the records named.
LEMMA TypeShape == TypeOK <=>
  /\ pstate \in [Payloads -> PayloadStates]
  /\ object \in [Payloads -> Objects]
  /\ vault \in [Payloads -> Objects]
  /\ recent \in [Payloads -> BOOLEAN]
  /\ job \in [Payloads -> JobRecord]
  /\ worker \in [Workers -> WorkerRecord]
  /\ faults \in 0..MaxCrashes
  BY DEF TypeOK, JobRecord, WorkerRecord, WorkerSteps

\* A worker that is not idle has a payload.
LEMMA Busy ==
  ASSUME TypeOK, NEW w \in Workers, worker[w].step # "idle"
  PROVE  worker[w].payload \in Payloads /\ worker[w].attempt \in 1..MaxAttempts
  BY DEF TypeOK, IdleWorker

\* The update of a job leaves a job, and its worker idle.
LEMMA EndTypes ==
  ASSUME TypeOK, NEW w \in Workers, worker[w].step # "idle",
         NEW s \in Settled \cup {"queued", "running"}, JobEnds(w, s)
  PROVE  job' \in [Payloads -> JobRecord] /\ worker' \in [Workers -> WorkerRecord]
<1>1. job \in [Payloads -> JobRecord] /\ worker \in [Workers -> WorkerRecord]
  BY TypeShape
<1>2. worker' \in [Workers -> WorkerRecord]
  BY <1>1 DEF JobEnds, WorkerRecord
<1>3. worker[w].payload \in Payloads  BY Busy
<1>4. [job[worker[w].payload] EXCEPT !.state = s, !.holder = NoWorker] \in JobRecord
  BY <1>1, <1>3 DEF JobRecord
<1>5. job' = job \/ job' = [job EXCEPT ![worker[w].payload] =
                             [@ EXCEPT !.state = s, !.holder = NoWorker]]
  BY DEF JobEnds
<1> QED  BY <1>1, <1>2, <1>3, <1>4, <1>5

\* A step of the handler leaves a worker.
LEMMA GoTypes ==
  ASSUME TypeOK, NEW w \in Workers, worker[w].step # "idle", NEW s \in WorkerSteps, Goes(w, s)
  PROVE  job' \in [Payloads -> JobRecord] /\ worker' \in [Workers -> WorkerRecord]
<1>1. job \in [Payloads -> JobRecord] /\ worker \in [Workers -> WorkerRecord]
  BY TypeShape
<1>2. worker[w] \in [step: WorkerSteps, payload: Payloads, attempt: 1..MaxAttempts]
  BY <1>1 DEF WorkerRecord, IdleWorker
<1>3. [worker[w] EXCEPT !.step = s] \in WorkerRecord
  BY <1>2 DEF WorkerRecord
<1> QED  BY <1>1, <1>3 DEF Goes

\* Every step keeps the types.
LEMMA ScrubTypes == ASSUME TypeOK, Next PROVE TypeOK'
<1> USE ScrubAssumption
<1>0. /\ pstate \in [Payloads -> PayloadStates]
      /\ object \in [Payloads -> Objects]
      /\ vault \in [Payloads -> Objects]
      /\ recent \in [Payloads -> BOOLEAN]
      /\ job \in [Payloads -> JobRecord]
      /\ worker \in [Workers -> WorkerRecord]
      /\ faults \in 0..MaxCrashes
  BY TypeShape
<1>1. ASSUME NEW p \in Payloads, PayloadNext(p)
      PROVE TypeOK'
  <2>1. CASE Decays(p)  BY <2>1 DEF Decays, TypeOK, Objects, Flaws
  <2>2. ASSUME NEW from, NEW to \in PayloadStates, Moves(p, from, to) PROVE TypeOK'
    BY <2>2 DEF Moves, TypeOK
  <2>3. CASE CommitPayload(p) \/ EnqueueOrphan(p) \/ AdmitDeletion(p) \/ CompleteDeletion(p)
    BY <2>2, <2>3 DEF CommitPayload, EnqueueOrphan, AdmitDeletion, CompleteDeletion,
       PayloadStates, Eligible
  <2>4. CASE DeleteObject(p)  BY <2>4 DEF DeleteObject, TypeOK, Objects
  <2>5. CASE IntervalPasses(p)  BY <2>5 DEF IntervalPasses, TypeOK
  <2>6. ASSUME NewJob(p) PROVE TypeOK'
    <3>1. [NoJob EXCEPT !.state = "queued"] \in JobRecord
      BY DEF NoJob, JobRecord
    <3>2. job' \in [Payloads -> JobRecord]  BY <1>0, <2>6, <3>1 DEF NewJob
    <3> QED  BY <2>6, <3>2 DEF NewJob, TypeOK, JobRecord
  <2>7. CASE EnqueueScrub(p) \/ StartScrub(p)
    BY <2>6, <2>7 DEF EnqueueScrub, StartScrub
  <2>8. CASE RetireScrub(p)
    <3>1. [job[p] EXCEPT !.state = "terminal", !.holder = NoWorker] \in JobRecord
      BY <1>0 DEF JobRecord, Settled
    <3>2. job' \in [Payloads -> JobRecord]  BY <1>0, <2>8, <3>1 DEF RetireScrub
    <3> QED  BY <2>8, <3>2 DEF RetireScrub, TypeOK, JobRecord
  <2> QED  BY <1>1, <2>1, <2>3, <2>4, <2>5, <2>7, <2>8 DEF PayloadNext
<1>2. ASSUME NEW w \in Workers, NEW p \in Payloads, ClaimScrub(w, p) PROVE TypeOK'
  <2>1. job[p].attempts + 1 \in 1..MaxAttempts
    BY <1>0, <1>2 DEF ClaimScrub, JobRecord
  <2>2. job' \in [Payloads -> JobRecord]
    BY <1>0, <1>2, <2>1 DEF ClaimScrub, JobRecord
  <2>3. worker' \in [Workers -> WorkerRecord]
    BY <1>0, <1>2, <2>1 DEF ClaimScrub, WorkerRecord, WorkerSteps
  <2> QED  BY <1>2, <2>2, <2>3 DEF ClaimScrub, TypeOK, JobRecord, WorkerRecord, WorkerSteps
<1>3. ASSUME NEW w \in Workers, Fails(w), worker[w].step # "idle"
      PROVE job' \in [Payloads -> JobRecord] /\ worker' \in [Workers -> WorkerRecord]
  BY <1>3, EndTypes DEF Fails, Settled
<1>4. ASSUME NEW w \in Workers, Rejects(w), worker[w].step # "idle"
      PROVE job' \in [Payloads -> JobRecord] /\ worker' \in [Workers -> WorkerRecord]
  BY <1>4, EndTypes DEF Rejects, Settled
<1>5. ASSUME NEW w \in Workers, ScrubStep(w)
      PROVE job' \in [Payloads -> JobRecord] /\ worker' \in [Workers -> WorkerRecord]
  <2>1. worker[w].step # "idle"
    BY <1>5 DEF ScrubStep, ReadPayload, VerifyObject, MarkQuarantining, MoveObject,
       SettleQuarantine, CompleteScrub, At
  <2>2. \/ Fails(w) \/ Rejects(w) \/ JobEnds(w, "complete")
        \/ \E s \in WorkerSteps : Goes(w, s)
    BY <1>5 DEF ScrubStep, ReadPayload, VerifyObject, MarkQuarantining, MoveObject,
       SettleQuarantine, CompleteScrub, WorkerSteps
  <2> QED  BY <1>3, <1>4, <2>1, <2>2, EndTypes, GoTypes DEF Settled
<1>6. ASSUME NEW w \in Workers, ScrubStep(w)
      PROVE /\ pstate' \in [Payloads -> PayloadStates]
            /\ object' \in [Payloads -> Objects]
            /\ vault' \in [Payloads -> Objects]
            /\ recent' = recent /\ faults' = faults
  <2>1. CASE ReadPayload(w) \/ VerifyObject(w) \/ CompleteScrub(w)
    BY <1>0, <2>1 DEF ReadPayload, VerifyObject, CompleteScrub
  <2>2. CASE MarkQuarantining(w)
    BY <1>0, <2>2 DEF MarkQuarantining, PayloadStates
  <2>3. CASE MoveObject(w)
    <3>1. worker[w].payload \in Payloads  BY <2>3, Busy DEF MoveObject, At
    <3> QED  BY <1>0, <2>3, <3>1 DEF MoveObject, Objects, Flaws
  <2>4. CASE SettleQuarantine(w)
    BY <1>0, <2>4 DEF SettleQuarantine, PayloadStates
  <2> QED  BY <1>6, <2>1, <2>2, <2>3, <2>4 DEF ScrubStep
<1>7. ASSUME NEW w \in Workers, ScrubStep(w) PROVE TypeOK'
  BY <1>0, <1>5, <1>6, <1>7 DEF TypeOK, JobRecord, WorkerRecord, WorkerSteps
<1>8. ASSUME NEW w \in Workers, ScrubFails(w) PROVE TypeOK'
  BY <1>0, <1>3, <1>8 DEF ScrubFails, TypeOK, JobRecord, WorkerRecord, WorkerSteps
<1>9. ASSUME NEW w \in Workers, WorkerCrashes(w) PROVE TypeOK'
  BY <1>0, <1>9 DEF WorkerCrashes, TypeOK
<1> QED  BY <1>1, <1>2, <1>7, <1>8, <1>9 DEF Next, WorkerNext

\* What the payloads show, without the types.
Facts == /\ OnlyDecayQuarantined /\ QuarantinedOutOfReach
         /\ WorkerInv /\ VaultInv /\ CollectedInv

\* A worker that stops or moves on without a claim on the payload asks nothing.
LEMMA WorkerStops ==
  ASSUME TypeOK, Facts, NEW w \in Workers, NEW r,
         worker' = [worker EXCEPT ![w] = r],
         r.step \in {"idle", "read", "verify", "finish"},
         UNCHANGED <<pstate, object, vault>>
  PROVE  Facts'
<1>1. \A v \in Workers : worker'[v] = IF v = w THEN r ELSE worker[v]
  BY DEF TypeOK
<1>2. WorkerInv'
  BY <1>1 DEF Facts, WorkerInv
<1> QED  BY <1>2 DEF Facts, OnlyDecayQuarantined, QuarantinedOutOfReach, VaultInv, CollectedInv

\* The end of an attempt is such a stop.
LEMMA EndsFacts ==
  ASSUME TypeOK, Facts, NEW w \in Workers, NEW s, JobEnds(w, s),
         UNCHANGED <<pstate, object, vault>>
  PROVE  Facts'
  BY WorkerStops DEF JobEnds, IdleWorker

\* The others, and the disk, keep the facts: they touch no quarantined row and
\* decay only damages.
LEMMA OthersKeep ==
  ASSUME TypeOK, Facts, NEW p \in Payloads, PayloadNext(p)
  PROVE  Facts'
<1> USE ScrubAssumption
<1>1. CASE Decays(p)
  <2>1. PICK flaw \in Damage : object' = [object EXCEPT ![p] = flaw]
    BY <1>1 DEF Decays
  <2>2. flaw \notin {"good", "collected"}  BY DEF Flaws
  <2>3. \A q \in Payloads : object'[q] = IF q = p THEN flaw ELSE object[q]
    BY <2>1 DEF TypeOK
  <2>4. UNCHANGED <<pstate, vault, worker>> /\ object[p] = "good"
    BY <1>1 DEF Decays
  <2>5. OnlyDecayQuarantined' /\ QuarantinedOutOfReach'
    BY <2>2, <2>3, <2>4 DEF Facts, OnlyDecayQuarantined, QuarantinedOutOfReach
  <2>6. \A w \in Workers : worker[w].step # "idle" => worker[w].payload \in Payloads
    BY Busy
  <2>7. WorkerInv'
    BY <2>2, <2>3, <2>4, <2>6 DEF Facts, WorkerInv
  <2>8. CollectedInv'
    BY <2>2, <2>3, <2>4 DEF Facts, CollectedInv
  <2> QED  BY <2>4, <2>5, <2>7, <2>8 DEF Facts, VaultInv
<1>2. ASSUME NEW from \in PayloadStates \ Quarantine, NEW to \in PayloadStates \ Quarantine,
             from \in {"deleting", "deleted"} => to \in {"deleting", "deleted"},
             Moves(p, from, to)
      PROVE Facts'
  <2>1. \A q \in Payloads : pstate'[q] = IF q = p THEN to ELSE pstate[q]
    BY <1>2 DEF Moves, TypeOK
  <2>2. UNCHANGED <<object, vault, worker>> /\ pstate[p] \notin Quarantine
    BY <1>2 DEF Moves
  <2>3. OnlyDecayQuarantined' /\ QuarantinedOutOfReach'
    BY <1>2, <2>1, <2>2 DEF Facts, OnlyDecayQuarantined, QuarantinedOutOfReach, Quarantine
  <2>4. \A w \in Workers : worker[w].step # "idle" => worker[w].payload \in Payloads
    BY Busy
  <2>5. WorkerInv'
    BY <2>1, <2>2, <2>4 DEF Facts, WorkerInv
  <2>6. CollectedInv'
    BY <1>2, <2>1, <2>2 DEF Facts, CollectedInv, Moves
  <2> QED  BY <2>2, <2>3, <2>5, <2>6 DEF Facts, VaultInv
<1>3. CASE CommitPayload(p) \/ EnqueueOrphan(p) \/ AdmitDeletion(p) \/ CompleteDeletion(p)
  BY <1>2, <1>3 DEF CommitPayload, EnqueueOrphan, AdmitDeletion, CompleteDeletion,
     PayloadStates, Eligible, Quarantine
<1>4. CASE DeleteObject(p)
  <2>1. \A q \in Payloads : object'[q] = IF q = p THEN "collected" ELSE object[q]
    BY <1>4 DEF DeleteObject, TypeOK
  <2>2. UNCHANGED <<pstate, vault, worker>> /\ pstate[p] = "deleting" /\ object[p] \notin Gone
    BY <1>4 DEF DeleteObject
  <2>3. OnlyDecayQuarantined' /\ QuarantinedOutOfReach'
    BY <2>1, <2>2 DEF Facts, OnlyDecayQuarantined, QuarantinedOutOfReach
  <2>4. \A w \in Workers : worker[w].step # "idle" => worker[w].payload \in Payloads
    BY Busy
  <2>5. WorkerInv'
    BY <2>1, <2>2, <2>4 DEF Facts, WorkerInv, Gone
  <2>6. CollectedInv'
    BY <2>1, <2>2 DEF Facts, CollectedInv
  <2> QED  BY <2>2, <2>3, <2>5, <2>6 DEF Facts, VaultInv
<1>5. ASSUME UNCHANGED <<pstate, object, vault, worker>> PROVE Facts'
  BY <1>5 DEF Facts, OnlyDecayQuarantined, QuarantinedOutOfReach, WorkerInv, VaultInv,
     CollectedInv
<1>6. CASE IntervalPasses(p) \/ EnqueueScrub(p) \/ StartScrub(p) \/ RetireScrub(p)
  BY <1>5, <1>6 DEF IntervalPasses, EnqueueScrub, StartScrub, NewJob, RetireScrub
<1> QED  BY <1>1, <1>3, <1>4, <1>6 DEF PayloadNext

\* The row leaves service only for an object that was found damaged.
LEMMA MarkKeeps ==
  ASSUME TypeOK, Facts, NEW w \in Workers, MarkQuarantining(w)
  PROVE  Facts'
<1>1. worker[w].payload \in Payloads  BY Busy DEF MarkQuarantining, At
<1> DEFINE p == worker[w].payload
<1>2. CASE pstate[p] \in Eligible
  <2>1. \A q \in Payloads : pstate'[q] = IF q = p THEN "quarantining" ELSE pstate[q]
    BY <1>2 DEF MarkQuarantining, TypeOK
  <2>2. \A v \in Workers : worker'[v] = IF v = w THEN [worker[w] EXCEPT !.step = "move"]
                                        ELSE worker[v]
    BY <1>2 DEF MarkQuarantining, Goes, TypeOK
  <2>3. UNCHANGED <<object, vault>> /\ object[p] \notin {"good", "collected"}
    BY <1>1, <1>2 DEF MarkQuarantining, At, Facts, WorkerInv, CollectedInv, Eligible
  <2>4. OnlyDecayQuarantined' /\ QuarantinedOutOfReach'
    BY <1>1, <2>1, <2>3 DEF Facts, OnlyDecayQuarantined, QuarantinedOutOfReach, VaultInv
  <2>5. worker'[w].step = "move" /\ worker'[w].payload = p
    BY <1>1, <2>2 DEF TypeOK, IdleWorker, MarkQuarantining, At
  <2>6. \A v \in Workers : worker[v].step # "idle" => worker[v].payload \in Payloads
    BY Busy
  <2>7. WorkerInv'
    BY <1>1, <2>1, <2>2, <2>3, <2>5, <2>6 DEF Facts, WorkerInv, Quarantine
  <2>8. CollectedInv'
    BY <1>1, <2>1, <2>3 DEF Facts, CollectedInv
  <2> QED  BY <2>3, <2>4, <2>7, <2>8 DEF Facts, VaultInv
<1>3. CASE pstate[p] \notin Eligible
  BY <1>3, EndsFacts DEF MarkQuarantining, Rejects
<1> QED  BY <1>2, <1>3

\* The rename takes the damaged object out of reach.
LEMMA MoveKeeps ==
  ASSUME TypeOK, Facts, NEW w \in Workers, MoveObject(w)
  PROVE  Facts'
<1>1. worker[w].payload \in Payloads  BY Busy DEF MoveObject, At
<1> DEFINE p == worker[w].payload
<1>2. /\ pstate[p] \in Quarantine /\ UNCHANGED pstate
      /\ object[p] \notin {"good", "collected"} /\ vault[p] \notin {"good", "collected"}
  BY <1>1 DEF MoveObject, At, Facts, WorkerInv, OnlyDecayQuarantined, VaultInv, Quarantine
<1>3. ASSUME Goes(w, "settle"), object'[p] = "missing", vault'[p] \notin {"good", "collected"},
             \A q \in Payloads : q # p => object'[q] = object[q] /\ vault'[q] = vault[q]
      PROVE Facts'
  <2>1. \A v \in Workers : worker'[v] = IF v = w THEN [worker[w] EXCEPT !.step = "settle"]
                                        ELSE worker[v]
    BY <1>3 DEF Goes, TypeOK
  <2>2. worker'[w].step = "settle" /\ worker'[w].payload = p
    BY <1>1, <2>1 DEF TypeOK, IdleWorker, MoveObject, At
  <2>3. \A v \in Workers : worker[v].step # "idle" => worker[v].payload \in Payloads
    BY Busy
  <2>4. OnlyDecayQuarantined' /\ QuarantinedOutOfReach' /\ VaultInv'
    BY <1>1, <1>2, <1>3 DEF Facts, OnlyDecayQuarantined, QuarantinedOutOfReach, VaultInv
  <2>5. WorkerInv'
    BY <1>1, <1>2, <1>3, <2>1, <2>2, <2>3 DEF Facts, WorkerInv, Quarantine
  <2>6. CollectedInv'
    BY <1>1, <1>2, <1>3 DEF Facts, CollectedInv
  <2> QED  BY <2>4, <2>5, <2>6 DEF Facts
<1>4. CASE Fails(w) /\ UNCHANGED <<object, vault>>
  BY <1>2, <1>4, EndsFacts DEF Fails
<1>5. CASE Goes(w, "settle") /\ UNCHANGED <<object, vault>> /\ object[p] = "missing"
  BY <1>1, <1>2, <1>3, <1>5
<1>6. CASE /\ Goes(w, "settle")
           /\ vault' = [vault EXCEPT ![p] = object[p]]
           /\ object' = [object EXCEPT ![p] = "missing"]
  BY <1>1, <1>2, <1>3, <1>6 DEF TypeOK
<1> QED  BY <1>2, <1>4, <1>5, <1>6 DEF MoveObject, Gone

\* The row follows the rename.
LEMMA SettleKeeps ==
  ASSUME TypeOK, Facts, NEW w \in Workers, SettleQuarantine(w)
  PROVE  Facts'
<1>1. worker[w].payload \in Payloads  BY Busy DEF SettleQuarantine, At
<1> DEFINE p == worker[w].payload
<1>2. pstate[p] \in Quarantine /\ object[p] = "missing" /\ UNCHANGED <<object, vault>>
  BY DEF SettleQuarantine, At, Facts, WorkerInv
<1>3. pstate' = [pstate EXCEPT ![p] = "quarantined"] /\ Goes(w, "finish")
  BY <1>2 DEF SettleQuarantine, Quarantine
<1>4. \A q \in Payloads : pstate'[q] = IF q = p THEN "quarantined" ELSE pstate[q]
  BY <1>3 DEF TypeOK
<1>5. \A v \in Workers : worker'[v] = IF v = w THEN [worker[w] EXCEPT !.step = "finish"]
                                      ELSE worker[v]
  BY <1>3 DEF Goes, TypeOK
<1>6. worker'[w].step = "finish"
  BY <1>1, <1>5 DEF TypeOK, IdleWorker, SettleQuarantine, At
<1>7. \A v \in Workers : worker[v].step # "idle" => worker[v].payload \in Payloads
  BY Busy
<1>8. OnlyDecayQuarantined' /\ QuarantinedOutOfReach' /\ VaultInv'
  BY <1>1, <1>2, <1>4 DEF Facts, OnlyDecayQuarantined, QuarantinedOutOfReach, VaultInv, Quarantine
<1>9. WorkerInv'
  BY <1>2, <1>4, <1>5, <1>6, <1>7 DEF Facts, WorkerInv, Quarantine
<1>10. CollectedInv'
  BY <1>2, <1>4 DEF Facts, CollectedInv, Quarantine
<1> QED  BY <1>8, <1>9, <1>10 DEF Facts

\* Reading and hashing decide what the worker does next and change nothing.
LEMMA LookKeeps ==
  ASSUME TypeOK, Facts, NEW w \in Workers, ReadPayload(w) \/ VerifyObject(w)
  PROVE  Facts'
<1>1. worker[w].payload \in Payloads  BY Busy DEF ReadPayload, VerifyObject, At
<1> DEFINE p == worker[w].payload
<1>2. UNCHANGED <<pstate, object, vault>>  BY DEF ReadPayload, VerifyObject
<1>3. CASE \E s : JobEnds(w, s)
  BY <1>2, <1>3, EndsFacts
<1>4. ASSUME NEW s \in WorkerSteps, Goes(w, s), s # "settle",
             s = "mark" => object[p] # "good",
             s = "move" => pstate[p] \in Quarantine
      PROVE Facts'
  <2>1. \A v \in Workers : worker'[v] = IF v = w THEN [worker[w] EXCEPT !.step = s]
                                        ELSE worker[v]
    BY <1>4 DEF Goes, TypeOK
  <2>2. worker'[w].step = s /\ worker'[w].payload = p
    BY <1>1, <2>1 DEF TypeOK, IdleWorker, ReadPayload, VerifyObject, At
  <2>3. WorkerInv'
    BY <1>2, <1>4, <2>1, <2>2 DEF Facts, WorkerInv
  <2> QED
    BY <1>2, <2>3 DEF Facts, OnlyDecayQuarantined, QuarantinedOutOfReach, VaultInv, CollectedInv
<1>5. CASE ReadPayload(w)
  BY <1>3, <1>4, <1>5 DEF ReadPayload, Fails, Rejects, WorkerSteps, Quarantine
<1>6. CASE VerifyObject(w)
  BY <1>4, <1>6 DEF VerifyObject, WorkerSteps
<1> QED  BY <1>5, <1>6

\* Every step keeps the facts.
LEMMA StepKeeps == ASSUME TypeOK, Facts, Next PROVE Facts'
<1>1. ASSUME NEW w \in Workers, NEW p \in Payloads, ClaimScrub(w, p) PROVE Facts'
  BY <1>1, WorkerStops DEF ClaimScrub
<1>2. ASSUME NEW w \in Workers, ScrubStep(w) PROVE Facts'
  <2>1. CASE CompleteScrub(w)  BY <2>1, EndsFacts DEF CompleteScrub
  <2> QED  BY <1>2, <2>1, LookKeeps, MarkKeeps, MoveKeeps, SettleKeeps DEF ScrubStep
<1>3. ASSUME NEW w \in Workers, ScrubFails(w) PROVE Facts'
  BY <1>3, EndsFacts DEF ScrubFails, Fails
<1>4. ASSUME NEW w \in Workers, WorkerCrashes(w) PROVE Facts'
  BY <1>4, WorkerStops DEF WorkerCrashes, IdleWorker
<1> QED  BY <1>1, <1>2, <1>3, <1>4, OthersKeep DEF Next, WorkerNext

\* The inductive invariant of the scrub.
THEOREM ScrubInductive == Spec => []IndInv
<1>1. IndInv <=> TypeOK /\ Facts  BY DEF IndInv, Facts
<1>2. ASSUME IndInv, UNCHANGED vars PROVE IndInv'
  BY <1>2 DEF IndInv, TypeOK, OnlyDecayQuarantined, QuarantinedOutOfReach, WorkerInv, VaultInv,
     CollectedInv, vars
<1>3. IndInv /\ [Next]_vars => IndInv'
  <2>1. ASSUME IndInv, Next PROVE IndInv'
    <3>1. TypeOK' /\ Facts'  BY <1>1, <2>1, ScrubTypes, StepKeeps
    <3> QED  BY <3>1 DEF IndInv, Facts
  <2> QED  BY <1>2, <2>1
<1> QED  BY ScrubInit, <1>3, PTL DEF Spec

\* A healthy payload is never quarantined, whatever scrubs, commits and
\* deletions interleave.
THEOREM OnlyDecayEverQuarantined == Spec => []OnlyDecayQuarantined
<1>1. IndInv => OnlyDecayQuarantined  BY DEF IndInv
<1> QED  BY <1>1, ScrubInductive, PTL

\* A quarantined row's object is out of reach of reads.
THEOREM QuarantinedAlwaysOutOfReach == Spec => []QuarantinedOutOfReach
<1>1. IndInv => QuarantinedOutOfReach  BY DEF IndInv
<1> QED  BY <1>1, ScrubInductive, PTL

\* One payload's part of EvidencePreserved.
Kept(p) == pstate[p] \in {"quarantining", "quarantined"} =>
  /\ pstate'[p] \in {"quarantining", "quarantined"}
  /\ "corrupt" \in {object[p], vault[p]} => "corrupt" \in {object'[p], vault'[p]}

\* No step loses the evidence of a payload that is being quarantined.
LEMMA StepPreserves == ASSUME IndInv, Next, NEW p \in Payloads PROVE Kept(p)
<1>0. TypeOK /\ OnlyDecayQuarantined  BY DEF IndInv
<1>1. ASSUME UNCHANGED <<pstate, object, vault>> PROVE Kept(p)
  BY <1>1 DEF Kept
<1>2. ASSUME NEW q \in Payloads, PayloadNext(q) PROVE Kept(p)
  <2>1. CASE Decays(q)
    BY <1>0, <2>1 DEF Decays, Kept, OnlyDecayQuarantined, TypeOK
  <2>2. CASE CommitPayload(q) \/ EnqueueOrphan(q) \/ AdmitDeletion(q) \/ CompleteDeletion(q)
    BY <1>0, <2>2 DEF CommitPayload, EnqueueOrphan, AdmitDeletion, CompleteDeletion, Moves, Kept, TypeOK
  <2>3. CASE DeleteObject(q)
    BY <1>0, <2>3 DEF DeleteObject, Kept, TypeOK
  <2>4. CASE IntervalPasses(q) \/ EnqueueScrub(q) \/ StartScrub(q) \/ RetireScrub(q)
    BY <1>1, <2>4 DEF IntervalPasses, EnqueueScrub, StartScrub, NewJob, RetireScrub
  <2> QED  BY <1>2, <2>1, <2>2, <2>3, <2>4 DEF PayloadNext
<1>3. ASSUME NEW w \in Workers, WorkerNext(w) PROVE Kept(p)
  <2>1. CASE MarkQuarantining(w)
    BY <1>0, <2>1 DEF MarkQuarantining, Kept, TypeOK, Eligible
  <2>2. CASE MoveObject(w)
    <3>1. worker[w].payload \in Payloads  BY <1>0, <2>2, Busy DEF MoveObject, At
    <3> QED  BY <1>0, <2>2, <3>1 DEF MoveObject, Kept, TypeOK
  <2>3. CASE SettleQuarantine(w)
    BY <1>0, <2>3 DEF SettleQuarantine, Kept, TypeOK
  <2>4. CASE \/ \E q \in Payloads : ClaimScrub(w, q)
             \/ ReadPayload(w) \/ VerifyObject(w) \/ CompleteScrub(w)
             \/ ScrubFails(w) \/ WorkerCrashes(w)
    BY <1>1, <2>4 DEF ClaimScrub, ReadPayload, VerifyObject, CompleteScrub, ScrubFails, WorkerCrashes
  <2> QED  BY <1>3, <2>1, <2>2, <2>3, <2>4 DEF WorkerNext, ScrubStep
<1> QED  BY <1>2, <1>3 DEF Next

\* Quarantine is final and its evidence stays, under any interleaving and any
\* crash.
THEOREM EvidenceAlwaysPreserved == Spec => EvidencePreserved
<1>1. ASSUME IndInv, [Next]_vars
      PROVE [\A p \in Payloads : pstate[p] \in {"quarantining", "quarantined"} =>
               /\ pstate'[p] \in {"quarantining", "quarantined"}
               /\ "corrupt" \in {object[p], vault[p]} =>
                    "corrupt" \in {object'[p], vault'[p]}]_vars
  BY <1>1, StepPreserves DEF Kept
<1> QED  BY <1>1, ScrubInductive, PTL DEF Spec, EvidencePreserved

\* The rows, the files and the workers keep their types: no step leaves a job
\* or a payload in a state that the tables do not know.
THEOREM ScrubTyped == Spec => []TypeOK
BY ScrubInductive, PTL DEF IndInv
==============================================================================
