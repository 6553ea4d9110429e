-------------------------------- MODULE Scrub --------------------------------
(***************************************************************************)
(* The scrub of payloads against a decaying disk: periodic and operator    *)
(* scrub jobs, the workers that verify an object and quarantine it, and    *)
(* the two others who move the same row meanwhile, the commit that         *)
(* references a finalized payload and the collector that deletes it.       *)
(*                                                                         *)
(* A worker reads the payload's row, hashes the object, updates the row,   *)
(* renames the object and updates the row again: five steps that others    *)
(* interleave with and that a crash may cut anywhere.  A job is the job of *)
(* module JobQueue, reduced to what the scrub needs of it; the jobs of one *)
(* payload's successive periods are one slot, filled again once settled.   *)
(***************************************************************************)
EXTENDS Naturals, FiniteSets

CONSTANTS
  Payloads,
  Owned,        \* payloads that an upload_sessions row owns
  Workers,      \* maintenance workers
  Damage,       \* what decay may make of an object: a subset of Flaws
  MaxAttempts,  \* attempts of a durable job, 8 in the code
  MaxCrashes,   \* bound on the workers' crashes and failed calls
  NoPayload, NoWorker

\* An object may hold other bytes, be gone, or have lost its mode, owner or
\* file type (UnsafeObject).
Flaws == {"corrupt", "missing", "unsafe"}

\* An object the collector has removed is no less gone than a lost one; only
\* the properties tell them apart.
Gone == {"missing", "collected"}
Objects == {"good", "collected"} \cup Flaws

ASSUME ScrubAssumption ==
  /\ Owned \subseteq Payloads
  /\ Damage \subseteq Flaws
  /\ MaxAttempts \in Nat \ {0} /\ MaxCrashes \in Nat
  /\ NoPayload \notin Payloads /\ NoWorker \notin Workers

VARIABLES
  pstate,    \* payload_objects.state
  object,    \* what is at the payload's path
  vault,     \* what is at its path in the quarantine area
  recent,    \* was a scrub job created within the scrub interval?
  job,       \* the payload's scrub job
  worker,    \* the workers and what they scrub
  faults     \* crashes and failed calls so far

vars == <<pstate, object, vault, recent, job, worker, faults>>

Eligible == {"referenced", "finalized"}
PayloadStates == Eligible \cup {"delete_intent", "deleting", "deleted",
                                "quarantining", "quarantined"}
NoJob == [state |-> "none", attempts |-> 0, holder |-> NoWorker]
Settled == {"none", "complete", "terminal"}
IdleWorker == [step |-> "idle", payload |-> NoPayload, attempt |-> 0]

TypeOK ==
  /\ pstate \in [Payloads -> PayloadStates]
  /\ object \in [Payloads -> Objects]
  /\ vault \in [Payloads -> Objects]
  /\ recent \in [Payloads -> BOOLEAN]
  /\ job \in [Payloads -> [state: Settled \cup {"queued", "running"},
                           attempts: 0..MaxAttempts, holder: Workers \cup {NoWorker}]]
  /\ worker \in [Workers ->
       [step: {"read", "verify", "mark", "move", "settle", "finish"},
        payload: Payloads, attempt: 1..MaxAttempts] \cup {IdleWorker}]
  /\ faults \in 0..MaxCrashes

\* Payloads of uploads are finalized or referenced; those of document saves
\* and mounts, which have no upload session, are referenced.
Init ==
  /\ pstate \in [Payloads -> Eligible]
  /\ \A p \in Payloads \ Owned : pstate[p] = "referenced"
  /\ object = [p \in Payloads |-> "good"]
  /\ vault = [p \in Payloads |-> "missing"]
  /\ recent = [p \in Payloads |-> FALSE]
  /\ job = [p \in Payloads |-> NoJob]
  /\ worker = [w \in Workers |-> IdleWorker]
  /\ faults = 0

-----------------------------------------------------------------------------
(* The others *)

\* The disk decays.
Decays(p) ==
  /\ object[p] = "good"
  /\ \E flaw \in Damage : object' = [object EXCEPT ![p] = flaw]
  /\ UNCHANGED <<pstate, vault, recent, job, worker, faults>>

\* A row changes its state, if it still has the one the statement asks for.
Moves(p, from, to) ==
  /\ pstate[p] = from
  /\ pstate' = [pstate EXCEPT ![p] = to]
  /\ UNCHANGED <<object, vault, recent, job, worker, faults>>

CommitPayload(p) == p \in Owned /\ Moves(p, "finalized", "referenced")
EnqueueOrphan(p) == p \in Owned /\ Moves(p, "finalized", "delete_intent")

\* Mutation: the collector takes a quarantined payload.
AdmitQuarantined(p) == Moves(p, "quarantined", "deleting")

AdmitDeletion(p) == Moves(p, "delete_intent", "deleting")

\* StorageLayout::delete_payload; it refuses an object of the wrong kind.
DeleteObject(p) ==
  /\ pstate[p] = "deleting" /\ object[p] \notin Gone \cup {"unsafe"}
  /\ object' = [object EXCEPT ![p] = "collected"]
  /\ UNCHANGED <<pstate, vault, recent, job, worker, faults>>

CompleteDeletion(p) == object[p] \in Gone /\ Moves(p, "deleting", "deleted")

-----------------------------------------------------------------------------
(* Scrub jobs appear *)

IntervalPasses(p) ==
  /\ recent[p]
  /\ recent' = [recent EXCEPT ![p] = FALSE]
  /\ UNCHANGED <<pstate, object, vault, job, worker, faults>>

NewJob(p) ==
  /\ pstate[p] \in Eligible /\ job[p].state \in Settled
  /\ job' = [job EXCEPT ![p] = [NoJob EXCEPT !.state = "queued"]]
  /\ recent' = [recent EXCEPT ![p] = TRUE]
  /\ UNCHANGED <<pstate, object, vault, worker, faults>>

\* Mutation: referenced payloads are not scheduled.
EnqueueFinalizedOnly(p) == pstate[p] = "finalized" /\ ~recent[p] /\ NewJob(p)

\* enqueue_scrub_jobs, in every reconcile pass.
EnqueueScrub(p) == ~recent[p] /\ NewJob(p)

\* filebeltctl scrub start does not wait for the interval.
StartScrub(p) == recent[p] /\ NewJob(p)

-----------------------------------------------------------------------------
(* claim_job and the ends of an attempt, as module JobQueue has them *)

\* A waiting job, or a running one whose lease has passed.
ClaimScrub(w, p) ==
  /\ worker[w].step = "idle"
  /\ job[p].state \in {"queued", "running"} /\ job[p].attempts < MaxAttempts
  /\ job' = [job EXCEPT ![p] = [state |-> "running", attempts |-> @.attempts + 1,
                                holder |-> w]]
  /\ worker' = [worker EXCEPT ![w] = [step |-> "read", payload |-> p,
                                      attempt |-> job[p].attempts + 1]]
  /\ UNCHANGED <<pstate, object, vault, recent, faults>>

RetireScrub(p) ==
  /\ job[p].state = "running" /\ job[p].attempts >= MaxAttempts
  /\ job' = [job EXCEPT ![p].state = "terminal", ![p].holder = NoWorker]
  /\ UNCHANGED <<pstate, object, vault, recent, worker, faults>>

HoldsScrub(w) ==
  LET p == worker[w].payload IN
  job[p].holder = w /\ job[p].attempts = worker[w].attempt

\* The fenced update of the job by the worker that ran it.
JobEnds(w, s) ==
  LET p == worker[w].payload IN
  /\ job' = IF HoldsScrub(w)
            THEN [job EXCEPT ![p].state = s, ![p].holder = NoWorker] ELSE job
  /\ worker' = [worker EXCEPT ![w] = IdleWorker]

\* fail_job; a waiting retry counts as queued.
Fails(w) == JobEnds(w, IF worker[w].attempt < MaxAttempts THEN "queued" ELSE "terminal")
Rejects(w) == JobEnds(w, "terminal")

-----------------------------------------------------------------------------
(* scrub_payload *)

At(w, s) == worker[w].step = s
Goes(w, s) == worker' = [worker EXCEPT ![w].step = s] /\ UNCHANGED job

\* Mutation: an interrupted quarantine is refused instead of resumed.
ReadPayloadNoResume(w) ==
  LET p == worker[w].payload IN
  /\ At(w, "read")
  /\ \/ pstate[p] = "quarantined" /\ Goes(w, "finish")
     \/ pstate[p] \in Eligible /\ p \in Owned /\ Goes(w, "verify")
     \/ pstate[p] \in Eligible /\ p \notin Owned /\ Fails(w)
     \/ pstate[p] \notin Eligible \cup {"quarantined"} /\ Rejects(w)
  /\ UNCHANGED <<pstate, object, vault, recent, faults>>

\* The row decides: done, resume an interrupted quarantine, verify, or refuse.
\* Only a payload that an upload owns can be verified.
ReadPayload(w) ==
  LET p == worker[w].payload IN
  /\ At(w, "read")
  /\ \/ pstate[p] = "quarantined" /\ Goes(w, "finish")
     \/ pstate[p] = "quarantining" /\ Goes(w, "move")
     \/ pstate[p] \in Eligible /\ p \in Owned /\ Goes(w, "verify")
     \/ pstate[p] \in Eligible /\ p \notin Owned /\ Fails(w)
     \/ pstate[p] \in {"delete_intent", "deleting", "deleted"} /\ Rejects(w)
  /\ UNCHANGED <<pstate, object, vault, recent, faults>>

\* verify_finalized: an object that is not as recorded leads to quarantine.
VerifyObject(w) ==
  /\ At(w, "verify")
  /\ Goes(w, IF object[worker[w].payload] = "good" THEN "finish" ELSE "mark")
  /\ UNCHANGED <<pstate, object, vault, recent, faults>>

\* Mutation: the row is marked whatever its state has become.
MarkAnyState(w) ==
  /\ At(w, "mark")
  /\ pstate' = [pstate EXCEPT ![worker[w].payload] = "quarantining"]
  /\ Goes(w, "move")
  /\ UNCHANGED <<object, vault, recent, faults>>

\* Mutation: the row is settled before the object is moved.
MarkThenSettle(w) ==
  /\ At(w, "mark") /\ pstate[worker[w].payload] \in Eligible
  /\ pstate' = [pstate EXCEPT ![worker[w].payload] = "quarantining"]
  /\ Goes(w, "settle")
  /\ UNCHANGED <<object, vault, recent, faults>>

\* UPDATE ... WHERE state IN ('referenced','finalized')
MarkQuarantining(w) ==
  LET p == worker[w].payload IN
  /\ At(w, "mark")
  /\ \/ /\ pstate[p] \in Eligible
        /\ pstate' = [pstate EXCEPT ![p] = "quarantining"]
        /\ Goes(w, "move")
     \/ pstate[p] \notin Eligible /\ Rejects(w) /\ UNCHANGED pstate
  /\ UNCHANGED <<object, vault, recent, faults>>

\* quarantine_payload: finds the move done, does it, or finds nothing to move;
\* an object of the wrong kind, or one in both places, is refused.
MoveObject(w) ==
  LET p == worker[w].payload IN
  /\ At(w, "move")
  /\ \/ /\ object[p] \in Gone /\ vault[p] # "unsafe"
        /\ Goes(w, "settle") /\ UNCHANGED <<object, vault>>
     \/ /\ object[p] \notin Gone \cup {"unsafe"} /\ vault[p] = "missing"
        /\ vault' = [vault EXCEPT ![p] = object[p]]
        /\ object' = [object EXCEPT ![p] = "missing"]
        /\ Goes(w, "settle")
     \/ /\ \/ object[p] = "unsafe" \/ vault[p] = "unsafe"
           \/ object[p] \notin Gone /\ vault[p] # "missing"
        /\ Fails(w) /\ UNCHANGED <<object, vault>>
  /\ UNCHANGED <<pstate, recent, faults>>

\* UPDATE ... WHERE state='quarantining', or somebody else has done it.
SettleQuarantine(w) ==
  LET p == worker[w].payload IN
  /\ At(w, "settle")
  /\ \/ /\ pstate[p] \in {"quarantining", "quarantined"}
        /\ pstate' = [pstate EXCEPT ![p] = "quarantined"]
        /\ Goes(w, "finish")
     \/ /\ pstate[p] \notin {"quarantining", "quarantined"}
        /\ Rejects(w) /\ UNCHANGED pstate
  /\ UNCHANGED <<object, vault, recent, faults>>

CompleteScrub(w) ==
  /\ At(w, "finish")
  /\ JobEnds(w, "complete")
  /\ UNCHANGED <<pstate, object, vault, recent, faults>>

\* A database or storage call fails, or the maximum runtime is exceeded.
ScrubFails(w) ==
  /\ worker[w].step \notin {"idle", "finish"} /\ faults < MaxCrashes
  /\ Fails(w)
  /\ faults' = faults + 1
  /\ UNCHANGED <<pstate, object, vault, recent>>

\* The worker dies, or loses its lease and gives up.
WorkerCrashes(w) ==
  /\ worker[w].step # "idle" /\ faults < MaxCrashes
  /\ worker' = [worker EXCEPT ![w] = IdleWorker]
  /\ faults' = faults + 1
  /\ UNCHANGED <<pstate, object, vault, recent, job>>

-----------------------------------------------------------------------------
PayloadNext(p) ==
  \/ Decays(p) \/ CommitPayload(p) \/ EnqueueOrphan(p) \/ AdmitDeletion(p)
  \/ DeleteObject(p) \/ CompleteDeletion(p)
  \/ IntervalPasses(p) \/ EnqueueScrub(p) \/ StartScrub(p) \/ RetireScrub(p)

ScrubStep(w) ==
  \/ ReadPayload(w) \/ VerifyObject(w) \/ MarkQuarantining(w) \/ MoveObject(w)
  \/ SettleQuarantine(w) \/ CompleteScrub(w)

WorkerNext(w) ==
  (\E p \in Payloads : ClaimScrub(w, p)) \/ ScrubStep(w) \/ ScrubFails(w) \/ WorkerCrashes(w)

Next == (\E p \in Payloads : PayloadNext(p)) \/ (\E w \in Workers : WorkerNext(w))

Spec == Init /\ [][Next]_vars

\* Reconcile passes and job ticks recur, intervals pass, and a running scrub
\* ends.  A worker is not for ever busy with other payloads' jobs.
Fairness ==
  /\ \A p \in Payloads : /\ WF_vars(IntervalPasses(p))
                         /\ WF_vars(EnqueueScrub(p))
                         /\ WF_vars(RetireScrub(p))
                         /\ WF_vars(\E w \in Workers : ClaimScrub(w, p))
  /\ \A w \in Workers : WF_vars(ScrubStep(w))

FairSpec == Spec /\ Fairness

-----------------------------------------------------------------------------
(* What must hold *)

\* A healthy payload is never quarantined.  A scrub decides on a row it read
\* before it hashed the object: that the object has meanwhile been collected,
\* or moved by another scrub, must not be taken for decay.
OnlyDecayQuarantined == \A p \in Payloads :
  pstate[p] \in {"quarantining", "quarantined"} =>
    object[p] \notin {"good", "collected"} /\ vault[p] \notin {"good", "collected"}

\* "Corruption ... preserves evidence ... is never reported as successful
\* deletion": once a payload is being quarantined its damaged object stays in
\* one of the two places, and no deletion takes the row over.
EvidencePreserved ==
  [][\A p \in Payloads : pstate[p] \in {"quarantining", "quarantined"} =>
       /\ pstate'[p] \in {"quarantining", "quarantined"}
       /\ "corrupt" \in {object[p], vault[p]} => "corrupt" \in {object'[p], vault'[p]}]_vars

\* A row says quarantined only when nothing is left at the path that reads and
\* hashes use; a crash between the row and the rename leaves quarantining.
QuarantinedOutOfReach == \A p \in Payloads :
  pstate[p] = "quarantined" => object[p] = "missing"

\* "Scheduled scrubs provide complete payload coverage": damage to a retained payload
\* that an upload stored does not stay unnoticed.
UploadsCovered == \A p \in Owned :
  (pstate[p] = "referenced" /\ object[p] # "good") ~> pstate[p] # "referenced"

\* "Corruption moves to QUARANTINED": a quarantine that the holder of the job
\* has begun is completed, whatever crashes in the middle of it, unless the
\* object is unsafe to move or faults used up the job's attempts.  A worker that
\* lost its lease before it marks the row has no such promise: if it crashes,
\* the other's success or InvalidJob has ended the job.
QuarantineCompletes == \A p \in Payloads :
  (\E w \in Workers : At(w, "move") /\ worker[w].payload = p /\ HoldsScrub(w)) ~>
    \/ pstate[p] = "quarantined" \/ "unsafe" \in {object[p], vault[p]}
    \/ job[p].state = "terminal" /\ job[p].attempts = MaxAttempts /\ faults > 0

-----------------------------------------------------------------------------
(* Why it holds: the facts that every step preserves together *)

\* A worker acts on what it saw: decay does not go away, a quarantine is not
\* taken back, and an object that was moved does not return.
Quarantine == {"quarantining", "quarantined"}
WorkerInv == \A w \in Workers :
  LET p == worker[w].payload IN
  /\ worker[w].step = "mark" => object[p] # "good"
  /\ worker[w].step \in {"move", "settle"} => pstate[p] \in Quarantine
  /\ worker[w].step = "settle" => object[p] = "missing"

VaultInv == \A p \in Payloads : vault[p] \notin {"good", "collected"}

CollectedInv == \A p \in Payloads :
  object[p] = "collected" => pstate[p] \in {"deleting", "deleted"}

IndInv == TypeOK /\ OnlyDecayQuarantined /\ QuarantinedOutOfReach /\ WorkerInv /\ VaultInv
          /\ CollectedInv
==============================================================================
