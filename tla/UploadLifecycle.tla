--------------------------- MODULE UploadLifecycle ---------------------------
(***************************************************************************)
(* The life of an upload and of the payload it allocates: the rows         *)
(* PostgreSQL keeps (upload_sessions, upload_parts, payload_objects,       *)
(* quota_reservations, drives, nodes, jobs), the bytes the I/O worker has  *)
(* on disk (published staging parts and the final object), and everybody   *)
(* who moves them: API transactions, part writers, detached finalizer      *)
(* tasks, and the maintenance workers that reopen, expire, reconcile and   *)
(* delete.                                                                 *)
(*                                                                         *)
(* A PostgreSQL transaction is one action.  A storage operation (publish,  *)
(* link, rename, verify, remove) is one action.  Whatever lies between two *)
(* of them is an interleaving point, and a process may crash, or stall for *)
(* as long as it likes, at each.                                           *)
(* Each upload owns exactly one payload, so both are indexed by the upload.*)
(***************************************************************************)
EXTENDS Integers, FiniteSets

CONSTANTS
  Uploads,          \* upload sessions, each with its payload
  Nodes,            \* files (or free names) uploads are addressed to
  Parts,            \* part numbers
  Bytes,            \* the contents a part may have; a digest is its content
  Tasks,            \* finalization capabilities: each owns at most one claim
  Writers,          \* part requests in flight in the I/O worker
  Workers,          \* maintenance workers
  Quota,            \* drives.quota_bytes
  Size,             \* [Uploads -> Nat], the declared sizes
  Total,            \* [SUBSET Uploads -> Nat], the sum of Size over a set
  Layout,           \* [Uploads -> {"whole", "chunked"}]
  PartsOf,          \* [Uploads -> SUBSET Parts], the allocated parts
  Target,           \* [Uploads -> Nodes]
  MaxAttempts,      \* attempts of a durable job, 8 in the code
  StallsPastGrace,  \* may an I/O request outlive the retention grace?
  NoVersion, NoBytes, Missing, NoTask, NoUpload

ASSUME SizeAssumption ==
  /\ Quota \in Nat
  /\ Size \in [Uploads -> Nat]
  /\ Total \in [SUBSET Uploads -> Nat]
  /\ Total[{}] = 0
  /\ \A S \in SUBSET Uploads : \A u \in Uploads \ S :
       Total[S \cup {u}] = Total[S] + Size[u]

ASSUME ShapeAssumption ==
  /\ Layout \in [Uploads -> {"whole", "chunked"}]
  /\ PartsOf \in [Uploads -> SUBSET Parts]
  /\ Target \in [Uploads -> Nodes]
  /\ MaxAttempts \in Nat
  /\ StallsPastGrace \in BOOLEAN

\* upload_layout_and_part_count gives a whole object exactly one part.
ASSUME WholeAssumption ==
  \A u \in Uploads : /\ PartsOf[u] # {}
                     /\ Layout[u] = "whole" => \E p \in Parts : PartsOf[u] = {p}

ASSUME NullAssumption ==
  /\ NoVersion \notin Uploads
  /\ NoUpload \notin Uploads
  /\ NoBytes \notin Bytes
  /\ NoTask \notin Tasks
  /\ Missing \notin [Parts -> Bytes \cup {NoBytes}]

VARIABLES
  ustate, fence, owner,   \* upload_sessions.state, fencing_token, finalization_owner
  lapsed, overdue,        \* is finalization_lease_expires_at / expires_at past?
  expected, cleaned,      \* expected_head_version_id, staging_cleaned_at
  part,                   \* upload_parts: the digest of each durable part
  pstate, digest,         \* payload_objects.state, blake3
  resv,                   \* quota_reservations.state
  reserved, used,         \* drives.reserved_bytes, used_physical_bytes
  head,                   \* nodes.head_version_id
  job,                    \* the one durable job of an upload
  staging, final,         \* the bytes on disk
  writer, task, worker    \* the processes

uploadRow  == <<ustate, fence, owner, lapsed, overdue, expected, cleaned, part>>
payloadRow == <<pstate, digest>>
driveRow   == <<resv, reserved, used, head>>
disk       == <<staging, final>>
vars == <<uploadRow, payloadRow, driveRow, job, disk, writer, task, worker>>

\* What the parts of an object hold; a digest identifies its image.
Image == [Parts -> Bytes \cup {NoBytes}]
Blank == [p \in Parts |-> NoBytes]

UploadStates  == {"none", "open", "finalizing", "finalized", "committed", "expired"}
PayloadStates == {"none", "staging", "finalizing", "finalized", "referenced",
                  "abandoned", "delete_intent", "deleting", "deleted"}
TaskSteps   == {"claimed", "storing", "linked", "verifying", "marking",
                "unstaging", "unstaged", "failed", "done"}
WorkerSteps == {"claimed", "reconcile_staging", "reconcile_final",
                "reconcile_row", "delete_final", "delete_staging", "delete_row",
                "finish", "refused", "sweep_staging", "sweep_row"}

\* A job waits for nothing ("now"), for its lease or its backoff to pass
\* ("later"), or for the retention grace it was deferred to.
JobRecord    == [kind: {"none", "reconcile", "delete"},
                 state: {"none", "queued", "running", "retry_wait", "terminal", "complete"},
                 token: 0..MaxAttempts,
                 wait: {"now", "later", "grace"}]
\* What a process carries; an idle one carries nothing.
IdleWriter == [step |-> "idle", upload |-> NoUpload, part |-> NoBytes,
               fence |-> 0, bytes |-> NoBytes]
IdleTask   == [step |-> "idle", upload |-> NoUpload, fence |-> 0, image |-> Missing]
IdleWorker == [step |-> "idle", upload |-> NoUpload, token |-> 0]

WriterRecord == [step: {"admitted", "published"}, upload: Uploads, part: Parts,
                 fence: Nat, bytes: Bytes] \cup {IdleWriter}
TaskRecord   == [step: TaskSteps, upload: Uploads, fence: Nat,
                 image: Image \cup {Missing}] \cup {IdleTask}
WorkerRecord == [step: WorkerSteps, upload: Uploads, token: Nat] \cup {IdleWorker}

TypeOK ==
  /\ ustate \in [Uploads -> UploadStates]
  /\ fence \in [Uploads -> Nat]
  /\ owner \in [Uploads -> Tasks \cup {NoTask}]
  /\ lapsed \in [Uploads -> BOOLEAN]
  /\ overdue \in [Uploads -> BOOLEAN]
  /\ expected \in [Uploads -> Uploads \cup {NoVersion}]
  /\ cleaned \in [Uploads -> BOOLEAN]
  /\ part \in [Uploads -> Image]
  /\ pstate \in [Uploads -> PayloadStates]
  /\ digest \in [Uploads -> Image \cup {Missing}]
  /\ resv \in [Uploads -> {"none", "active", "committed", "released"}]
  /\ reserved \in Nat /\ used \in Nat
  /\ head \in [Nodes -> Uploads \cup {NoVersion}]
  /\ job \in [Uploads -> JobRecord]
  /\ staging \in [Uploads -> Image]
  /\ final \in [Uploads -> Image \cup {Missing}]
  /\ writer \in [Writers -> WriterRecord]
  /\ task \in [Tasks -> TaskRecord]
  /\ worker \in [Workers -> WorkerRecord]

NoJob == [kind |-> "none", state |-> "none", token |-> 0, wait |-> "now"]

Init ==
  /\ ustate = [u \in Uploads |-> "none"]
  /\ fence = [u \in Uploads |-> 0]
  /\ owner = [u \in Uploads |-> NoTask]
  /\ lapsed = [u \in Uploads |-> FALSE]
  /\ overdue = [u \in Uploads |-> FALSE]
  /\ expected = [u \in Uploads |-> NoVersion]
  /\ cleaned = [u \in Uploads |-> FALSE]
  /\ part = [u \in Uploads |-> Blank]
  /\ pstate = [u \in Uploads |-> "none"]
  /\ digest = [u \in Uploads |-> Missing]
  /\ resv = [u \in Uploads |-> "none"]
  /\ reserved = 0 /\ used = 0
  /\ head = [n \in Nodes |-> NoVersion]
  /\ job = [u \in Uploads |-> NoJob]
  /\ staging = [u \in Uploads |-> Blank]
  /\ final = [u \in Uploads |-> Missing]
  /\ writer = [w \in Writers |-> IdleWriter]
  /\ task = [t \in Tasks |-> IdleTask]
  /\ worker = [w \in Workers |-> IdleWorker]

-----------------------------------------------------------------------------
(* The API transactions *)

\* begin_upload: the caller's expected head is current, the drive takes the
\* reservation only within its quota, and all rows appear in one commit.
BeginUpload(u) ==
  /\ ustate[u] = "none"
  /\ used + reserved + Size[u] <= Quota
  /\ reserved' = reserved + Size[u]
  /\ resv' = [resv EXCEPT ![u] = "active"]
  /\ ustate' = [ustate EXCEPT ![u] = "open"]
  /\ fence' = [fence EXCEPT ![u] = 1]
  /\ expected' = [expected EXCEPT ![u] = head[Target[u]]]
  /\ pstate' = [pstate EXCEPT ![u] = "staging"]
  /\ UNCHANGED <<owner, lapsed, overdue, cleaned, part, digest, used, head, job,
                 disk, writer, task, worker>>

\* Mutation: the head is not compared with the expected one.
CommitAnyHead(u) ==
  /\ ustate[u] = "finalized" /\ pstate[u] = "finalized"
  /\ reserved >= Size[u]
  /\ head' = [head EXCEPT ![Target[u]] = u]
  /\ pstate' = [pstate EXCEPT ![u] = "referenced"]
  /\ ustate' = [ustate EXCEPT ![u] = "committed"]
  /\ resv' = [resv EXCEPT ![u] = "committed"]
  /\ reserved' = reserved - Size[u]
  /\ used' = used + Size[u]
  /\ UNCHANGED <<fence, owner, lapsed, overdue, expected, cleaned, part, digest,
                 job, disk, writer, task, worker>>

\* commit_upload: the finalized payload becomes the node's next version, if the
\* node still has the head the upload was begun against; the reservation turns
\* into physical use.  drives has CHECK (reserved_bytes >= 0).
CommitUpload(u) ==
  /\ ustate[u] = "finalized" /\ pstate[u] = "finalized"
  /\ head[Target[u]] = expected[u]
  /\ reserved >= Size[u]
  /\ head' = [head EXCEPT ![Target[u]] = u]
  /\ pstate' = [pstate EXCEPT ![u] = "referenced"]
  /\ ustate' = [ustate EXCEPT ![u] = "committed"]
  /\ resv' = [resv EXCEPT ![u] = "committed"]
  /\ reserved' = reserved - Size[u]
  /\ used' = used + Size[u]
  /\ UNCHANGED <<fence, owner, lapsed, overdue, expected, cleaned, part, digest,
                 job, disk, writer, task, worker>>

-----------------------------------------------------------------------------
(* The part writers of the I/O worker (upload_part) *)

\* The capability names the current fence and the session is open; its nonce is
\* consumed and the body begins to arrive.
AdmitPart(w, u, p, b) ==
  /\ writer[w].step = "idle"
  /\ ustate[u] = "open" /\ p \in PartsOf[u]
  /\ writer' = [writer EXCEPT ![w] = [step |-> "admitted", upload |-> u, part |-> p,
                                      fence |-> fence[u], bytes |-> b]]
  /\ UNCHANGED <<uploadRow, payloadRow, driveRow, job, disk, task, worker>>

\* Mutation: the rename replaces an existing part.
PublishOverwrites(w) ==
  /\ writer[w].step = "admitted"
  /\ staging' = [staging EXCEPT ![writer[w].upload][writer[w].part] = writer[w].bytes]
  /\ writer' = [writer EXCEPT ![w].step = "published"]
  /\ UNCHANGED <<uploadRow, payloadRow, driveRow, job, final, task, worker>>

\* publish_staging_part links the temporary to the part's path.  An existing
\* file stays: it must hold the same bytes or the request fails.
PublishPart(w) ==
  LET u == writer[w].upload  p == writer[w].part  b == writer[w].bytes IN
  /\ writer[w].step = "admitted"
  /\ \/ /\ staging[u][p] \in {NoBytes, b}
        /\ staging' = [staging EXCEPT ![u][p] = b]
        /\ writer' = [writer EXCEPT ![w].step = "published"]
     \/ /\ staging[u][p] \notin {NoBytes, b}
        /\ writer' = [writer EXCEPT ![w] = IdleWriter]
        /\ UNCHANGED staging
  /\ UNCHANGED <<uploadRow, payloadRow, driveRow, job, final, task, worker>>

\* mark_part_durable, fenced: the acknowledgement of the part.
MarkPartDurable(w) ==
  LET u == writer[w].upload  p == writer[w].part IN
  /\ writer[w].step = "published"
  /\ part' = IF ustate[u] = "open" /\ fence[u] = writer[w].fence
             THEN [part EXCEPT ![u][p] = writer[w].bytes]
             ELSE part
  /\ writer' = [writer EXCEPT ![w] = IdleWriter]
  /\ UNCHANGED <<ustate, fence, owner, lapsed, overdue, expected, cleaned,
                 payloadRow, driveRow, job, disk, task, worker>>

\* The connection drops, the body is short, a filesystem call fails or the
\* process dies.
WriterStops(w) ==
  /\ writer[w].step # "idle"
  /\ writer' = [writer EXCEPT ![w] = IdleWriter]
  /\ UNCHANGED <<uploadRow, payloadRow, driveRow, job, disk, task, worker>>

-----------------------------------------------------------------------------
(* The detached finalizer tasks of the I/O worker (finalize_upload) *)

TaskAt(t, s) == task[t].step = s
Goes(t, s) == task' = [task EXCEPT ![t].step = s]

\* The row still carries this task's fence and owner.
Holds(t) == LET u == task[t].upload IN
  /\ ustate[u] = "finalizing"
  /\ fence[u] = task[t].fence
  /\ owner[u] = t

AllDurable(u) == \A p \in PartsOf[u] : part[u][p] # NoBytes

\* claim_upload_finalization; a capability's nonce is good for one claim.
ClaimFinalization(t, u) ==
  /\ TaskAt(t, "idle")
  /\ ustate[u] = "open" /\ ~overdue[u] /\ AllDurable(u) /\ pstate[u] = "staging"
  /\ ustate' = [ustate EXCEPT ![u] = "finalizing"]
  /\ owner' = [owner EXCEPT ![u] = t]
  /\ lapsed' = [lapsed EXCEPT ![u] = FALSE]
  /\ pstate' = [pstate EXCEPT ![u] = "finalizing"]
  /\ task' = [task EXCEPT ![t] = [step |-> "claimed", upload |-> u,
                                  fence |-> fence[u], image |-> Missing]]
  /\ UNCHANGED <<fence, overdue, expected, cleaned, part, digest, driveRow, job,
                 disk, writer, worker>>

\* The detached task rereads the rows: state and fence are checked, the owner
\* is not.
ReadManifest(t) ==
  LET u == task[t].upload IN
  /\ TaskAt(t, "claimed")
  /\ task' = IF ustate[u] = "finalizing" /\ fence[u] = task[t].fence
                /\ pstate[u] = "finalizing"
             THEN [task EXCEPT ![t].step = "storing", ![t].image = part[u]]
             ELSE [task EXCEPT ![t].step = "failed"]
  /\ UNCHANGED <<uploadRow, payloadRow, driveRow, job, disk, writer, worker>>

\* StorageRoot::finalize up to the publication.  A final object that exists is
\* only verified; a whole object is linked from its part; the parts of a
\* chunked object are verified and linked into the operation's own directory.
StoreObject(t) ==
  LET u == task[t].upload IN
  /\ TaskAt(t, "storing")
  /\ \/ final[u] # Missing /\ Goes(t, "verifying") /\ UNCHANGED final
     \/ /\ final[u] = Missing /\ staging[u] = task[t].image
        /\ IF Layout[u] = "whole"
           THEN Goes(t, "verifying") /\ final' = [final EXCEPT ![u] = staging[u]]
           ELSE Goes(t, "linked") /\ UNCHANGED final
     \/ /\ final[u] = Missing /\ staging[u] # task[t].image
        /\ Goes(t, "failed") /\ UNCHANGED final
  /\ UNCHANGED <<uploadRow, payloadRow, driveRow, job, staging, writer, worker>>

\* The rename of the operation's directory; a final object that appeared in
\* the meantime wins.
RenameChunks(t) ==
  LET u == task[t].upload IN
  /\ TaskAt(t, "linked")
  /\ final' = IF final[u] = Missing THEN [final EXCEPT ![u] = task[t].image] ELSE final
  /\ Goes(t, "verifying")
  /\ UNCHANGED <<uploadRow, payloadRow, driveRow, job, staging, writer, worker>>

\* verify_finalized hashes the final object.  Only chunks are compared with the
\* manifest; the digest of a whole object is whatever its bytes give.
VerifyFinalized(t) ==
  LET u == task[t].upload
      ok == final[u] # Missing /\ (Layout[u] = "chunked" => final[u] = task[t].image) IN
  /\ TaskAt(t, "verifying")
  /\ task' = IF ok THEN [task EXCEPT ![t].step = "marking", ![t].image = final[u]]
                   ELSE [task EXCEPT ![t].step = "failed"]
  /\ UNCHANGED <<uploadRow, payloadRow, driveRow, job, disk, writer, worker>>

\* heartbeat_upload_finalization, while the blocking storage call runs.  It
\* renews a lease that has already passed, and its failure is only logged.
HeartbeatFinalization(t) ==
  /\ task[t].step \in {"storing", "linked", "verifying"} /\ Holds(t)
  /\ lapsed' = [lapsed EXCEPT ![task[t].upload] = FALSE]
  /\ UNCHANGED <<ustate, fence, owner, overdue, expected, cleaned, part,
                 payloadRow, driveRow, job, disk, writer, task, worker>>

\* mark_upload_finalized, fenced by state, token and owner.
MarkFinalized(t) ==
  LET u == task[t].upload IN
  /\ TaskAt(t, "marking") /\ Holds(t) /\ pstate[u] = "finalizing"
  /\ ustate' = [ustate EXCEPT ![u] = "finalized"]
  /\ owner' = [owner EXCEPT ![u] = NoTask]
  /\ lapsed' = [lapsed EXCEPT ![u] = FALSE]
  /\ pstate' = [pstate EXCEPT ![u] = "finalized"]
  /\ digest' = [digest EXCEPT ![u] = task[t].image]
  /\ Goes(t, "unstaging")
  /\ UNCHANGED <<fence, overdue, expected, cleaned, part, driveRow, job, disk,
                 writer, worker>>

\* The row moved on, the authorization generations changed, or a storage or
\* database call failed: finish_upload_finalization goes on to the abort.
FinalizationFails(t) ==
  /\ task[t].step \in {"claimed", "storing", "linked", "verifying", "marking"}
  /\ Goes(t, "failed")
  /\ UNCHANGED <<uploadRow, payloadRow, driveRow, job, disk, writer, worker>>

\* Mutation: the payload's row is left finalizing.
ReopenedSession(u) ==
  /\ ustate' = [ustate EXCEPT ![u] = "open"]
  /\ fence' = [fence EXCEPT ![u] = @ + 1]
  /\ owner' = [owner EXCEPT ![u] = NoTask]
  /\ lapsed' = [lapsed EXCEPT ![u] = FALSE]
  /\ pstate' = pstate

\* A finalizing row goes back to open under a new fence.
Reopened(u) ==
  /\ ustate' = [ustate EXCEPT ![u] = "open"]
  /\ fence' = [fence EXCEPT ![u] = @ + 1]
  /\ owner' = [owner EXCEPT ![u] = NoTask]
  /\ lapsed' = [lapsed EXCEPT ![u] = FALSE]
  /\ pstate' = [pstate EXCEPT ![u] = "staging"]

\* Mutation: the abort asks for the state only.
AbortUnfenced(t) ==
  LET u == task[t].upload IN
  /\ TaskAt(t, "failed")
  /\ \/ ustate[u] = "finalizing" /\ pstate[u] = "finalizing" /\ Reopened(u)
     \/ ustate[u] # "finalizing" /\ UNCHANGED <<ustate, fence, owner, lapsed, pstate>>
  /\ Goes(t, "done")
  /\ UNCHANGED <<overdue, expected, cleaned, part, digest, driveRow, job, disk,
                 writer, worker>>

\* abort_upload_finalization, which a stale task cannot get through.
AbortFinalization(t) ==
  /\ TaskAt(t, "failed")
  /\ \/ Holds(t) /\ pstate[task[t].upload] = "finalizing" /\ Reopened(task[t].upload)
     \/ ~Holds(t) /\ UNCHANGED <<ustate, fence, owner, lapsed, pstate>>
  /\ Goes(t, "done")
  /\ UNCHANGED <<overdue, expected, cleaned, part, digest, driveRow, job, disk,
                 writer, worker>>

\* The finalizer removes the staged parts, then records that it did; a failure
\* of either is left to the sweep.
UnstageParts(t) ==
  /\ TaskAt(t, "unstaging")
  /\ staging' = [staging EXCEPT ![task[t].upload] = Blank]
  /\ Goes(t, "unstaged")
  /\ UNCHANGED <<uploadRow, payloadRow, driveRow, job, final, writer, worker>>

\* mark_upload_staging_cleaned touches only finalized and committed sessions.
Cleaned(u) == IF ustate[u] \in {"finalized", "committed"}
              THEN [cleaned EXCEPT ![u] = TRUE] ELSE cleaned

MarkUnstaged(t) ==
  /\ TaskAt(t, "unstaged")
  /\ cleaned' = Cleaned(task[t].upload)
  /\ Goes(t, "done")
  /\ UNCHANGED <<ustate, fence, owner, lapsed, overdue, expected, part,
                 payloadRow, driveRow, job, disk, writer, worker>>

\* The I/O worker dies with the task; nobody aborts the claim.
TaskCrashes(t) ==
  /\ task[t].step \notin {"idle", "done"}
  /\ Goes(t, "done")
  /\ UNCHANGED <<uploadRow, payloadRow, driveRow, job, disk, writer, worker>>

-----------------------------------------------------------------------------
(* Time *)

\* The 120-second finalization lease runs out.
LeaseLapses(u) ==
  /\ ustate[u] = "finalizing" /\ ~lapsed[u]
  /\ lapsed' = [lapsed EXCEPT ![u] = TRUE]
  /\ UNCHANGED <<ustate, fence, owner, overdue, expected, cleaned, part,
                 payloadRow, driveRow, job, disk, writer, task, worker>>

\* The session's expires_at passes.
UploadOverdue(u) ==
  /\ ustate[u] # "none" /\ ~overdue[u]
  /\ overdue' = [overdue EXCEPT ![u] = TRUE]
  /\ UNCHANGED <<ustate, fence, owner, lapsed, expected, cleaned, part,
                 payloadRow, driveRow, job, disk, writer, task, worker>>

\* No part request and no finalizer of the upload is in flight.
Quiet(u) == /\ \A w \in Writers : writer[w].upload # u
            /\ \A t \in Tasks : task[t].upload = u => task[t].step \in {"idle", "done"}

\* Both retention graces (24 hours by default) are far longer than an I/O
\* request is expected to live: unless StallsPastGrace, no writer or task of
\* the upload is still in flight once a grace has run out.
GraceOver(u) == StallsPastGrace \/ Quiet(u)

-----------------------------------------------------------------------------
(* The maintenance sweeps (reconcile, every 60 seconds) *)

\* reopen_expired_upload_finalizations
ReopenExpiredFinalization(u) ==
  /\ ustate[u] = "finalizing" /\ lapsed[u] /\ pstate[u] = "finalizing"
  /\ Reopened(u)
  /\ UNCHANGED <<overdue, expected, cleaned, part, digest, driveRow, job, disk,
                 writer, task, worker>>

\* INSERT INTO jobs ... ON CONFLICT DO NOTHING.  An upload meets at most one of
\* the two inserts: its session expires open, or its payload was finalized.
Enqueue(u, kind) ==
  job' = [job EXCEPT ![u] = IF @ = NoJob
                            THEN [kind |-> kind, state |-> "queued", token |-> 0,
                                  wait |-> "now"]
                            ELSE @]

\* Mutation: the expiry does not give the reserved bytes back.
KeepsReserved(a, b) == a

\* GREATEST(0, a - b)
Monus(a, b) == IF a >= b THEN a - b ELSE 0

\* expire_uploads: only an open session expires; its reservation is released
\* and a reconcile job queued in the same commit.
ExpireUpload(u) ==
  /\ ustate[u] = "open" /\ overdue[u]
  /\ ustate' = [ustate EXCEPT ![u] = "expired"]
  /\ fence' = [fence EXCEPT ![u] = @ + 1]
  /\ resv' = [resv EXCEPT ![u] = IF @ = "active" THEN "released" ELSE @]
  /\ reserved' = Monus(reserved, Size[u])
  /\ Enqueue(u, "reconcile")
  /\ UNCHANGED <<owner, lapsed, overdue, expected, cleaned, part, payloadRow,
                 used, head, disk, writer, task, worker>>

\* enqueue_finalized_upload_orphans: a finalized payload that no version
\* references, past its grace, becomes a delete intent with a delete job.
EnqueueOrphan(u) ==
  /\ pstate[u] = "finalized" /\ ustate[u] = "finalized" /\ resv[u] = "active"
  /\ GraceOver(u)
  /\ pstate' = [pstate EXCEPT ![u] = "delete_intent"]
  /\ Enqueue(u, "delete")
  /\ UNCHANGED <<uploadRow, digest, driveRow, disk, writer, task, worker>>

WorkerAt(w, s) == worker[w].step = s
Turns(w, s) == worker' = [worker EXCEPT ![w].step = s]

\* Mutation: the sweep lists sessions that are still being finalized.
SweepFinalizing(w, u) ==
  /\ WorkerAt(w, "idle")
  /\ ustate[u] \in {"finalizing", "finalized", "committed"} /\ ~cleaned[u]
  /\ worker' = [worker EXCEPT ![w] = [step |-> "sweep_staging", upload |-> u, token |-> 0]]
  /\ UNCHANGED <<uploadRow, payloadRow, driveRow, job, disk, writer, task>>

\* cleanup_finalized_staging lists a session, removes its parts and then sets
\* the marker, three steps that others interleave with.
SweepBegins(w, u) ==
  /\ WorkerAt(w, "idle")
  /\ ustate[u] \in {"finalized", "committed"} /\ ~cleaned[u]
  /\ worker' = [worker EXCEPT ![w] = [step |-> "sweep_staging", upload |-> u, token |-> 0]]
  /\ UNCHANGED <<uploadRow, payloadRow, driveRow, job, disk, writer, task>>

SweepStaging(w) ==
  /\ WorkerAt(w, "sweep_staging")
  /\ staging' = [staging EXCEPT ![worker[w].upload] = Blank]
  /\ Turns(w, "sweep_row")
  /\ UNCHANGED <<uploadRow, payloadRow, driveRow, job, final, writer, task>>

SweepMarks(w) ==
  /\ WorkerAt(w, "sweep_row")
  /\ cleaned' = Cleaned(worker[w].upload)
  /\ worker' = [worker EXCEPT ![w] = IdleWorker]
  /\ UNCHANGED <<ustate, fence, owner, lapsed, overdue, expected, part,
                 payloadRow, driveRow, job, disk, writer, task>>

-----------------------------------------------------------------------------
(* The durable jobs (claim_job, run_one_job) *)

\* A lease, a backoff or a deferral runs out.  A heartbeat that comes in time
\* is a lease that has not passed yet.
JobDue(u) ==
  /\ job[u].wait = "later" \/ (job[u].wait = "grace" /\ GraceOver(u))
  /\ job' = [job EXCEPT ![u].wait = "now"]
  /\ UNCHANGED <<uploadRow, payloadRow, driveRow, disk, writer, task, worker>>

\* The priorities the jobs are inserted with; the lower one goes first.
Priority(kind) == IF kind = "reconcile" THEN 50 ELSE 80

\* Rows another claim has locked are skipped (FOR UPDATE SKIP LOCKED).
Locked == {worker[w].upload : w \in {v \in Workers : worker[v].step = "refused"}}

\* Mutation: the job of a dead worker is not taken over.
ClaimableWaiting == {u \in Uploads \ Locked :
  job[u].wait = "now" /\ job[u].state \in {"queued", "retry_wait"}}

Claimable == {u \in Uploads \ Locked :
  /\ job[u].wait = "now"
  /\ \/ job[u].state \in {"queued", "retry_wait"}
     \/ job[u].state = "running" /\ job[u].token < MaxAttempts}

\* ORDER BY priority; available_at and created_at order equal priorities.
First == {u \in Claimable : \A v \in Claimable : Priority(job[u].kind) <= Priority(job[v].kind)}

\* Running jobs whose last lease has passed: claim_job retires all of them.
Spent == {u \in Uploads : /\ job[u].state = "running" /\ job[u].wait = "now"
                          /\ job[u].token >= MaxAttempts}

Retired(u) == IF u \in Spent THEN [job[u] EXCEPT !.state = "terminal"] ELSE job[u]

\* Mutation: no bound on the attempts.
ClaimPastLast(w, u) ==
  /\ WorkerAt(w, "idle") /\ u \in First \cup Spent
  /\ job' = [job EXCEPT ![u] = [kind |-> job[u].kind, state |-> "running",
                                token |-> job[u].token + 1, wait |-> "later"]]
  /\ worker' = [worker EXCEPT ![w] = [step |-> "claimed", upload |-> u,
                                      token |-> job[u].token + 1]]
  /\ UNCHANGED <<uploadRow, payloadRow, driveRow, disk, writer, task>>

\* The transaction retires the spent jobs and starts an attempt of the first
\* claimable one, waiting or taken over from a worker whose lease has passed.
ClaimJob(w, u) ==
  /\ WorkerAt(w, "idle") /\ u \in First /\ job[u].token < MaxAttempts
  /\ job' = [v \in Uploads |->
       IF v = u THEN [kind |-> job[u].kind, state |-> "running",
                      token |-> job[u].token + 1, wait |-> "later"]
       ELSE Retired(v)]
  /\ worker' = [worker EXCEPT ![w] = [step |-> "claimed", upload |-> u,
                                      token |-> job[u].token + 1]]
  /\ UNCHANGED <<uploadRow, payloadRow, driveRow, disk, writer, task>>

\* It finds no job to run, and keeps its retirements.
ClaimNothing(w) ==
  /\ WorkerAt(w, "idle") /\ First = {} /\ Spent # {}
  /\ job' = [v \in Uploads |-> Retired(v)]
  /\ UNCHANGED <<uploadRow, payloadRow, driveRow, disk, writer, task, worker>>

\* The first job has had its last attempt, and was deferred by it: CHECK
\* (attempt_count BETWEEN 0 AND 8) refuses the update and the transaction rolls
\* back with its retirements.  Until it has, it holds the row's lock.
ClaimRefused(w, u) ==
  /\ WorkerAt(w, "idle") /\ u \in First /\ job[u].token >= MaxAttempts
  /\ worker' = [worker EXCEPT ![w] = [step |-> "refused", upload |-> u, token |-> 0]]
  /\ UNCHANGED <<uploadRow, payloadRow, driveRow, job, disk, writer, task>>

ClaimRolledBack(w) ==
  /\ WorkerAt(w, "refused")
  /\ worker' = [worker EXCEPT ![w] = IdleWorker]
  /\ UNCHANGED <<uploadRow, payloadRow, driveRow, job, disk, writer, task>>

\* The update of a job row by the worker that ran it, refused once the job has
\* been claimed again or has left running.
JobEnds(w, s, until) ==
  LET u == worker[w].upload IN
  /\ job' = IF job[u].state = "running" /\ job[u].token = worker[w].token
            THEN [job EXCEPT ![u].state = s, ![u].wait = until] ELSE job
  /\ worker' = [worker EXCEPT ![w] = IdleWorker]

\* reconcile_upload before its grace: the job is deferred, not failed, whatever
\* the number of its attempt (defer_job).
DeferReconcile(w) ==
  LET u == worker[w].upload IN
  /\ WorkerAt(w, "claimed") /\ job[u].kind = "reconcile" /\ ustate[u] = "expired" /\ ~GraceOver(u)
  /\ JobEnds(w, "retry_wait", "grace")
  /\ UNCHANGED <<uploadRow, payloadRow, driveRow, disk, writer, task>>

\* Mutation: the row is abandoned before the bytes are removed.
ReconcileRowOnly(w) ==
  LET u == worker[w].upload IN
  /\ WorkerAt(w, "claimed") /\ job[u].kind = "reconcile" /\ ustate[u] = "expired" /\ GraceOver(u)
  /\ Turns(w, "reconcile_row")
  /\ UNCHANGED <<uploadRow, payloadRow, driveRow, job, disk, writer, task>>

BeginReconcile(w) ==
  LET u == worker[w].upload IN
  /\ WorkerAt(w, "claimed") /\ job[u].kind = "reconcile" /\ ustate[u] = "expired" /\ GraceOver(u)
  /\ Turns(w, "reconcile_staging")
  /\ UNCHANGED <<uploadRow, payloadRow, driveRow, job, disk, writer, task>>

\* Staged parts go first, then the final object.
ReconcileStaging(w) ==
  /\ WorkerAt(w, "reconcile_staging")
  /\ staging' = [staging EXCEPT ![worker[w].upload] = Blank]
  /\ Turns(w, "reconcile_final")
  /\ UNCHANGED <<uploadRow, payloadRow, driveRow, job, final, writer, task>>

ReconcileFinal(w) ==
  /\ WorkerAt(w, "reconcile_final")
  /\ final' = [final EXCEPT ![worker[w].upload] = Missing]
  /\ Turns(w, "reconcile_row")
  /\ UNCHANGED <<uploadRow, payloadRow, driveRow, job, staging, writer, task>>

ReconcileRow(w) ==
  LET u == worker[w].upload IN
  /\ WorkerAt(w, "reconcile_row")
  /\ pstate' = [pstate EXCEPT ![u] = IF @ = "staging" THEN "abandoned" ELSE @]
  /\ Turns(w, "finish")
  /\ UNCHANGED <<uploadRow, digest, driveRow, job, disk, writer, task>>

\* Mutation: the unlink begins while the row still says delete_intent.
AdmitWithoutDeleting(w) ==
  LET u == worker[w].upload IN
  /\ WorkerAt(w, "claimed") /\ job[u].kind = "delete"
  /\ pstate[u] \in {"delete_intent", "deleting"}
  /\ ustate[u] = "finalized" /\ resv[u] = "active"
  /\ Turns(w, "delete_final")
  /\ UNCHANGED <<uploadRow, payloadRow, driveRow, job, disk, writer, task>>

\* delete_payload: a payload already deleted completes the job;
\* admit_finalized_upload_orphan_deletion is the last check before the unlink.
AdmitDeletion(w) ==
  LET u == worker[w].upload IN
  /\ WorkerAt(w, "claimed") /\ job[u].kind = "delete"
  /\ \/ pstate[u] = "deleted" /\ Turns(w, "finish") /\ UNCHANGED pstate
     \/ /\ pstate[u] \in {"delete_intent", "deleting"}
        /\ ustate[u] = "finalized" /\ resv[u] = "active"
        /\ pstate' = [pstate EXCEPT ![u] = "deleting"]
        /\ Turns(w, "delete_final")
  /\ UNCHANGED <<uploadRow, digest, driveRow, job, disk, writer, task>>

\* The final object goes first, then the staged parts.
DeleteFinal(w) ==
  /\ WorkerAt(w, "delete_final")
  /\ final' = [final EXCEPT ![worker[w].upload] = Missing]
  /\ Turns(w, "delete_staging")
  /\ UNCHANGED <<uploadRow, payloadRow, driveRow, job, staging, writer, task>>

DeleteStaging(w) ==
  /\ WorkerAt(w, "delete_staging")
  /\ staging' = [staging EXCEPT ![worker[w].upload] = Blank]
  /\ Turns(w, "delete_row")
  /\ UNCHANGED <<uploadRow, payloadRow, driveRow, job, final, writer, task>>

\* complete_orphan_payload_deletion: payload, session, reservation and drive
\* move together or not at all.
DeleteRow(w) ==
  LET u == worker[w].upload IN
  /\ WorkerAt(w, "delete_row")
  /\ pstate[u] = "deleting" /\ ustate[u] = "finalized" /\ resv[u] = "active"
  /\ reserved >= Size[u]
  /\ pstate' = [pstate EXCEPT ![u] = "deleted"]
  /\ ustate' = [ustate EXCEPT ![u] = "expired"]
  /\ fence' = [fence EXCEPT ![u] = @ + 1]
  /\ cleaned' = [cleaned EXCEPT ![u] = FALSE]
  /\ resv' = [resv EXCEPT ![u] = "released"]
  /\ reserved' = reserved - Size[u]
  /\ Turns(w, "finish")
  /\ UNCHANGED <<owner, lapsed, overdue, expected, part, digest, used, head, job,
                 disk, writer, task>>

\* complete_job
CompleteJob(w) ==
  /\ WorkerAt(w, "finish")
  /\ JobEnds(w, "complete", "now")
  /\ UNCHANGED <<uploadRow, payloadRow, driveRow, disk, writer, task>>

\* fail_job: a storage or database call of the attempt failed; the last
\* attempt ends the job.
JobFails(w) ==
  /\ worker[w].step \notin {"idle", "refused", "finish", "sweep_staging", "sweep_row"}
  /\ IF worker[w].token < MaxAttempts THEN JobEnds(w, "retry_wait", "later")
                                      ELSE JobEnds(w, "terminal", "now")
  /\ UNCHANGED <<uploadRow, payloadRow, driveRow, disk, writer, task>>

\* The worker dies; the job stays running until its lease passes.
WorkerCrashes(w) ==
  /\ worker[w].step # "idle"
  /\ worker' = [worker EXCEPT ![w] = IdleWorker]
  /\ UNCHANGED <<uploadRow, payloadRow, driveRow, job, disk, writer, task>>

-----------------------------------------------------------------------------
WriterNext(w) ==
  \/ \E u \in Uploads : \E p \in Parts, b \in Bytes : AdmitPart(w, u, p, b)
  \/ PublishPart(w) \/ MarkPartDurable(w) \/ WriterStops(w)

TaskNext(t) ==
  \/ \E u \in Uploads : ClaimFinalization(t, u)
  \/ ReadManifest(t) \/ StoreObject(t) \/ RenameChunks(t) \/ VerifyFinalized(t)
  \/ HeartbeatFinalization(t) \/ MarkFinalized(t) \/ FinalizationFails(t)
  \/ AbortFinalization(t) \/ UnstageParts(t) \/ MarkUnstaged(t) \/ TaskCrashes(t)

UploadNext(u) ==
  \/ BeginUpload(u) \/ CommitUpload(u) \/ LeaseLapses(u) \/ UploadOverdue(u)
  \/ ReopenExpiredFinalization(u) \/ ExpireUpload(u) \/ EnqueueOrphan(u) \/ JobDue(u)

JobStep(w) ==
  \/ DeferReconcile(w) \/ BeginReconcile(w) \/ ReconcileStaging(w) \/ ReconcileFinal(w)
  \/ ReconcileRow(w) \/ AdmitDeletion(w) \/ DeleteFinal(w) \/ DeleteStaging(w)
  \/ DeleteRow(w) \/ CompleteJob(w)

ClaimNext(w) ==
  ClaimNothing(w) \/ (\E u \in Uploads : ClaimJob(w, u) \/ ClaimRefused(w, u))

WorkerNext(w) ==
  \/ ClaimNext(w) \/ ClaimRolledBack(w) \/ (\E u \in Uploads : SweepBegins(w, u))
  \/ SweepStaging(w) \/ SweepMarks(w) \/ JobStep(w) \/ JobFails(w) \/ WorkerCrashes(w)

Next ==
  \/ \E w \in Writers : WriterNext(w)
  \/ \E t \in Tasks : TaskNext(t)
  \/ \E u \in Uploads : UploadNext(u)
  \/ \E w \in Workers : WorkerNext(w)

Spec == Init /\ [][Next]_vars

\* A finalizer that runs, and a writer that is admitted, come to an end: the
\* storage calls return, the body ends or the connection times out.
TaskStep(t) ==
  \/ ReadManifest(t) \/ StoreObject(t) \/ RenameChunks(t) \/ VerifyFinalized(t)
  \/ MarkFinalized(t) \/ AbortFinalization(t) \/ UnstageParts(t) \/ MarkUnstaged(t)
  \/ TaskAt(t, "marking") /\ FinalizationFails(t)

\* No worker runs the job: its heartbeats have stopped.
Deserted(u) == job[u].state = "running" =>
  \A w \in Workers : worker[w].upload = u => worker[w].token # job[u].token

\* Time passes, the reconcile pass, which reopens, expires and finds orphans, comes
\* round every minute and the job loop every five seconds; a worker goes back to the job queue between sweeps, so
\* claiming is strongly fair.  Which job a claim gets is the queue's choice: no
\* job is promised a turn.  Clients owe nothing: begin, commit, part and
\* finalize requests have no fairness.
Fairness ==
  /\ \A w \in Writers : WF_vars(WriterStops(w))
  /\ \A t \in Tasks : WF_vars(TaskStep(t))
  /\ \A u \in Uploads : /\ WF_vars(LeaseLapses(u))
                        /\ WF_vars(\/ ReopenExpiredFinalization(u)
                                   \/ ExpireUpload(u) \/ EnqueueOrphan(u))
                        /\ WF_vars(Deserted(u) /\ JobDue(u))
  /\ SF_vars(\E w \in Workers : ClaimNext(w))
  /\ \A w \in Workers : WF_vars(ClaimRolledBack(w) \/ JobStep(w) \/ JobFails(w) \/ SweepStaging(w) \/ SweepMarks(w))

FairSpec == Spec /\ Fairness

-----------------------------------------------------------------------------
(* What must hold *)

\* A settled session takes no more parts and is not finalized again.
Settled == {"finalized", "committed", "expired"}

\* The rows of an upload, its payload and its reservation agree in every state
\* that any transaction leaves behind: each function of the database module
\* updates them under its own WHERE clause, and no sequence of them may leave
\* a combination that no later function accepts.
RowsAgree == \A u \in Uploads :
  \/ ustate[u] = "none" /\ pstate[u] = "none" /\ resv[u] = "none"
  \/ ustate[u] = "open" /\ pstate[u] = "staging" /\ resv[u] = "active"
  \/ ustate[u] = "finalizing" /\ pstate[u] = "finalizing" /\ resv[u] = "active"
  \/ /\ ustate[u] = "finalized" /\ resv[u] = "active"
     /\ pstate[u] \in {"finalized", "delete_intent", "deleting"}
  \/ ustate[u] = "committed" /\ pstate[u] = "referenced" /\ resv[u] = "committed"
  \/ /\ ustate[u] = "expired" /\ resv[u] = "released"
     /\ pstate[u] \in {"staging", "abandoned", "deleted"}

With(s) == {u \in Uploads : resv[u] = s}

\* The drive's counters are exactly the declared bytes of the active
\* reservations and of the committed payloads, and together never pass the
\* quota: no interleaving of commit, expiry, orphan deletion and their retries
\* releases or charges a reservation twice (complete_orphan_payload_deletion:
\* "so a retry cannot release the same bytes twice").
QuotaExact ==
  /\ reserved = Total[With("active")]
  /\ used = Total[With("committed")]
  /\ reserved + used <= Quota

\* A payload that a version references, or that a commit may still reference,
\* has its final object on disk, holding the recorded digest and exactly the
\* parts that were acknowledged to the client.
BytesIntact == \A u \in Uploads :
  pstate[u] \in {"finalized", "referenced", "delete_intent"} =>
    /\ final[u] # Missing
    /\ final[u] = digest[u]
    /\ final[u] = part[u]

\* A part acknowledged to the client is on disk with the acknowledged bytes
\* until the session is settled.
AckedPartKept == \A u \in Uploads : \A p \in Parts :
  ustate[u] \notin Settled /\ part[u][p] # NoBytes => staging[u][p] = part[u][p]

\* The digest of an acknowledged part never changes: mark_part_durable would
\* overwrite it, and it is the first-writer-wins link that keeps every later
\* writer from getting there with other bytes.
AckedPartImmutable ==
  [][\A u \in Uploads : \A p \in Parts :
       part[u][p] # NoBytes => part'[u][p] = part[u][p]]_vars

CommittedTo(n) == {u \in Uploads : Target[u] = n /\ ustate[u] = "committed"}

\* The committed uploads of a node form one chain that ends at its head: no
\* head is replaced by two uploads, and none is forgotten.
LinearHistory == \A n \in Nodes :
  /\ \A u, v \in CommittedTo(n) : expected[u] = expected[v] => u = v
  /\ \A u \in CommittedTo(n) : expected[u] \in CommittedTo(n) \cup {NoVersion}
  /\ CommittedTo(n) = {} => head[n] = NoVersion
  /\ CommittedTo(n) # {} => /\ head[n] \in CommittedTo(n)
                            /\ \A u \in CommittedTo(n) : expected[u] # head[n]

\* A finalizer whose claim was taken away moves no row: whatever it still does
\* on disk, its abort and its finalization are refused.
StaleTaskPowerless ==
  [][\A t \in Tasks :
       task'[t] # task[t] /\ task[t].step \notin {"idle", "unstaged"} /\ ~Holds(t)
       => UNCHANGED <<uploadRow, payloadRow, driveRow>>]_vars

\* Once maintenance has given a payload up, neither its final object nor its
\* staged parts are left on disk (docs: physical collection removes the bytes
\* before the row reaches its terminal state).  Needs I/O requests to end
\* within the grace.
ReclaimedLeavesNoBytes == \A u \in Uploads :
  pstate[u] \in {"abandoned", "deleted"} => final[u] = Missing /\ staging[u] = Blank

\* Every attempt of the job failed: it waits for an operator.
Exhausted(u) == job[u].state = "terminal" /\ job[u].token = MaxAttempts

\* The job was deferred by its last attempt.  No claim gets past it, for this
\* job or for one behind it.
Stuck(u) == job[u].state = "retry_wait" /\ job[u].token = MaxAttempts

\* Nothing is held for ever: whatever crashes, and whatever else is queued, an
\* upload past its expiry ends committed, or its reservation is released and
\* its bytes are collected; unless its job used up its attempts, or the queue
\* is stuck on a job deferred by its last one.
OverdueResolves == \A u \in Uploads :
  overdue[u] ~> \/ ustate[u] = "committed"
                \/ resv[u] = "released" /\ pstate[u] \in {"abandoned", "deleted"}
                \/ Exhausted(u) \/ (\E v \in Uploads : Stuck(v))

-----------------------------------------------------------------------------
(* Why it holds: the facts that every step preserves together *)

\* An admitted writer names an allocated part; what it published stays on disk
\* while the session can still take it.
WriterInv == \A w \in Writers : writer[w].step # "idle" =>
  /\ writer[w].part \in PartsOf[writer[w].upload]
  /\ ustate[writer[w].upload] # "none"
  /\ writer[w].step = "published" /\ ustate[writer[w].upload] \notin Settled =>
       staging[writer[w].upload][writer[w].part] = writer[w].bytes

\* Every image a finalizer handles is the image of the acknowledged parts, and
\* the object it is about to record is there.
TaskInv == \A t \in Tasks : task[t].step # "idle" =>
  /\ AllDurable(task[t].upload)
  /\ ustate[task[t].upload] # "none"
  /\ task[t].step \in {"storing", "linked", "marking"} => task[t].image = part[task[t].upload]
  /\ task[t].step = "marking" /\ Holds(t) => final[task[t].upload] # Missing
  /\ task[t].step = "unstaging" => ustate[task[t].upload] \in Settled

\* A worker that is about to remove bytes has a reason that cannot go away.
WorkerInv == \A w \in Workers :
  /\ worker[w].step \in {"sweep_staging", "sweep_row"} =>
       ustate[worker[w].upload] \in Settled
  /\ worker[w].step \in {"reconcile_staging", "reconcile_final", "reconcile_row"} =>
       ustate[worker[w].upload] = "expired"
  /\ worker[w].step \in {"delete_final", "delete_staging", "delete_row"} =>
       pstate[worker[w].upload] \in {"deleting", "deleted"}

\* Whoever published a final object, it is complete and as acknowledged.
FinalInv == \A u \in Uploads : final[u] # Missing => final[u] = part[u] /\ AllDurable(u)

DigestInv == \A u \in Uploads :
  pstate[u] \in {"finalized", "referenced", "delete_intent"} =>
    final[u] # Missing /\ digest[u] = part[u]

\* The head an upload was begun against was committed to the same node.
ExpectedInv == \A u \in Uploads :
  expected[u] \in CommittedTo(Target[u]) \cup {NoVersion}

\* The inductive invariant.
Safe == /\ RowsAgree /\ AckedPartKept /\ WriterInv /\ TaskInv /\ WorkerInv
        /\ FinalInv /\ DigestInv
IndInv == TypeOK /\ Safe

\* Maintenance is reclaiming the payload, or has: the row says so, or a worker
\* is past the grace check of reconcile_upload.
Reclaiming(u) ==
  \/ pstate[u] \in {"delete_intent", "deleting", "deleted", "abandoned"}
  \/ \E w \in Workers : /\ worker[w].upload = u
                        /\ worker[w].step \in {"reconcile_staging", "reconcile_final",
                                              "reconcile_row"}

\* Nobody writes under a worker that reclaims, and what it removed stays away.
ReclaimInv ==
  /\ \A u \in Uploads : Reclaiming(u) => Quiet(u)
  /\ \A w \in Workers :
       /\ worker[w].step \in {"reconcile_final", "reconcile_row", "delete_row"} =>
            staging[worker[w].upload] = Blank
       /\ worker[w].step \in {"reconcile_row", "delete_staging", "delete_row"} =>
            final[worker[w].upload] = Missing
  /\ ReclaimedLeavesNoBytes
==============================================================================
