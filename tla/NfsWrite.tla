------------------------------ MODULE NfsWrite ------------------------------
(***************************************************************************)
(* NFS write sessions: the writer, payload, receipt and cleanup-job rows,  *)
(* the requests of the gateway, the I/O worker that executes them on a     *)
(* copy-on-write tree under a per-writer lock, and the maintenance worker  *)
(* that fences and deletes what a lost client leaves behind.               *)
(*                                                                         *)
(* Each database transaction and each uninterrupted change of the disk is  *)
(* one action.  All writers write the same node and every write covers the *)
(* same range, the worst case, so the bytes of a tree are the number of    *)
(* the request that wrote them last, and Base before any.  Time is the     *)
(* passing of a lease, a capability or an absolute expiry.                 *)
(***************************************************************************)
EXTENDS Integers, FiniteSets, FiniteSetsExt

CONSTANTS
  Writers,       \* write sessions of one node
  IoTasks,       \* requests that an I/O worker process serves at a time
  Sweepers,      \* maintenance workers
  MaxRequests,   \* bound: requests of one writer
  Budget,        \* bound: how many of them each writer may use
  MaxIssues,     \* bound: capabilities issued for one request
  MaxReissued,   \* bound: requests of one writer that may be given more than one
  MaxFaults,     \* bound: crashes, and cleanup leases lost by a live worker
  MaxClaims,     \* bound: leases that a cleanup job is given
  MaxHeads,      \* bound: times that others move the head of the node
  Quota,
  NoTask, NoWriter

ASSUME NfsAssumption ==
  /\ MaxRequests \in Nat /\ MaxIssues \in Nat \ {0} /\ MaxFaults \in Nat
  /\ MaxClaims \in Nat /\ MaxHeads \in Nat /\ Quota \in Nat
  /\ Budget \in [Writers -> 0..MaxRequests]
  /\ IoTasks \cap Sweepers = {}
  /\ NoTask \notin IoTasks \cup Sweepers /\ NoWriter \notin Writers

Tasks == IoTasks \cup Sweepers
\* worker_id: the requests of an I/O worker process share one.
Owner(t) == IF t \in IoTasks THEN "io" ELSE t
Owners == {"io"} \cup Sweepers

VARIABLES
  writer,     \* write_sessions: state, fencing_token, lease and absolute expiry
              \* in the future, reserved_bytes, expected head
  handle,     \* "open" while the handle and every generation it records are current
  payload,    \* payload_objects: state and digest
  manifest,   \* write_chunks: the digest that the first flush recorded
  req,        \* per request: pending protocol row, write operation, receipt
  job,        \* nfs_staging_cleanup_jobs, created_at as the jobs that are older
  conflict,   \* nfs_write_conflicts
  drive,      \* used and reserved bytes
  head,       \* nodes.head_version_id, as the number of moves so far
  cow,        \* disk: the copy-on-write tree
  object,     \* disk: the published object
  lock,       \* disk: holder of the copy-on-write lock
  task, faults

rows == <<writer, handle, payload, manifest, req, job, conflict, drive, head>>
disk == <<cow, object, lock>>
vars == <<rows, disk, task, faults>>

Requests == 1..MaxRequests
Base == 0
Absent == -1
Content == {Base} \cup Requests
Kinds == {"range", "flush", "finalize", "abort"}
Active == {"open", "flushing", "committing", "aborting"}
Fenced == {"aborting", "aborted", "expired", "conflicted"}

NoRequest == [kind |-> "none", op |-> "none", receipt |-> "none", token |-> 0,
              issue |-> 0, fresh |-> FALSE, waiting |-> FALSE]
NoJob == [state |-> "none", source |-> 0, owner |-> NoWriter, token |-> 0, lease |-> FALSE,
          older |-> {}]
Idle == [step |-> "idle", w |-> NoWriter, n |-> 0, issue |-> 0, token |-> 0, seen |-> Absent]

WriterRow == [state: Active \cup Fenced \cup {"none", "committed"}, token: 0..3,
              lease: BOOLEAN, live: BOOLEAN, reserved: Nat, base: Nat]
PayloadRow == [state: {"none", "staging", "finalized", "referenced", "abandoned", "deleted"},
               digest: Content \cup {Absent}]
RequestRow ==
  [kind: Kinds \cup {"none"},
   op: {"none", "planned", "executing", "io_completed", "applied", "cancelled"},
   receipt: {"none", "pending", "done", "cleanup"}, token: 0..1,
   issue: 0..MaxIssues, fresh: BOOLEAN, waiting: BOOLEAN]
JobRow == [state: {"none", "pending", "leased", "physical_deleted", "completed"},
           source: 0..MaxRequests, owner: Owners \cup {NoWriter}, token: Nat, lease: BOOLEAN,
           older: SUBSET Writers]
Task == [step: {"idle", "begin", "lock", "rebegin", "io", "done",
                "claim", "wait", "locked", "deleted", "marked"},
         w: Writers \cup {NoWriter}, n: 0..MaxRequests, issue: 0..MaxIssues,
         token: Nat, seen: Content \cup {Absent}]

TypeOK ==
  /\ writer \in [Writers -> WriterRow]
  /\ handle \in [Writers -> {"open", "stale", "closed"}]
  /\ payload \in [Writers -> PayloadRow]
  /\ manifest \in [Writers -> Content \cup {Absent}]
  /\ req \in [Writers -> [Requests -> RequestRow]]
  /\ job \in [Writers -> JobRow]
  /\ conflict \in [Writers -> {"none", "retained", "copied", "discarded", "expired"}]
  /\ drive \in [used: Nat, reserved: Nat]
  /\ head \in Nat
  /\ cow \in [Writers -> Content \cup {Absent}]
  /\ object \in [Writers -> Content \cup {Absent}]
  /\ lock \in [Writers -> Tasks \cup {NoTask}]
  /\ task \in [Tasks -> Task]
  /\ faults \in 0..MaxFaults

Init ==
  /\ writer = [w \in Writers |-> [state |-> "none", token |-> 0, lease |-> FALSE,
                                  live |-> FALSE, reserved |-> 0, base |-> 0]]
  /\ handle = [w \in Writers |-> "open"]
  /\ payload = [w \in Writers |-> [state |-> "none", digest |-> Absent]]
  /\ manifest = [w \in Writers |-> Absent]
  /\ req = [w \in Writers |-> [n \in Requests |-> NoRequest]]
  /\ job = [w \in Writers |-> NoJob]
  /\ conflict = [w \in Writers |-> "none"]
  /\ drive = [used |-> 0, reserved |-> 0]
  /\ head = 0
  /\ cow = [w \in Writers |-> Absent]
  /\ object = [w \in Writers |-> Absent]
  /\ lock = [w \in Writers |-> NoTask]
  /\ task = [t \in Tasks |-> Idle]
  /\ faults = 0

-----------------------------------------------------------------------------
(* The gateway's transactions *)

Pending(w) == {n \in Requests : req[w][n].receipt = "pending"}
\* The receipt that a fence binds its cleanup to: the pending one, 0 for none.
PendingNonce(w) == IF Pending(w) = {} THEN 0 ELSE Min(Pending(w))
RangesApplied(w) ==
  \A n \in Requests : req[w][n].kind = "range" => req[w][n].op = "applied"
Unused(w) == {n \in Requests : n <= Budget[w] /\ req[w][n].kind = "none"}

\* Nothing reads the times of a writer that has come to an end.
Ended(r, state, token) == [r EXCEPT !.state = state, !.token = token, !.lease = FALSE, !.live = FALSE]

\* The lease ends at the absolute expiry at the latest.
Renewed(r) == [r EXCEPT !.lease = r.live]

\* start_nfs_write: at most one active writer of a node (unique index).
StartWrite(w) ==
  /\ writer[w].state = "none"
  /\ \A v \in Writers : writer[v].state \notin Active
  /\ drive.used + drive.reserved + 1 <= Quota
  /\ writer' = [writer EXCEPT ![w] = [state |-> "open", token |-> 1, lease |-> TRUE,
                                      live |-> TRUE, reserved |-> 1, base |-> head]]
  /\ payload' = [payload EXCEPT ![w].state = "staging"]
  /\ drive' = [drive EXCEPT !.reserved = @ + 1]
  /\ UNCHANGED <<handle, manifest, req, job, conflict, head, disk, task, faults>>

\* extend_mount_write_chunks with reserve_nfs_write_bytes: the range operation
\* is planned and its bytes are reserved before it is authorized.
PlanRange(w) ==
  /\ writer[w].state = "open" /\ writer[w].lease /\ handle[w] = "open"
  /\ payload[w].state = "staging"
  /\ RangesApplied(w) /\ Pending(w) = {} /\ Unused(w) # {}
  /\ drive.used + drive.reserved + 1 <= Quota
  /\ LET n == Min(Unused(w)) IN
       req' = [req EXCEPT ![w][n] = [NoRequest EXCEPT !.kind = "range", !.op = "planned"]]
  /\ drive' = [drive EXCEPT !.reserved = @ + 1]
  /\ writer' = [writer EXCEPT ![w] = [Renewed(@) EXCEPT !.reserved = writer[w].reserved + 1]]
  /\ UNCHANGED <<handle, payload, manifest, job, conflict, head, disk, task, faults>>

\* Writer and payload states in which each operation is admitted.
Admits(w, kind) ==
  CASE kind = "range"    -> writer[w].state = "open" /\ payload[w].state = "staging"
    [] kind = "flush"    -> writer[w].state \in {"open", "flushing"} /\ payload[w].state = "staging"
    [] kind = "finalize" -> /\ writer[w].state \in {"flushing", "committing"}
                            /\ payload[w].state \in {"staging", "finalized"}
    [] kind = "abort"    -> /\ writer[w].state \in {"open", "flushing", "aborting", "aborted"}
                            /\ payload[w].state \in {"staging", "abandoned"}
    [] OTHER             -> FALSE

\* The fence that preauthorization, reissue and admission evaluate.
FenceLive(w, kind) ==
  /\ writer[w].lease /\ writer[w].live /\ handle[w] = "open"
  /\ Admits(w, kind)

NothingUnfinished(w) ==
  /\ \A n \in Requests : ~req[w][n].waiting
  /\ Pending(w) = {}

Authorized(w, r) == [r EXCEPT !.token = writer[w].token, !.issue = 1,
                              !.fresh = TRUE, !.waiting = TRUE]

\* preauthorize_nfs_io: the pending protocol row and a capability.
PreauthorizeRange(w, n) ==
  /\ req[w][n].op = "planned" /\ ~req[w][n].waiting
  /\ FenceLive(w, "range") /\ NothingUnfinished(w)
  /\ req' = [req EXCEPT ![w][n] = Authorized(w, @)]
  /\ UNCHANGED <<writer, handle, payload, manifest, job, conflict, drive, head,
                 disk, task, faults>>

PreauthorizeTerminal(w, kind) ==
  /\ kind # "range" /\ Unused(w) # {}
  /\ FenceLive(w, kind) /\ NothingUnfinished(w) /\ RangesApplied(w)
  /\ LET n == Min(Unused(w)) IN
       req' = [req EXCEPT ![w][n] = Authorized(w, [NoRequest EXCEPT !.kind = kind])]
  /\ UNCHANGED <<writer, handle, payload, manifest, job, conflict, drive, head,
                 disk, task, faults>>

\* The replay receipt takes the place of the pending row.
Answered(r) == [r EXCEPT !.waiting = FALSE, !.fresh = FALSE]

\* reissue_nfs_io: a request without a receipt gets a new capability, and the
\* nonce of the old one is forgotten.
Reissue(w, n) ==
  /\ req[w][n].waiting /\ req[w][n].receipt = "none"
  /\ n <= MaxReissued /\ req[w][n].issue < MaxIssues
  /\ FenceLive(w, req[w][n].kind)
  /\ req' = [req EXCEPT ![w][n].issue = @ + 1, ![w][n].fresh = TRUE]
  /\ UNCHANGED <<writer, handle, payload, manifest, job, conflict, drive, head,
                 disk, task, faults>>

\* Mutation: the reply is sent before the byte plane has completed.
ApplyExtentEarly(w, n) ==
  /\ req[w][n].waiting /\ req[w][n].op \in {"executing", "io_completed"}
  /\ writer[w].state = "open" /\ writer[w].live /\ handle[w] = "open"
  /\ req' = [req EXCEPT ![w][n] = [Answered(@) EXCEPT !.op = "applied"]]
  /\ writer' = [writer EXCEPT ![w] = Renewed(@)]
  /\ UNCHANGED <<handle, payload, manifest, job, conflict, drive, head, disk, task, faults>>

\* apply_nfs_write_extent: the client is told that its write is done.
ApplyExtent(w, n) ==
  /\ req[w][n].waiting /\ req[w][n].op = "io_completed" /\ req[w][n].receipt = "done"
  /\ writer[w].state = "open" /\ writer[w].live /\ handle[w] = "open"
  /\ req[w][n].token = writer[w].token
  /\ req' = [req EXCEPT ![w][n] = [Answered(@) EXCEPT !.op = "applied"]]
  /\ writer' = [writer EXCEPT ![w] = Renewed(@)]
  /\ UNCHANGED <<handle, payload, manifest, job, conflict, drive, head, disk, task, faults>>

\* finalize_nfs_internal_io_replay: the reply to a flush.
FlushReply(w, n) ==
  /\ req[w][n].waiting /\ req[w][n].kind = "flush" /\ req[w][n].receipt = "done"
  /\ writer[w].live /\ handle[w] = "open" /\ Admits(w, "flush")
  /\ req[w][n].token = writer[w].token
  /\ req' = [req EXCEPT ![w][n] = Answered(@)]
  /\ UNCHANGED <<writer, handle, payload, manifest, job, conflict, drive, head,
                 disk, task, faults>>

-----------------------------------------------------------------------------
(* Publication and conflicts *)

HeadAsExpected(w) == head = writer[w].base

\* Publication moves the head and the namespace generation of the node, which
\* makes every handle on it stale.
Publishes(w) ==
  /\ payload' = [payload EXCEPT ![w].state = "referenced"]
  /\ drive' = [used |-> drive.used + writer[w].reserved,
               reserved |-> drive.reserved - writer[w].reserved]

\* commit_nfs_write, with the finalize reply of its request.
CommitWrite(w) ==
  /\ writer[w].state = "committing" /\ writer[w].live /\ handle[w] = "open"
  /\ payload[w].state = "finalized"
  /\ \E n \in Requests :
       /\ req[w][n].kind = "finalize" /\ req[w][n].waiting /\ req[w][n].receipt = "done"
       /\ req[w][n].token = writer[w].token
       /\ req' = [req EXCEPT ![w][n] = Answered(@)]
  /\ \/ /\ HeadAsExpected(w)
        /\ Publishes(w)
        /\ writer' = [writer EXCEPT ![w] = Ended(@, "committed", @.token)]
        /\ head' = head + 1
        /\ handle' = [v \in Writers |-> IF handle[v] = "open" /\ writer[v].state # "none"
                                        THEN "stale" ELSE handle[v]]
        /\ UNCHANGED conflict
     \/ /\ ~HeadAsExpected(w)
        /\ conflict' = [conflict EXCEPT ![w] = "retained"]
        /\ writer' = [writer EXCEPT ![w] = Ended(@, "conflicted", @.token + 1)]
        /\ UNCHANGED <<handle, payload, drive, head>>
  /\ UNCHANGED <<manifest, job, disk, task, faults>>

\* A document save or a version restore moves the head only.  The first to see
\* it is the commit.
HeadMoves ==
  /\ head < MaxHeads
  /\ \E w \in Writers : writer[w].state = "committing"
  /\ head' = head + 1
  /\ UNCHANGED <<writer, handle, payload, manifest, req, job, conflict, drive,
                 disk, task, faults>>

\* copy_nfs_write_conflict: the retained bytes become a file of their own.
CopyConflict(w) ==
  /\ conflict[w] = "retained" /\ payload[w].state = "finalized"
  /\ writer[w].state = "conflicted"
  /\ conflict' = [conflict EXCEPT ![w] = "copied"]
  /\ Publishes(w)
  /\ UNCHANGED <<writer, handle, manifest, req, job, head, disk, task, faults>>

-----------------------------------------------------------------------------
(* Fences: each hands the writer's bytes to a cleanup job *)

\* enqueue_nfs_staging_cleanup: what its one row becomes for the given receipt
\* (0 for none); a row that is already bound to a receipt keeps it.
Enqueued(w, nonce) ==
  CASE job[w].state = "none"      -> [NoJob EXCEPT !.state = "pending", !.source = nonce,
                                        !.older = {v \in Writers : job[v].state # "none"}]
    [] job[w].state = "completed" -> job[w]
    [] OTHER -> [job[w] EXCEPT !.source = IF @ = 0 THEN nonce ELSE @]

\* When it raises instead, and the transaction around it is rolled back.
CleanupEligible(w, nonce) ==
  /\ payload[w].state \in {"staging", "finalized", "abandoned", "deleted"}
  /\ conflict[w] # "retained"
  /\ nonce # 0 => /\ Enqueued(w, nonce).source = nonce
                  /\ req[w][nonce].receipt = "pending"

\* An active writer is expired under a new token.
ExpireWriter(w) ==
  /\ writer[w].state \in Active
  /\ CleanupEligible(w, PendingNonce(w))
  /\ writer' = [writer EXCEPT ![w] = Ended(@, "expired", @.token + 1)]
  /\ job' = [job EXCEPT ![w] = Enqueued(w, PendingNonce(w))]

\* close_nfs_mount_handle and end_nfs_mount_session with an active writer; the
\* second does not mind a stale handle.  Without one neither has more to do.
CloseHandle(w) ==
  /\ handle[w] \in {"open", "stale"}
  /\ handle' = [handle EXCEPT ![w] = "closed"]
  /\ ExpireWriter(w)
  /\ UNCHANGED <<payload, manifest, req, conflict, drive, head, disk, task, faults>>

\* Mutation: a lapsed lease is enough to sweep a writer.
SweptEarly(w) == TRUE

\* A range that the byte plane has completed is kept until the absolute expiry.
Swept(w) == ~\E n \in Requests : req[w][n].op = "io_completed" /\ req[w][n].receipt = "done"

\* Mutation: only lapsed leases are swept.
SweepLapsed(w) ==
  /\ writer[w].state \in {"open", "flushing", "aborting"}
  /\ ~writer[w].lease /\ Swept(w)
  /\ ExpireWriter(w)
  /\ UNCHANGED <<handle, payload, manifest, req, conflict, drive, head, disk, task, faults>>

\* sweep_expired_nfs_writers
SweepWriter(w) ==
  /\ \/ ~writer[w].live
     \/ /\ writer[w].state \in {"open", "flushing", "aborting"}
        /\ ~writer[w].lease /\ Swept(w)
  /\ ExpireWriter(w)
  /\ UNCHANGED <<handle, payload, manifest, req, conflict, drive, head, disk, task, faults>>

\* discard_nfs_write_conflict, and the sweep of conflicts after seven days.
DropConflict(w, as) ==
  /\ conflict[w] = "retained" /\ payload[w].state = "finalized"
  /\ writer[w].state = "conflicted"
  /\ conflict' = [conflict EXCEPT ![w] = as]
  /\ payload' = [payload EXCEPT ![w].state = "abandoned"]
  /\ drive' = [drive EXCEPT !.reserved = @ - writer[w].reserved]
  /\ writer' = [writer EXCEPT ![w] = Ended(@, "expired", @.token + 1)]
  /\ job' = [job EXCEPT ![w] = Enqueued(w, 0)]
  /\ UNCHANGED <<handle, manifest, req, head, disk, task, faults>>

-----------------------------------------------------------------------------
(* Time *)

LeaseLapses(w) ==
  /\ writer[w].state \in Active /\ writer[w].lease
  /\ writer' = [writer EXCEPT ![w].lease = FALSE]
  /\ UNCHANGED <<handle, payload, manifest, req, job, conflict, drive, head,
                 disk, task, faults>>

Expires(w) ==
  /\ writer[w].state \in Active /\ writer[w].live
  /\ writer' = [writer EXCEPT ![w].lease = FALSE, ![w].live = FALSE]
  /\ UNCHANGED <<handle, payload, manifest, req, job, conflict, drive, head,
                 disk, task, faults>>

CapabilityExpires(w, n) ==
  /\ req[w][n].waiting /\ req[w][n].fresh
  /\ req' = [req EXCEPT ![w][n].fresh = FALSE]
  /\ UNCHANGED <<writer, handle, payload, manifest, job, conflict, drive, head,
                 disk, task, faults>>

\* A policy, credential, ACL or namespace generation moves: also what a Web
\* upload of the same file does when it is committed.
AuthorityChanges(w) ==
  /\ writer[w].state \in Active /\ handle[w] = "open"
  /\ handle' = [handle EXCEPT ![w] = "stale"]
  /\ UNCHANGED <<writer, payload, manifest, req, job, conflict, drive, head,
                 disk, task, faults>>

-----------------------------------------------------------------------------
(* The I/O worker: begin_mount_io_operation *)

Of(t) == task[t].w
Req(t) == req[Of(t)][task[t].n]
Goes(t, step) == task' = [task EXCEPT ![t].step = step]

\* A request that ends, in success or failure, lets go of its lock.
Ends(t) ==
  /\ task' = [task EXCEPT ![t] = Idle]
  /\ lock' = [w \in Writers |-> IF lock[w] = t THEN NoTask ELSE lock[w]]

\* A request or a duplicate of it arrives before its capability expires.  One
\* that was answered before is left out: it finds its receipt completed.
Arrive(t, w, n) ==
  /\ t \in IoTasks /\ task[t].step = "idle"
  /\ req[w][n].waiting /\ req[w][n].fresh
  /\ task' = [task EXCEPT ![t] = [Idle EXCEPT !.step = "begin", !.w = w, !.n = n,
                                              !.issue = req[w][n].issue]]
  /\ UNCHANGED <<rows, disk, faults>>

\* Mutation: the request is admitted once, before it waits for the lock.
AdmittedOnce == {"begin"}
\* It is admitted again under the lock.
Admissions == {"begin", "rebegin"}

AtBegin(t) == task[t].step \in Admissions
AfterAdmission(t) == IF task[t].step = "begin" THEN "lock" ELSE "io"

\* The nonce of an older capability has neither a receipt nor an admission.
NonceKnown(t) == task[t].issue = Req(t).issue

\* A retry of a request whose receipt is pending: the receipt lives as long as
\* the writer, and the capability may have expired since it was first admitted.
RetryFenced(t) == Req(t).token = writer[Of(t)].token
RetryOfAborted(t) == Req(t).kind = "abort" /\ writer[Of(t)].state = "aborted"
RetryAdmitted(t) == FenceLive(Of(t), Req(t).kind)

\* begin_nfs_io_receipt: the first admission of a request.
FirstAdmitted(t) ==
  /\ Req(t).token = writer[Of(t)].token /\ Req(t).fresh
  /\ FenceLive(Of(t), Req(t).kind) /\ Pending(Of(t)) = {}
  /\ IF Req(t).kind = "range" THEN Req(t).op = "planned" ELSE RangesApplied(Of(t))

BeginExecutes(t) ==
  /\ AtBegin(t) /\ NonceKnown(t)
  /\ \/ /\ Req(t).receipt = "pending" /\ RetryFenced(t) /\ ~RetryOfAborted(t) /\ RetryAdmitted(t)
        /\ UNCHANGED <<req, writer>>
     \/ /\ Req(t).receipt = "none" /\ FirstAdmitted(t)
        /\ req' = [req EXCEPT ![Of(t)][task[t].n].receipt = "pending",
                              ![Of(t)][task[t].n].op = IF @ = "planned" THEN "executing" ELSE @]
        /\ writer' = [writer EXCEPT ![Of(t)] = IF Req(t).kind = "abort"
                                               THEN [Renewed(@) EXCEPT !.state = "aborting"] ELSE @]
  /\ Goes(t, AfterAdmission(t))
  /\ UNCHANGED <<handle, payload, manifest, job, conflict, drive, head, disk, faults>>

\* fence_pending_nfs_io_cleanup: the writer is fenced under its own token and
\* the receipt becomes the source of a cleanup job, which this request claims.
BeginFences(t) ==
  LET w == Of(t) IN
  /\ AtBegin(t) /\ NonceKnown(t)
  /\ Req(t).receipt = "pending" /\ RetryFenced(t) /\ ~RetryOfAborted(t) /\ ~RetryAdmitted(t)
  /\ writer[w].state \in Active \cup Fenced /\ CleanupEligible(w, task[t].n)
  /\ writer' = [writer EXCEPT ![w].state = IF @ \in Active THEN "aborting" ELSE @]
  /\ job' = [job EXCEPT ![w] = Enqueued(w, task[t].n)]
  /\ lock' = [lock EXCEPT ![w] = IF @ = t THEN NoTask ELSE @]
  /\ Goes(t, "claim")
  /\ UNCHANGED <<handle, payload, manifest, req, conflict, drive, head, cow, object, faults>>

\* The receipt is already completed, or the request is refused.
BeginEnds(t) ==
  /\ AtBegin(t)
  /\ \/ ~NonceKnown(t)
     \/ Req(t).receipt \in {"done", "cleanup"}
     \/ Req(t).receipt = "pending" /\ (~RetryFenced(t) \/ RetryOfAborted(t))
     \/ /\ Req(t).receipt = "pending" /\ ~RetryAdmitted(t)
        /\ ~CleanupEligible(Of(t), task[t].n) \/ writer[Of(t)].state \notin Active \cup Fenced
     \/ Req(t).receipt = "none" /\ ~FirstAdmitted(t)
  /\ Ends(t)
  /\ UNCHANGED <<rows, cow, object, faults>>

\* acquire_mount_cow_lock
AcquireLock(t) ==
  /\ task[t].step \in {"lock", "wait"} /\ lock[Of(t)] = NoTask
  /\ lock' = [lock EXCEPT ![Of(t)] = t]
  /\ Goes(t, IF task[t].step = "wait" THEN "locked"
             ELSE IF "rebegin" \in Admissions THEN "rebegin" ELSE "io")
  /\ UNCHANGED <<rows, cow, object, faults>>

-----------------------------------------------------------------------------
(* The I/O worker: bytes, under the lock *)

\* Mutation: the tree is rebuilt whether it is missing or not.
EnsuredAfresh(content) == Base

\* ensure_mount_cow: a missing tree is built from the base version.
Ensured(content) == IF content = Absent THEN Base ELSE content
Saw(t, content) == task' = [task EXCEPT ![t].step = "done", ![t].seen = content]

WriteRange(t) ==
  /\ task[t].step = "io" /\ Req(t).kind = "range"
  /\ cow' = [cow EXCEPT ![Of(t)] = task[t].n]
  /\ Saw(t, task[t].n)
  /\ UNCHANGED <<rows, object, lock, faults>>

ReadManifest(t) ==
  /\ task[t].step = "io" /\ Req(t).kind = "flush"
  /\ cow' = [cow EXCEPT ![Of(t)] = Ensured(@)]
  /\ Saw(t, Ensured(cow[Of(t)]))
  /\ UNCHANGED <<rows, object, lock, faults>>

\* The tree is ensured and renamed to the payload's path by publish_cow, which
\* fails when there is an object already: the tree is never missing by then.
PublishCow(t) ==
  /\ task[t].step = "io" /\ Req(t).kind = "finalize"
  /\ \/ /\ object[Of(t)] = Absent
        /\ object' = [object EXCEPT ![Of(t)] = Ensured(cow[Of(t)])]
        /\ cow' = [cow EXCEPT ![Of(t)] = Absent]
        /\ Saw(t, Ensured(cow[Of(t)]))
        /\ UNCHANGED lock
     \/ /\ object[Of(t)] # Absent
        /\ cow' = [cow EXCEPT ![Of(t)] = Ensured(@)]
        /\ Ends(t)
        /\ UNCHANGED object
  /\ UNCHANGED <<rows, faults>>

AbortCow(t) ==
  /\ task[t].step = "io" /\ Req(t).kind = "abort"
  /\ cow' = [cow EXCEPT ![Of(t)] = Absent]
  /\ Goes(t, "done")
  /\ UNCHANGED <<rows, object, lock, faults>>

-----------------------------------------------------------------------------
(* The I/O worker: complete_mount_io_operation *)

\* Neither the lease, the expiry nor the handle is looked at, and for a range
\* not the state of the writer.
CompletionFenced(t) == Req(t).token = writer[Of(t)].token

\* Mutation: a flush does not look at the state of the writer either.
FinishableAnyState(t) ==
  LET w == Of(t) IN
  /\ Req(t).receipt = "pending" /\ CompletionFenced(t)
  /\ CASE Req(t).kind = "range"    -> Req(t).op = "executing"
       [] Req(t).kind = "flush"    -> manifest[w] \in {Absent, task[t].seen}
       [] Req(t).kind = "finalize" -> /\ writer[w].state = "flushing" /\ payload[w].state = "staging"
                                      /\ manifest[w] = task[t].seen
       [] OTHER -> /\ writer[w].state = "aborting" /\ CleanupEligible(w, 0)
                   /\ payload[w].state \in {"staging", "finalized"}

\* complete_nfs_io_receipt: what each operation requires.
Finishable(t) ==
  LET w == Of(t) IN
  /\ Req(t).receipt = "pending" /\ CompletionFenced(t)
  /\ CASE Req(t).kind = "range"    -> Req(t).op = "executing"
       [] Req(t).kind = "flush"    -> /\ writer[w].state \in {"open", "flushing"}
                                      /\ manifest[w] \in {Absent, task[t].seen}
       [] Req(t).kind = "finalize" -> /\ writer[w].state = "flushing" /\ payload[w].state = "staging"
                                      /\ manifest[w] = task[t].seen
       [] OTHER -> /\ writer[w].state = "aborting" /\ CleanupEligible(w, 0)
                   /\ payload[w].state \in {"staging", "finalized"}

FinishRange(t) ==
  /\ Req(t).kind = "range"
  /\ UNCHANGED <<writer, payload, manifest, job, drive>>

FinishFlush(t) ==
  /\ Req(t).kind = "flush"
  /\ manifest' = [manifest EXCEPT ![Of(t)] = task[t].seen]
  /\ writer' = [writer EXCEPT ![Of(t)] = [Renewed(@) EXCEPT !.state = "flushing"]]
  /\ UNCHANGED <<payload, job, drive>>

FinishFinalize(t) ==
  /\ Req(t).kind = "finalize"
  /\ payload' = [payload EXCEPT ![Of(t)] = [state |-> "finalized", digest |-> task[t].seen]]
  /\ writer' = [writer EXCEPT ![Of(t)] = [Renewed(@) EXCEPT !.state = "committing"]]
  /\ UNCHANGED <<manifest, job, drive>>

\* Mutation: an abort leaves the reservation to the cleanup.
FinishAbortUnreleased(t) ==
  /\ Req(t).kind = "abort"
  /\ payload' = [payload EXCEPT ![Of(t)].state = "abandoned"]
  /\ writer' = [writer EXCEPT ![Of(t)] = Ended(@, "aborted", @.token)]
  /\ job' = [job EXCEPT ![Of(t)] = Enqueued(Of(t), 0)]
  /\ UNCHANGED <<manifest, drive>>

\* finish_nfs_write_abort
FinishAbort(t) ==
  /\ Req(t).kind = "abort"
  /\ payload' = [payload EXCEPT ![Of(t)].state = "abandoned"]
  /\ writer' = [writer EXCEPT ![Of(t)] = Ended(@, "aborted", @.token)]
  /\ drive' = [drive EXCEPT !.reserved = @ - writer[Of(t)].reserved]
  /\ job' = [job EXCEPT ![Of(t)] = Enqueued(Of(t), 0)]
  /\ UNCHANGED manifest

CompleteOperation(t) ==
  /\ task[t].step = "done" /\ Finishable(t)
  /\ FinishRange(t) \/ FinishFlush(t) \/ FinishFinalize(t) \/ FinishAbort(t)
  /\ req' = [req EXCEPT ![Of(t)][task[t].n].receipt = "done",
                        ![Of(t)][task[t].n].op = IF @ = "executing" THEN "io_completed" ELSE @]
  /\ Ends(t)
  /\ UNCHANGED <<handle, conflict, head, cow, object, faults>>

\* Refused as stale, or already completed with this outcome.
CompletionRefused(t) ==
  /\ task[t].step = "done" /\ ~Finishable(t)
  /\ Ends(t)
  /\ UNCHANGED <<rows, cow, object, faults>>

-----------------------------------------------------------------------------
(* Two-phase cleanup, by the request that fenced the writer or by maintenance *)

CleanupAuthority(w) ==
  /\ writer[w].state \in Fenced
  /\ payload[w].state \in {"staging", "finalized", "abandoned", "deleted"}
  /\ conflict[w] # "retained"

LeasedTo(w, o) == job[w].lease /\ job[w].owner = o
Unfinished(w) == job[w].state \in {"pending", "leased", "physical_deleted"}
Claimable(w, o) ==
  /\ CleanupAuthority(w) /\ Unfinished(w)
  /\ job[w].lease => LeasedTo(w, o)

\* A worker gets its own live lease again; any other claim takes a new token.
Claimed(w, o) ==
  IF LeasedTo(w, o) THEN job[w]
  ELSE [job[w] EXCEPT !.state = IF @ = "physical_deleted" THEN @ ELSE "leased",
                      !.owner = o, !.lease = TRUE, !.token = @ + 1]

TakesJob(t, w) ==
  /\ Claimed(w, Owner(t)).token <= MaxClaims
  /\ job' = [job EXCEPT ![w] = Claimed(w, Owner(t))]
  /\ task' = [task EXCEPT ![t] = [Idle EXCEPT !.step = "wait", !.w = w,
                                              !.token = Claimed(w, Owner(t)).token]]

\* recover_expired_mount_io: the job must be bound to this request's receipt.
ClaimOwnFence(t) ==
  /\ task[t].step = "claim"
  /\ Claimable(Of(t), Owner(t)) /\ job[Of(t)].source = task[t].n
  /\ TakesJob(t, Of(t))
  /\ UNCHANGED <<writer, handle, payload, manifest, req, conflict, drive, head, disk, faults>>

ClaimRefused(t) ==
  /\ task[t].step = "claim"
  /\ \/ ~(Claimable(Of(t), Owner(t)) /\ job[Of(t)].source = task[t].n)
     \/ Claimed(Of(t), Owner(t)).token > MaxClaims
  /\ Ends(t)
  /\ UNCHANGED <<rows, cow, object, faults>>

\* The jobs that are free or leased to this worker, and those of them that go
\* first: its own, then the oldest.
Candidates(o) == {w \in Writers : Unfinished(w) /\ (job[w].lease => LeasedTo(w, o))}
Preferred(o) == IF \E v \in Candidates(o) : LeasedTo(v, o)
                THEN {v \in Candidates(o) : LeasedTo(v, o)} ELSE Candidates(o)
Oldest(jobs) == {w \in jobs : jobs \cap job[w].older = {}}

\* claim_next_nfs_staging_cleanup.  Each pass of the maintenance loop begins
\* here again, and an error of the job it gets ends the pass.
ClaimNext(t, w) ==
  /\ t \in Sweepers /\ task[t].step = "idle"
  /\ w \in Oldest(Preferred(Owner(t)))
  /\ Claimable(w, Owner(t))
  /\ TakesJob(t, w)
  /\ UNCHANGED <<writer, handle, payload, manifest, req, conflict, drive, head, disk, faults>>

HoldsLease(t) ==
  /\ job[Of(t)].state \in {"leased", "physical_deleted"}
  /\ LeasedTo(Of(t), Owner(t)) /\ job[Of(t)].token = task[t].token

\* heartbeat_nfs_staging_cleanup after the wait for the lock, and
\* delete_cow_staging: the tree and the object, whichever is there.
DeleteStaging(t) ==
  /\ task[t].step = "locked" /\ HoldsLease(t)
  /\ cow' = [cow EXCEPT ![Of(t)] = Absent]
  /\ object' = [object EXCEPT ![Of(t)] = Absent]
  /\ Goes(t, "deleted")
  /\ UNCHANGED <<rows, lock, faults>>

\* Mutation: the reservation is released for an aborted writer once more.
StillReserved(w) == writer[w].state \in Fenced

HoldsReservation(w) ==
  writer[w].state \in {"aborting", "expired"} /\ payload[w].state \in {"staging", "finalized"}

\* mark_nfs_staging_cleanup_physical_deleted, then the lock file is removed.
MarkPhysicalDeleted(t) ==
  LET w == Of(t) IN
  /\ task[t].step = "deleted" /\ HoldsLease(t) /\ CleanupAuthority(w)
  /\ \/ /\ job[w].state = "leased"
        /\ drive' = [drive EXCEPT !.reserved = IF HoldsReservation(w) THEN @ - writer[w].reserved ELSE @]
        /\ payload' = [payload EXCEPT ![w].state = "deleted"]
        /\ writer' = [writer EXCEPT ![w] = IF @.state = "aborting" THEN Ended(@, "aborted", @.token) ELSE @]
        /\ req' = [req EXCEPT ![w] = [n \in Requests |->
                     [req[w][n] EXCEPT !.op = IF @ \in {"planned", "executing", "io_completed"}
                                              THEN "cancelled" ELSE @]]]
        /\ job' = [job EXCEPT ![w].state = "physical_deleted"]
     \/ /\ job[w].state = "physical_deleted"
        /\ UNCHANGED <<drive, payload, writer, req, job>>
  /\ lock' = [lock EXCEPT ![w] = NoTask]
  /\ Goes(t, "marked")
  /\ UNCHANGED <<handle, manifest, conflict, head, cow, object, faults>>

\* The receipt that the job stands for is still open, or closed as cleaned up.
SourceClosable(w) ==
  job[w].source # 0 => req[w][job[w].source].receipt \in {"pending", "cleanup"}

\* complete_nfs_staging_cleanup
CompleteCleanup(t) ==
  LET w == Of(t) IN
  /\ task[t].step = "marked" /\ HoldsLease(t)
  /\ job[w].state = "physical_deleted" /\ SourceClosable(w)
  /\ req' = [req EXCEPT ![w] = [n \in Requests |->
               IF n = job[w].source THEN [req[w][n] EXCEPT !.receipt = "cleanup"] ELSE req[w][n]]]
  /\ job' = [job EXCEPT ![w].state = "completed", ![w].lease = FALSE]
  /\ Ends(t)
  /\ UNCHANGED <<writer, handle, payload, manifest, conflict, drive, head, cow, object, faults>>

\* A step of the cleanup is refused, or finds the job completed.
CleanupRefused(t) ==
  /\ \/ task[t].step = "locked" /\ ~HoldsLease(t)
     \/ task[t].step = "deleted" /\ ~(HoldsLease(t) /\ CleanupAuthority(Of(t)))
     \/ task[t].step = "marked" /\ ~(HoldsLease(t) /\ SourceClosable(Of(t)))
  /\ Ends(t)
  /\ UNCHANGED <<rows, cow, object, faults>>

\* The lease of a cleanup lapses: when nobody is working on it, or, counted as
\* a fault, while its worker stalls.
Working(w, o) == \E t \in Tasks : /\ Of(t) = w /\ Owner(t) = o
                                  /\ task[t].step \in {"wait", "locked", "deleted", "marked"}
CleanupLeaseLapses(w) ==
  /\ job[w].lease
  /\ \/ ~Working(w, job[w].owner) /\ UNCHANGED faults
     \/ /\ Working(w, job[w].owner) /\ faults < MaxFaults
        /\ faults' = faults + 1
  /\ job' = [job EXCEPT ![w].lease = FALSE]
  /\ UNCHANGED <<writer, handle, payload, manifest, req, conflict, drive, head, disk, task>>

\* The process dies, or an error ends the request: the kernel drops the lock.
Crash(t) ==
  /\ task[t].step # "idle" /\ faults < MaxFaults
  /\ faults' = faults + 1
  /\ Ends(t)
  /\ UNCHANGED <<rows, cow, object>>

-----------------------------------------------------------------------------
GatewayStep(w) ==
  \/ StartWrite(w) \/ PlanRange(w) \/ CommitWrite(w) \/ CopyConflict(w)
  \/ CloseHandle(w)
  \/ \E n \in Requests : \/ PreauthorizeRange(w, n) \/ Reissue(w, n)
                         \/ ApplyExtent(w, n) \/ FlushReply(w, n)
  \/ \E kind \in Kinds : PreauthorizeTerminal(w, kind)
  \/ \E as \in {"discarded", "expired"} : DropConflict(w, as)

TimePasses(w) ==
  \/ LeaseLapses(w) \/ Expires(w) \/ AuthorityChanges(w)
  \/ \E n \in Requests : CapabilityExpires(w, n)

IoStep(t) ==
  \/ BeginExecutes(t) \/ BeginFences(t) \/ BeginEnds(t) \/ AcquireLock(t)
  \/ WriteRange(t) \/ ReadManifest(t) \/ PublishCow(t) \/ AbortCow(t)
  \/ CompleteOperation(t) \/ CompletionRefused(t)

CleanupStep(t) ==
  \/ ClaimOwnFence(t) \/ ClaimRefused(t)
  \/ DeleteStaging(t) \/ MarkPhysicalDeleted(t)
  \/ CompleteCleanup(t) \/ CleanupRefused(t)

Next ==
  \/ HeadMoves
  \/ \E w \in Writers : GatewayStep(w) \/ TimePasses(w) \/ SweepWriter(w) \/ CleanupLeaseLapses(w)
  \/ \E t \in IoTasks, w \in Writers : \E n \in Requests : Arrive(t, w, n)
  \/ \E t \in Sweepers, w \in Writers : ClaimNext(t, w)
  \/ \E t \in Tasks : IoStep(t) \/ CleanupStep(t) \/ Crash(t)

Spec == Init /\ [][Next]_vars

\* Tasks run, time passes, and the maintenance loop sweeps and claims.
Fairness ==
  /\ \A t \in Tasks : WF_vars(IoStep(t) \/ CleanupStep(t))
  /\ \A t \in Sweepers : WF_vars(\E w \in Writers : ClaimNext(t, w))
  /\ \A w \in Writers : /\ WF_vars(Expires(w)) /\ WF_vars(SweepWriter(w))
                        /\ WF_vars(DropConflict(w, "expired"))
                        /\ WF_vars(~Working(w, job[w].owner) /\ CleanupLeaseLapses(w))

FairSpec == Spec /\ Fairness

-----------------------------------------------------------------------------
(* Properties *)

LastApplied(w) == Max({Base} \cup {n \in Requests : req[w][n].kind = "range" /\ req[w][n].op = "applied"})

\* What the program would read back: the object once there is one.
Bytes(w) == IF object[w] # Absent THEN object[w] ELSE IF cow[w] # Absent THEN cow[w] ELSE Base

\* A write that the client was told is done is in the bytes until the writer is
\* given up, whatever requests are retried, repeated or cut short; on top of it
\* there is at most the one range whose reply is still outstanding.
AckedWritesKept ==
  \A w \in Writers : writer[w].state \in {"open", "flushing", "committing"} =>
    \/ Bytes(w) = LastApplied(w)
    \/ Bytes(w) \in {n \in Requests : req[w][n].op \in {"executing", "io_completed"}}

\* What is or may be published is the object on disk, has the recorded digest
\* and holds the last acknowledged write; nothing cleans it up.
PublishedIntact ==
  \A w \in Writers :
    payload[w].state = "referenced" \/ writer[w].state = "committing" \/ conflict[w] = "retained" =>
      /\ object[w] = payload[w].digest /\ payload[w].digest = LastApplied(w)
      /\ payload[w].state = "referenced" \/ conflict[w] = "retained" => job[w].state = "none"

\* Once a cleanup has recorded the deletion, no late request brings bytes back.
DeletedStaysDeleted ==
  \A w \in Writers : job[w].state \in {"physical_deleted", "completed"} =>
    cow[w] = Absent /\ object[w] = Absent

\* The units that the writers with a payload in one of these states have reserved.
Units(states) ==
  UNION {{w} \X (1..writer[w].reserved) : w \in {v \in Writers : payload[v].state \in states}}

\* Reservations are released exactly once, whether a writer is published,
\* copied, aborted, discarded, expired or cleaned up after a crash.
QuotaExact ==
  /\ drive.reserved = Cardinality(Units({"staging", "finalized"}))
  /\ drive.used = Cardinality(Units({"referenced"}))
  /\ drive.used + drive.reserved <= Quota

\* Under a live writer and handle, bytes that the worker reported are not given
\* up by the sweep: the gateway can still answer the client.
ReportedRangeKept ==
  [][\A w \in Writers, n \in Requests :
       (/\ req[w][n].op = "io_completed" /\ writer[w].state = "open"
        /\ writer[w].live /\ handle[w] = "open")
       => writer'[w].state # "expired" \/ handle'[w] = "closed"]_vars

\* The write session as its user sees it.  What a reader sees of a published
\* session are the bytes of its object.
Phase == [w \in Writers |->
  IF writer[w].state = "none" THEN "none"
  ELSE IF writer[w].state \in {"open", "flushing", "committing"} THEN "staged"
  ELSE IF payload[w].state = "referenced" THEN "published"
  ELSE IF conflict[w] = "retained" THEN "retained" ELSE "discarded"]
Acked == [w \in Writers |-> LastApplied(w)]
Visible == [w \in Writers |-> IF payload[w].state = "referenced" THEN object[w] ELSE Absent]

Staged == INSTANCE StagedWrite WITH phase <- Phase, acked <- Acked, visible <- Visible

\* A session is published at most once, with exactly the writes that were
\* acknowledged, and for good; a fence is final whatever arrives after it.
ImplementsStagedWrite == Staged!Spec

\* The bytes are gone, but the receipt that the job stands for was completed
\* by somebody else: the job is claimed again for ever, before younger ones.
Uncompletable(w) == job[w].state = "physical_deleted" /\ ~SourceClosable(w)

\* Staged bytes are published or deleted in the end, with their reservation,
\* unless the cleanup is busy with a job of another writer that it can never
\* complete.
StagingSettles ==
  \A w \in Writers : payload[w].state = "staging" ~>
    \/ payload[w].state \in {"referenced", "deleted"}
    \/ \E v \in Writers \ {w} : Uncompletable(v)

\* Receipt completion is a crash-recoverable step of a cleanup: a job whose
\* bytes are deleted can always be completed.
CleanupCompletable ==
  \A w \in Writers : job[w].state = "physical_deleted" => SourceClosable(w)

=============================================================================
