# FileBelt: a TLA+ verification project

FileBelt is a file service: an API server and a set of workers in Rust around
PostgreSQL and a storage filesystem. This directory holds TLA+ specifications
of its core, TLC configurations that check them on small instances, and proofs
that TLAPS checks for every value of the constants.

Paths below are relative to the repository; `database` is
`source/crates/filebelt-database/src/lib.rs`, `storage` is
`source/crates/filebelt-storage/src/lib.rs`, `worker-io` and `maintenance` are
the sources of `source/apps/filebelt-worker-io` and
`source/apps/filebelt-worker-maintenance`.

## 1. Inventory

| Component | State it keeps | Operations | Hard behaviour |
|---|---|---|---|
| Upload lifecycle (`database` 2152-3382) | `upload_sessions`, `upload_parts`, `payload_objects`, `quota_reservations`, `drives`, `nodes.head_version_id` | begin, mark part, claim / heartbeat / abort / mark finalization, reopen, expire, commit, orphan intent, admission and completion of deletion | every function guards its own rows with its own WHERE clause; leases, fences, lost workers |
| I/O worker (`worker-io` 663-911) | requests in flight, detached finalizer tasks | `upload_part`, `finalize_upload`, downloads, revision chunks, mount staging | crash or stall between a filesystem effect and its row |
| Storage layout (`storage`) | staging parts, final objects, quarantine area | publish, finalize, verify, remove, delete, quarantine | first-writer-wins links, renames that lose a race, retries of half-done work |
| Durable jobs (`database` 3384-3500, `maintenance` 239-565) | `jobs`, `job_attempts` | claim, complete, fail, defer, heartbeat, operator retry | leases, takeovers, late answers, the limit of eight attempts |
| Maintenance (`maintenance` 129-237) | none of its own | a reconcile pass every minute, up to 32 jobs every five seconds | sweeps race with jobs, tasks and requests |
| Scrub (`maintenance` 452-527, 579-604) | `payload_objects.state`, quarantine area | schedule, verify, quarantine | decisions on rows read before hours of hashing; crash in the middle of a quarantine |
| Namespace (`database` 1785-2150, migrations 11 and 14) | `nodes.parent_id`, `node_ancestry`, `trash_root_id`, generations | create, rename, trash, restore (no code purges the trash) | the ancestry rows of a subtree are rewritten from what earlier operations left; nested trash |
| Authorization (`filebelt-authz`, `database` 1880-2080 and 3693, migration 11) | ACL entries, direct shares, groups, the projection of generations, capabilities | snapshot, evaluate, share, replace rules, publish generations, fence, check a capability | policy changes between the snapshot and its use; a share is worth what its giver holds |
| Idempotency (`idempotency.rs`) | `idempotency_records` | look up, reserve, finalize | repetitions at the same time, after a lost answer, at the expiry |
| Outbox (`database`, `maintenance` 902-1010) | `outbox_events` | insert, send, mark published, retry, retention | a send whose outcome is unknown, two publishers of one snapshot |
| Mount / NFS writes (`mount.rs`, `cow.rs`, `worker-io` 1380-1800, `maintenance` 673-900, migration 14) | write sessions, receipts, cleanup jobs, conflicts, copy-on-write trees and locks | start, write a range, flush, finalize, commit, abort, recover, expire, clean up | retries that meet the request they repeat; a lock held across admission; fenced two-phase cleanup |
| Collaboration, documents, revisions, repositories, MCP, media | their own schemas | see `PROJECT.json` | epochs, checkpoints, reconnects, receipts |
| Controllers, relays, gateways, protocols, vaults, UI | none or external | | I/O, cryptography, generated code |

How they interact: the API server and the I/O worker never call each other.
They meet in PostgreSQL (a row moved by one transaction is the other's guard)
and through signed, single-use capabilities. The I/O worker and the
maintenance worker share the filesystem; what keeps them apart is only the
state of the rows and the age of the requests. The maintenance worker finds
its work in the rows and in the job queue.

What makes each part correct: an acknowledged byte is not lost; a committed
version has its object; quota is charged and released once; a job is tried a
bounded number of times by one worker at a time and settles; corruption is
found, set aside and never destroyed; a repeated request mutates once and its
event is delivered; the ancestry rows are the tree; an authority that was
granted still holds when it is used. `PROJECT.json` lists under `hazards`
every place where this is hard to test, at its line, with the property that
would catch it.

## 2. Modules

| Module | Role |
|---|---|
| `UploadLifecycle` | uploads, payloads, quota, finalizers, part writers and the maintenance of uploads |
| `MCUploadLifecycle` | instances: `UploadRace`, `UploadHistory`, `UploadLiveness` |
| `UploadTypeProofs`, `UploadSafetyProofs` | its theorems |
| `DurableJob` | abstract specification of a durable job, without workers, leases or fences |
| `JobQueue` | the job queue as implemented, and its refinement of `DurableJob` |
| `MCJobQueue` | instances: `JobQueue`, `JobGrace` |
| `JobQueueProofs` | its theorems, the refinement among them |
| `Scrub` | scrub and quarantine of payloads on a decaying disk; checked as it is |
| `ScrubProofs` | its theorems |
| `StagedWrite` | abstract specification of a write session |
| `NfsWrite` | NFS write sessions with their I/O and maintenance workers, and the refinement of `StagedWrite` |
| `MCNfsWrite` | instances: `NfsRace`, `NfsLiveness`, `NfsCleanup` |
| `NfsWriteProofs` | its theorems, the refinement among them |
| `ApiMutation` | idempotent mutations composed with the outbox; checked as it is |
| `ApiMutationProofs` | its theorems |
| `Namespace` | the tree of a drive and its ancestry rows |
| `MCNamespace` | instance: `Namespace` |
| `NamespaceProofs` | its theorems |
| `DriveAccess` | authorization, composed with the tree of `Namespace`, which it extends |
| `MCDriveAccess` | instance: `DriveAccess` |
| `DriveAccessProofs` | its theorems; extends `NamespaceProofs` |

Operators whose comment begins with "Mutation:" are the defects that show each
property has teeth (`mutants` in `PROJECT.json`); no specification uses them.

### UploadLifecycle

The variables are the columns the code reads (their comments name them), the
bytes on disk and the program counters of three kinds of processes. A
PostgreSQL transaction is one action, with the WHERE clauses of its statements
as guards. A storage operation is one action. Between two of them anything
may happen, including the end of the process.

* Contents are abstract: a part's bytes are a member of `Bytes`, an object is
  the function from parts to bytes, and a digest is the object itself.
* Clocks are Booleans: `lapsed` (the 120-second finalization lease) and
  `overdue` (`expires_at`) become true at any moment; a heartbeat makes
  `lapsed` false again.
* A writer is `upload_part` after its capability was accepted; a task is one
  finalization capability, whose nonce allows one claim.
* Authorization generations, the collaboration and import branches of begin
  and commit, and markdown validation can only refuse a request.
  `FinalizationFails` and `WriterStops` stand for every such refusal.
* `remove_staging_parts` and `delete_payload` remove several files in one
  action. They run only for settled sessions or expired and deleting payloads,
  where the one other reader, a stalled finalizer, verifies each part and fails
  (`FinalizationFails`), and where a half-done removal is done again by the
  next attempt.
* `reopen_expired_upload_finalizations` and `expire_uploads` move all due rows
  in one transaction; here each upload moves on its own. One row that refuses
  would roll all of them back: `RowsAgree` shows that none ever does.
* The uploads share the job queue, as in `JobQueue` but without the ledger: a
  claim retires the jobs whose last lease has passed and takes the first one by
  priority that is due (`wait` stands for the lease, the backoff or the deferral
  it waits for). When that one was deferred at its last attempt the claim rolls
  back, retirements included (`ClaimRefused`), and no other job gets its turn.
* `GraceOver` is the retention grace (24 hours by default). With
  `StallsPastGrace = TRUE` requests outlive it at will; with `FALSE` they end
  before it.

### JobQueue and DurableJob

`JobQueue` has the rows of `jobs` and `job_attempts` and the workers. A claim
is one action: it retires every job whose last lease has passed, picks the
first claimable row in priority order, skipping locked rows, closes the attempt
it takes over, advances `attempt_count` and `fencing_token` together and opens
an attempt. `ClaimRefused` is the claim that the CHECK on `attempt_count` makes
fail; it holds its row lock until `ClaimRolledBack`. What a handler does is
left out: an attempt completes, fails, is rejected, is deferred or vanishes.
The operator retries a terminal job as a new job. The state `operator_blocked`
and the job kind `upload_expire` exist in the schema, but no code writes them.

`DurableJob` says what remains when leases and fences are forgotten: attempts
follow one another without gaps, one at a time, each with one outcome that is
never rewritten, and a settled job stays settled. The mapping is `Phase` for
the job's state and the ledger itself for its log.

### Scrub

One payload's row, the object at its path and the one in the quarantine area;
scrub jobs reduced to what module `JobQueue` shows of them; the worker's five
steps; and the commit and the collector that move the same row. `object` is
`"good"` until decay makes it `"corrupt"`, `"missing"` or `"unsafe"` (mode,
owner or file type, the code's `UnsafeObject`); `"collected"` marks the
collector's own removal, which the program cannot tell from a loss and the
properties can. Verifying an object is one action at the moment its outcome is
known.

`Owned` are the payloads of uploads. `scrub_payload` looks the upload of its
payload up and ends with NotFound for all others, so payloads of document saves
and mount writes are scheduled and never verified, although
`docs/StorageAndDurability.md` 811 speaks of complete payload coverage;
`UploadsCovered` is stated for `Owned`. An `"unsafe"` object fails the check
inside `quarantine_payload` too and stays `quarantining`; that is the exception
in `QuarantineCompletes`.

### NfsWrite and StagedWrite

The rows of `write_sessions`, `payload_objects`, `nfs_write_operations`, the
receipts, `nfs_staging_cleanup_jobs` and `nfs_write_conflicts`; the tree, the
published object and the lock on disk; and tasks, which are requests in an I/O
worker or jobs in a maintenance worker. A request is issued by the gateway,
begun, admitted, waits for the lock, is admitted again under it, changes the
tree, is completed in the receipt and applied by the gateway: an action each.
The client may repeat every request, with the first still at work.

* All writers are on one node and every write covers the same range: any other
  choice of ranges loses fewer bytes. A tree's bytes are the number of the
  request that wrote last.
* Sessions, credentials, exports and ACL generations are one step that makes
  the handle stale; each of them has the same effect on a write.
* Reserved bytes are the logical size. Seeks and reads change nothing.
* A retry of a pending receipt tests the writer, its lease and its authority, not
  the expiry of the capability it was first admitted with (`RetryAdmitted`).
* The writers share one cleanup queue. A maintenance worker is given its own live
  lease first, then the oldest job (`ClaimNext`; `older` stands for
  `created_at`), and an error of that job ends the pass. The next pass begins
  anew.
* The VFS as it stands issues ranges, seeks and flushes; finalization, commit,
  abort and conflicts are modelled from their handlers in the I/O worker and
  the database.
* Left out: requests for `delete_staging`, byte-range locks, and the job that
  unlinks the lock file of a settled writer (migration 14, 3604-3864).

`StagedWrite` says what remains: a session is staged, published, retained for a
conflict or discarded; writes are acknowledged in order; what becomes visible is
the last acknowledged write; a discarded session never becomes visible.

### ApiMutation

A handler looks its key up, then in one transaction reserves it, mutates,
writes the event and finalizes the receipt. The writes of the transaction
appear with its commit; before it others see only that they wait for the row. A
receipt lives until it expires, and `lapses` counts the lives of a key.
Publishers read a batch, send one event after the other, and mark each sent or
delayed; a send that fails may have arrived. Left out: fingerprints of an older
format, and the routes of `documents.rs` that check and store a response
outside the mutation's transaction.

### Namespace

Every operation holds the row of the drive, so one transaction is one action
and what is hard is not interleaving but the sequence: each operation reads rows
that others left. Names, kinds and the generations that clients send only
refuse. `mutate_nfs_namespace` is in the database and the gateway does not call
it yet; it is modelled because it is the one operation that moves a subtree.

### DriveAccess

A request takes its snapshot in one action, and its authority (`Proven`) is
evaluated on it: owner, rules on the node and its ancestors by scope, groups,
denials, and recursive shares, which count once their giver is proven to hold
what they give (a least fixed point, round by round). Later the request commits, which compares generations in the same
transaction (`lock_authorization_fence`), or publishes its generations and
hands a capability to a storage worker, which compares them with the
projection. In between, all of `Namespace`, shares, revocations, replacements
of rules, group changes and status changes happen, with the triggers that
advance generations or empty the projection. Group membership and user status
are changed by administration outside the repository's own routes; their
triggers are modelled. `"USE"` stands for the actions on content and names, which
the evaluation treats alike. One action is an exception: an owner does not hold
`BYPASS_REPOSITORY_RULES` implicitly (`filebelt-authz` 814); it is left out, and
so are drives that belong to a group, whose managers hold what an owner holds
(823-825). The model's owner is a user, and stands for the organization or service
that the same line treats like one. No property depends on either. Left out as
well: ACL rows set through NFS, the limits of 128 ancestors and 4096 principals, session expiry
and the security repair gate (all of which refuse).

## 3. Runs

| Run | Shows | Bounds |
|---|---|---|
| `UploadRace` | rows agree; bytes are intact; acknowledged parts are kept and immutable; stale finalizers are powerless | 1 chunked upload, 2 parts, 2 contents, 2 finalizers, 1 writer, 1 worker, 2 attempts, stalls past the grace |
| `UploadHistory` | linear history; exact counters | 2 uploads of sizes 2 and 1 for one file, quota 3, 2 finalizers, 1 attempt |
| `UploadLiveness` | overdue uploads resolve: committed, or released and collected; nothing is left on disk | 2 uploads of sizes 2 and 1 in one queue, quota 2, 1 finalizer, 1 writer, 1 worker, 2 attempts, requests within the grace |
| `JobQueue` | ledger, single holder, refinement of `DurableJob`; jobs settle unless one is deferred at its last attempt | 3 jobs (one deferred, one an operator's retry), 2 workers, 2 attempts |
| `JobGrace` | **violated**: a job deferred at its last attempt blocks the queue | 2 jobs, 1 worker, 2 attempts |
| `Scrub` | only decay is quarantined, out of reach, with its evidence; decay is noticed; a quarantine completes | 1 payload of an upload, 2 workers, all flaws, 3 attempts, 2 crashes |
| `NfsRace` | acknowledged writes are kept; deleted stays deleted; quota is exact; what is published is what was acknowledged; a reported range survives the sweep; refinement of `StagedWrite` | 1 writer, 3 requests, the first of them issued twice, 2 of them at work, 1 sweeper, 1 fault, 2 claims of the cleanup, the head moves once |
| `NfsLiveness` | staged bytes are published or deleted | 2 writers in one cleanup queue, one of them with a request (`Budget`), 1 at work, 1 sweeper, 1 fault, 3 claims |
| `NfsCleanup` | **violated**: a cleanup bound to a receipt that its own request completes can never end | 1 request and its retry, no fault |
| `ApiMutation` | a receipt replays its mutation; answers are one's own; no event is lost; requests are served and events delivered | 1 key, 2 bodies, 2 mutations, 2 handlers, 2 publishers, 2 requests, 1 expiry, 2 faults |
| `Namespace` | ancestry rows are exact, no cycle, the trash is rooted, nested trash stays apart | 5 nodes, depth 3, 9 operations |
| `DriveAccess` | fresh grants and honoured capabilities hold; rings of shares without a root hold nothing | root, a directory and one to be created in it, owner and 2 users, 1 group that manages the directory, 3 steps of the ACL generation, 2 of the drive, 1 of a group or a status, 2 requests |

Why the bounds are enough: the races are between a claim and the one that
replaces it (two finalizers, two workers, two attempts), between two writers
of a part with different bytes, between two uploads of a file, and between a
request and its repetition. Fences only have to differ, so a third contender
repeats the second. Two parts make an object that can be half there. Quota needs
two uploads of unequal sizes, so that a mix-up shows in the sums. The attempt
limit (`MaxAttempts`, 8 in the code) is reached in every run that has one. A
range needs an earlier one that was acknowledged before it, hence two requests;
the way from a write to its publication takes a range, a flush and a
finalization, hence three (the commit needs none), and the first is issued
again (`MaxReissued`). A queue needs two that wait in it: two uploads, two
writers. In the tree three levels below the root make a subtree with a
subtree, and nine operations nest two trashes around a rename. For authority the
shortest ring has two users, and the shortest loss at a distance is a giver who
leaves the group. `MaxCrashes` and `MaxFaults` cap the faults, to keep the
state space finite and so that fairness does not have to forbid endless
crashes. For the safety properties that section 4 lists the theorems remove
the bounds.

`CHECK_DEADLOCK FALSE` in every run: uploads, jobs, requests and operations are
finitely many and the system rests when they are settled.

Two runs end in a violation; `findings` in `PROJECT.json` quotes the
documentation that says otherwise.

* `JobGrace`: seven attempts of an `upload_reconcile` job fail or lose their
  worker within the grace, the eighth is deferred. `defer_job` writes
  `retry_wait`, no claim can increment `attempt_count` past 8, and as the job
  sorts first every claim of the queue rolls back.
* `NfsCleanup`: a range is at work when its lease or authority lapses and the
  client repeats it. The repetition fences the writer and binds the cleanup to
  the pending receipt; then the range completes that receipt, and
  `complete_nfs_staging_cleanup` refuses it ever after. The bytes and the
  reservation are settled by the first phase (`DeletedStaysDeleted` and
  `QuotaExact` hold); the job is not, and it is the one that its worker is
  given again, before the cleanup of every other writer. With two requests at
  work, no fault and without its exception `StagingSettles` fails by exactly this:
  the worker is given the job that it cannot complete in every pass, and a second
  writer's staging stays. With the exception it holds there too. (`NfsLiveness`
  itself has a crash or a lost lease instead of the second request at work; both
  together are too many states for a liveness check.)

### Fairness

Only what runs by itself is fair: clocks (leases, backoff, graces, scrub
intervals), the reconcile pass (every 60 s), the job loop (every 5 s), the end
of a handler (bounded by the maximum runtime of six hours), of a transaction
and of a storage call. Clients, operators, crashes, decay and failures owe
nothing. In `UploadLifecycle` claiming is strongly fair: a maintenance worker
runs sweeps and jobs in one loop and comes back to the queue between sweeps, so
a claim that is enabled again and again is tried. What it gets is the queue's
choice, and it may be refused: no job is promised a turn. A lease runs out
fairly once nobody runs the job. The jobs of other kinds that share the queue
are not in the model: scrubs of an operator (priority 40) and periodic ones (120)
end or become terminal after eight attempts and are never deferred, so they
delay uploads and do not stick. In
`JobQueue` the lease of a job lapses fairly only when no worker holds it; a
living worker may renew for as long as it runs. In `NfsWrite` a task that runs
goes on, the absolute expiry of a session and of a conflict comes, the sweeps
and the claims of the maintenance loop happen, and the lease of a cleanup
lapses once nobody works on it; a client owes no next request. In `ApiMutation`
handlers and publishers go on and a delayed event becomes due. `Namespace` and
`DriveAccess` are checked for safety only: nothing in them happens by itself.

The liveness properties make exceptions and say so. A job that used up
its attempts waits for an operator (`Exhausted`, and the second disjunct of
`QuarantineCompletes`). A job deferred at its last attempt sticks, and with it
its queue: `JobsSettleOrStick`, and `Stuck` in `OverdueResolves`, which asks this
of any upload of the queue. Asked of the upload's own job alone the run fails:
one upload's job sticks and the other's reservation stays active. `StagingSettles`
excepts a writer while another's cleanup can never be completed (`Uncompletable`).

## 4. Proofs

All theorems hold for every value of the constants that satisfies the named
assumptions: sizes are naturals and `Total` adds them up (`SizeAssumption`),
the maps have their types (`ShapeAssumption`), a whole object has one part
(`WholeAssumption`, from `upload_layout_and_part_count`), null values are not
ordinary ones (`NullAssumption`); for the queue and the scrub
`QueueAssumption` and `ScrubAssumption`, and `ApiAssumption`; for the tree
`NamespaceAssumption`, which asks of the initial tree what the invariant asks
of every tree; for write sessions `NfsAssumption` (a capability can be issued at
least once, and each writer has its bound on requests) with the rest of its
constants' types; for authorization `AccessAssumption`, which asks for finitely many users and for requests that ask
for something. The runs evaluate them.

**UploadLifecycle.** `TypeCorrect` proves `TypeOK`, one lemma per group of
actions. `Inductive` proves `IndInv`. None of the properties is inductive
alone, because each rests on what the processes carry between two steps:
`BytesIntact` needs `FinalInv` (whoever published a final object, stale or not,
it holds exactly the acknowledged parts), which needs `TaskInv` (the image a
finalizer read is still the image of the parts, since durable parts are
immutable, and the object that the holder is about to record is there), which
needs `AckedPartKept` and `WriterInv` (what a writer published stays until the
session settles, so that a second writer with other bytes never gets to
`mark_part_durable`), which need `WorkerInv` (a worker that is about to remove
bytes has a reason that cannot go away: settled, expired and deleting are never
left), which needs `RowsAgree`. From it follow `RowsAlwaysAgree`,
`AckedPartsKept`, `BytesAlwaysIntact`, and the action properties
`AckedPartsImmutable` and `StaleTasksPowerless`. `QuotaAlwaysExact` and
`HistoryAlwaysLinear` add `ExpectedInv` (the head an upload was begun against
was committed to the same node) and the recursion of `Total` over the set of
reservations in a state. These theorems hold with `StallsPastGrace` true: no
grace is needed to keep acknowledged bytes.

`ReclaimedBytesGone` proves `ReclaimedLeavesNoBytes` under `~StallsPastGrace`,
and needs it: with `StallsPastGrace = TRUE` TLC finds a stalled finalizer that
publishes an object after its payload was abandoned. `ReclaimInv` adds to
`IndInv` that an upload which is being reclaimed (its payload's row says so, or
a worker is past the grace check of `reconcile_upload`) is quiet, that is, no
writer or finalizer of it is in flight, and that the bytes which a worker has
removed are still away at its later steps. Quiet is stable because a request is
only admitted to an open session, and nothing that is being reclaimed is open or
finalizing (`RowsAgree`, `WorkerInv`); so two workers that run the same job, or
one after the other's crash, only ever remove.

**JobQueue.** `QueueInductive` proves `IndInv`: `LedgerAgrees` and `TokenInv`
(a fence is the number of its attempt, and no two workers run the same one).
From it `QueueTyped`, `LedgerAlwaysAgrees`, `OneHolderAlways`, and
`QueueImplementsDurableJob`: initial states map to initial states, and each
action to a step of every job it moves (a claim may retire several jobs and
try one) or to a stutter.

**Scrub.** `ScrubInductive` strengthens the two invariants with what a worker
relies on between its steps (`WorkerInv`: decay does not go away, a quarantine
is not taken back, a moved object does not return), `VaultInv` and
`CollectedInv`. `EvidenceAlwaysPreserved` follows for every step.

`ScrubTyped` is its type invariant.

**ApiMutation.** `MutationInductive` proves `IndInv`. `Replayable` (the mutation
of a key's present life is the one its receipt names) is not inductive: while a
transaction is open the mutation is not there yet, and `LockInv` says that the
lock belongs to the one handler that may commit it. `AnswersOwnMutation` needs
`ReceiptInv` (a receipt's key and body are those of its mutation), `LifeInv`
(no mutation is from a life to come) and `AnswerInv` (a handler answers with a
mutation that was committed).
`NoEventLost` needs `PublisherInv`: a publisher marks only what it sent. From
it follow `MutationTyped`, `AlwaysReplayable`, `AlwaysAnswersOwnMutation` and
`NoEventEverLost`.

**Namespace.** The statement "the ancestry rows are those of the parent and
one's own" is not enough for a rename: that the rows above the moved subtree can
be told from the rows within it rests on the rows being the closure of a tree.
`NamespaceInductive` therefore carries four parts: the types, `AncestryExact`,
unique distances that compose (of two ancestors the farther is an ancestor of the
nearer), and `TrashRooted`. The proof restates rows as a relation (node,
ancestor, distance) and shows once that adding a leaf and moving a subtree
preserve each part; the actions are instances of these two lemmas. From it
`AncestryAlwaysExact`, `NeverCycle`, `TrashAlwaysRooted`,
`NamespaceAlwaysTyped`, and the action property `TrashedStaysApart`.

**NfsWrite.** `NfsInductive` proves `IndInv`, which goes together piece by piece:
`RowInv` (which states of session, payload, handle, conflict and cleanup job
occur together), `RequestInv` (requests are used in order, at most one receipt is
pending, receipt and range go through their states together, and no request
follows a range that is not applied), `TaskInv` (what an I/O or cleanup task
relies on between two of its steps: the lock it holds, the receipt that is
pending for it, the bytes it has written, published or removed), `BytesInv` (tree
and object against the requests: what was acknowledged is there, what was deleted
is not) and `QuotaInv` (the counters, over finitely many reserved units). None of the checked properties survives a step without the
others: that a retried range writes nothing over a later one, for instance,
rests on the receipt that its task was admitted with, and that nothing writes
after the deletion on the lock and on the fence of the session. Sums of
reservations are counted as the cardinality of a set of units, which a step
changes by one session's units at a time. From `IndInv` follow `NfsTypeOK`,
`NfsAckedWritesKept`, `NfsDeletedStaysDeleted`, `NfsQuotaExact`,
`NfsPublishedIntact`, and the action property `NfsReportedRangeKept`.
`NfsImplementsStagedWrite` maps a session to `StagedWrite` (`Phase`, `Acked`,
`Visible`): every action either leaves what is mapped of every session as it is
or takes one session through one abstract step.

**DriveAccess.** What `Proven` computes is a recursive function over rounds. It
need not be known round by round: the proofs show that the rounds grow, that
they end within the number of keys (the users are finite), and so that `Proven`
is the least set that contains the roots and is closed under `Gained`
(`ProvenClosed`, `ProvenLeast`). From there on everything argues with the least
closed set: whoever holds an action holds it in every closed set, so a change
that leaves every closed set closed takes nothing away. `AccessInductive` proves
`AccessInv`: the types; `GrantInv`, by which a request whose generations are
current would be granted again, also when its user was deactivated and comes
back; and `ProjectionInv`, by which the projection has no row of an inactive user
or of older generations. It yields `AccessTypeOK` (with the unique key of active
shares), `FreshGrantsAlwaysHold`,
`HonouredCapabilitiesAlwaysHold`, `RootlessRingsNeverHold` (a ring that nobody
outside gave anything leaves a smaller closed set), and `CommitsAuthorized`, the
action property that no mutation commits without authority at that moment.
`AccessImplementsNamespace` shows that requests do to the tree what `Namespace`
allows, so its theorems carry over (`AccessTreeSound`).

Only model-checked: the liveness properties (`OverdueResolves`,
`StagingSettles`, `JobsSettleOrStick`, `UploadsCovered`, `QuarantineCompletes`,
`ServedAndDelivered`), which rest on fairness and `ENABLED`, and the
two runs that show a disagreement. Every other property of a run that passes is a
theorem.

## 5. Not modelled, and the plan

The repository has some 120 000 lines of Rust. What is modelled is the part in
which several processes share rows and files; most of the rest has no such
state. Not modelled for that reason, or because it is out of reach: HTTP and
TLS, capability signatures, byte hashing, wire formats (`control-protocol`, the
XDR of `nfs_dispatch.rs`), routing and validation, relays, gateways,
controllers, vaults, the UI and the C adapters. `PROJECT.json` lists each of
them with its reason, and the parts of the modelled components that are left
out.

Next, in this order; each is a module with its instance, and an abstract
specification where one is worth stating:

1. `Collaboration`: epochs, update groups, snapshots, checkpoints and retention.
2. `DocumentRevision`: received, staged and finalized revisions, reconnects, and
   the saves that `NfsWrite` knows only as a move of the head.
3. Revision chunk store and repositories, where they differ from the staging and
   publication of uploads.
4. MCP invocations (slots, receipts, purge) and media jobs, if their leases
   differ from `JobQueue`.
5. In `NfsWrite`: `delete_staging` requests, byte-range locks and the cleanup of
   lock files; in `DriveAccess`: ACL rows set through NFS.

With each of them its inductive invariant and theorems.
