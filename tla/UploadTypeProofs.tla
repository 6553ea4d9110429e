---------------------------- MODULE UploadTypeProofs --------------------------
(* Type correctness of UploadLifecycle.  The records of jobs and processes   *)
(* are handled through the update lemmas, which keep their sets folded.      *)
EXTENDS UploadLifecycle, TLAPS

USE DEF uploadRow, payloadRow, driveRow, disk

LEMMA ImageType ==
  /\ Blank \in Image
  /\ \A i \in Image : \A p \in Parts : \A b \in Bytes \cup {NoBytes} : [i EXCEPT ![p] = b] \in Image
BY DEF Blank, Image

LEMMA SizeType == \A u \in Uploads : Size[u] \in Nat
BY SizeAssumption

LEMMA IdleTypes ==
  IdleWriter \in WriterRecord /\ IdleTask \in TaskRecord /\ IdleWorker \in WorkerRecord
BY DEF WriterRecord, TaskRecord, WorkerRecord

LEMMA WriterUpdate ==
  ASSUME NEW r \in WriterRecord, r.step # "idle"
  PROVE  /\ [r EXCEPT !.step = "published"] \in WriterRecord
         /\ r.upload \in Uploads /\ r.part \in Parts /\ r.bytes \in Bytes
BY DEF WriterRecord, IdleWriter

LEMMA TaskUpdate ==
  ASSUME NEW r \in TaskRecord, r.step # "idle", NEW s \in TaskSteps
  PROVE  /\ [r EXCEPT !.step = s] \in TaskRecord
         /\ \A i \in Image \cup {Missing} : [r EXCEPT !.step = s, !.image = i] \in TaskRecord
         /\ r.upload \in Uploads /\ r.fence \in Nat /\ r.image \in Image \cup {Missing}
<1> DEFINE R == [step: TaskSteps, upload: Uploads, fence: Nat, image: Image \cup {Missing}]
<1>1. r \in R
  BY DEF TaskRecord, IdleTask
<1>2. /\ [r EXCEPT !.step = s] \in R
      /\ \A i \in Image \cup {Missing} : [r EXCEPT !.step = s, !.image = i] \in R
      /\ r.upload \in Uploads /\ r.fence \in Nat /\ r.image \in Image \cup {Missing}
  BY <1>1
<1>3. QED
  BY <1>2 DEF TaskRecord

LEMMA WorkerUpdate ==
  ASSUME NEW r \in WorkerRecord, r.step # "idle", NEW s \in WorkerSteps
  PROVE  [r EXCEPT !.step = s] \in WorkerRecord /\ r.upload \in Uploads
BY DEF WorkerRecord, IdleWorker

LEMMA JobUpdate ==
  ASSUME NEW r \in JobRecord, NEW wait \in {"now", "later", "grace"},
         NEW s \in {"none", "queued", "running", "retry_wait", "terminal", "complete"}
  PROVE  /\ [r EXCEPT !.state = s] \in JobRecord
         /\ [r EXCEPT !.wait = wait] \in JobRecord
         /\ [r EXCEPT !.state = s, !.wait = wait] \in JobRecord
         /\ r.kind \in {"none", "reconcile", "delete"} /\ r.token \in 0..MaxAttempts
BY DEF JobRecord

LEMMA GoesType ==
  ASSUME TypeOK, NEW t \in Tasks, task[t].step # "idle", NEW s \in TaskSteps, Goes(t, s)
  PROVE  task' \in [Tasks -> TaskRecord] /\ task[t].upload \in Uploads
<1>1. task \in [Tasks -> TaskRecord] /\ task[t] \in TaskRecord
  BY DEF TypeOK
<1>2. task' = [task EXCEPT ![t] = [task[t] EXCEPT !.step = s]]
  BY DEF Goes
<1>3. QED
  BY <1>1, <1>2, TaskUpdate

LEMMA TurnsType ==
  ASSUME TypeOK, NEW w \in Workers, worker[w].step # "idle", NEW s \in WorkerSteps, Turns(w, s)
  PROVE  worker' \in [Workers -> WorkerRecord] /\ worker[w].upload \in Uploads
<1>1. worker \in [Workers -> WorkerRecord] /\ worker[w] \in WorkerRecord
  BY DEF TypeOK
<1>2. worker' = [worker EXCEPT ![w] = [worker[w] EXCEPT !.step = s]]
  BY DEF Turns
<1>3. QED
  BY <1>1, <1>2, WorkerUpdate

LEMMA JobEndsType ==
  ASSUME TypeOK, NEW w \in Workers, worker[w].step # "idle",
         NEW s \in {"none", "queued", "running", "retry_wait", "terminal", "complete"},
         NEW until \in {"now", "later", "grace"}, JobEnds(w, s, until)
  PROVE  job' \in [Uploads -> JobRecord] /\ worker' \in [Workers -> WorkerRecord]
<1> DEFINE u == worker[w].upload
<1>1. job \in [Uploads -> JobRecord] /\ worker \in [Workers -> WorkerRecord]
  BY DEF TypeOK
<1>2. worker' \in [Workers -> WorkerRecord]
  BY <1>1, IdleTypes DEF JobEnds
<1>3. u \in Uploads
  BY <1>1, WorkerUpdate DEF WorkerSteps
<1>4. [job[u] EXCEPT !.state = s, !.wait = until] \in JobRecord
  BY <1>1, <1>3, JobUpdate
<1>5. job' = job \/ job' = [job EXCEPT ![u] = [job[u] EXCEPT !.state = s, !.wait = until]]
  BY DEF JobEnds
<1>6. QED
  BY <1>1, <1>2, <1>4, <1>5

LEMMA EnqueueType ==
  ASSUME TypeOK, NEW u \in Uploads, NEW k \in {"reconcile", "delete"}, Enqueue(u, k)
  PROVE  job' \in [Uploads -> JobRecord]
<1>1. [kind |-> k, state |-> "queued", token |-> 0, wait |-> "now"] \in JobRecord
  BY ShapeAssumption DEF JobRecord
<1>2. QED
  BY <1>1 DEF Enqueue, TypeOK

LEMMA RetiredType ==
  ASSUME TypeOK, NEW u \in Uploads
  PROVE  Retired(u) \in JobRecord
<1>1. job[u] \in JobRecord
  BY DEF TypeOK
<1>2. QED
  BY <1>1, JobUpdate DEF Retired

LEMMA WriterType ==
  ASSUME TypeOK, NEW w \in Writers, WriterNext(w)
  PROVE  TypeOK'
<1>1. ASSUME NEW u \in Uploads, NEW p \in Parts, NEW b \in Bytes, AdmitPart(w, u, p, b)
      PROVE  TypeOK'
  <2>1. [step |-> "admitted", upload |-> u, part |-> p, fence |-> fence[u], bytes |-> b] \in WriterRecord
    BY <1>1, TypeOK DEF TypeOK, WriterRecord
  <2>2. QED
    BY <1>1, <2>1, ImageType DEF TypeOK, AdmitPart, UploadStates, PayloadStates
<1>2. ASSUME PublishPart(w) PROVE TypeOK'
  <2>1. /\ writer[w].upload \in Uploads /\ writer[w].part \in Parts /\ writer[w].bytes \in Bytes
        /\ [writer[w] EXCEPT !.step = "published"] \in WriterRecord
    BY <1>2, WriterUpdate DEF PublishPart, TypeOK
  <2>2. writer' \in [Writers -> WriterRecord]
    BY <1>2, <2>1, IdleTypes DEF PublishPart, TypeOK
  <2>3. [staging[writer[w].upload] EXCEPT ![writer[w].part] = writer[w].bytes] \in Image
    BY <1>2, <2>1, ImageType DEF TypeOK
  <2>4. staging' \in [Uploads -> Image]
    BY <1>2, <2>1, <2>3 DEF PublishPart, TypeOK
  <2>5. QED
    BY <1>2, <2>1, <2>2, <2>3, <2>4, ImageType DEF TypeOK, PublishPart, UploadStates,
         PayloadStates
<1>3. ASSUME MarkPartDurable(w) PROVE TypeOK'
  <2>1. writer' \in [Writers -> WriterRecord]
    BY <1>3, IdleTypes DEF MarkPartDurable, TypeOK
  <2>2. writer[w].upload \in Uploads /\ writer[w].part \in Parts /\ writer[w].bytes \in Bytes
    BY <1>3, WriterUpdate DEF MarkPartDurable, TypeOK
  <2>3. [part[writer[w].upload] EXCEPT ![writer[w].part] = writer[w].bytes] \in Image
    BY <1>3, <2>2, ImageType DEF TypeOK
  <2>4. part' \in [Uploads -> Image]
    BY <1>3, <2>2, <2>3 DEF MarkPartDurable, TypeOK
  <2>5. QED
    BY <1>3, <2>1, <2>2, <2>3, <2>4, ImageType DEF TypeOK, MarkPartDurable, UploadStates,
         PayloadStates
<1>4. ASSUME WriterStops(w) PROVE TypeOK'
  <2>1. writer' \in [Writers -> WriterRecord]
    BY <1>4, IdleTypes DEF WriterStops, TypeOK
  <2>2. QED
    BY <1>4, <2>1, ImageType DEF TypeOK, WriterStops, UploadStates, PayloadStates
<1>5. QED
  BY <1>1, <1>2, <1>3, <1>4, WriterNext(w) DEF WriterNext

LEMMA TaskType ==
  ASSUME TypeOK, NEW t \in Tasks, TaskNext(t)
  PROVE  TypeOK'
<1>1. ASSUME NEW u \in Uploads, ClaimFinalization(t, u) PROVE TypeOK'
  <2>1. [step |-> "claimed", upload |-> u, fence |-> fence[u], image |-> Missing] \in TaskRecord
    BY <1>1, TypeOK DEF TypeOK, TaskRecord, TaskSteps
  <2>2. QED
    BY <1>1, <2>1, ImageType DEF TypeOK, ClaimFinalization, UploadStates, PayloadStates
<1>2. ASSUME ReadManifest(t) PROVE TypeOK'
  <2>1. /\ task[t] \in TaskRecord /\ task[t].upload \in Uploads
        /\ [task[t] EXCEPT !.step = "failed"] \in TaskRecord
    BY <1>2, TaskUpdate DEF ReadManifest, TaskAt, TaskSteps, TypeOK
  <2>2. [task[t] EXCEPT !.step = "storing", !.image = part[task[t].upload]] \in TaskRecord
    BY <1>2, <2>1, TaskUpdate DEF ReadManifest, TaskAt, TaskSteps, TypeOK
  <2>3. task' \in [Tasks -> TaskRecord]
    BY <1>2, <2>1, <2>2 DEF ReadManifest, TypeOK
  <2>4. QED
    BY <1>2, <2>1, <2>2, <2>3, ImageType DEF TypeOK, ReadManifest, UploadStates,
         PayloadStates
<1>3. ASSUME StoreObject(t) PROVE TypeOK'
  <2>1. task' \in [Tasks -> TaskRecord] /\ task[t].upload \in Uploads
    BY <1>3, GoesType DEF StoreObject, TaskSteps, TaskAt
  <2>2. QED
    BY <1>3, <2>1, ImageType DEF TypeOK, StoreObject, UploadStates, PayloadStates
<1>4. ASSUME RenameChunks(t) PROVE TypeOK'
  <2>1. task' \in [Tasks -> TaskRecord] /\ task[t].upload \in Uploads
    BY <1>4, GoesType DEF RenameChunks, TaskSteps, TaskAt
  <2>2. task[t].image \in Image \cup {Missing}
    BY <1>4, TaskUpdate DEF RenameChunks, TaskAt, TaskSteps, TypeOK
  <2>3. final' \in [Uploads -> Image \cup {Missing}]
    BY <1>4, <2>2 DEF RenameChunks, TypeOK
  <2>4. QED
    BY <1>4, <2>1, <2>2, <2>3, ImageType DEF TypeOK, RenameChunks, UploadStates,
         PayloadStates
<1>5. ASSUME VerifyFinalized(t) PROVE TypeOK'
  <2>1. /\ task[t] \in TaskRecord /\ task[t].upload \in Uploads
        /\ [task[t] EXCEPT !.step = "failed"] \in TaskRecord
    BY <1>5, TaskUpdate DEF VerifyFinalized, TaskAt, TaskSteps, TypeOK
  <2>2. [task[t] EXCEPT !.step = "marking", !.image = final[task[t].upload]] \in TaskRecord
    BY <1>5, <2>1, TaskUpdate DEF VerifyFinalized, TaskAt, TaskSteps, TypeOK
  <2>3. task' \in [Tasks -> TaskRecord]
    BY <1>5, <2>1, <2>2 DEF VerifyFinalized, TypeOK
  <2>4. QED
    BY <1>5, <2>1, <2>2, <2>3, ImageType DEF TypeOK, VerifyFinalized, UploadStates,
         PayloadStates
<1>6. ASSUME HeartbeatFinalization(t) PROVE TypeOK'
  BY <1>6, ImageType DEF TypeOK, HeartbeatFinalization, UploadStates, PayloadStates
<1>7. ASSUME MarkFinalized(t) PROVE TypeOK'
  <2>1. task' \in [Tasks -> TaskRecord] /\ task[t].upload \in Uploads
    BY <1>7, GoesType DEF MarkFinalized, TaskSteps, TaskAt
  <2>2. task[t].image \in Image \cup {Missing}
    BY <1>7, TaskUpdate DEF MarkFinalized, TaskAt, TaskSteps, TypeOK
  <2>3. digest' \in [Uploads -> Image \cup {Missing}]
    BY <1>7, <2>2 DEF MarkFinalized, TypeOK
  <2>4. QED
    BY <1>7, <2>1, <2>2, <2>3, ImageType DEF TypeOK, MarkFinalized, UploadStates,
         PayloadStates
<1>8. ASSUME FinalizationFails(t) PROVE TypeOK'
  <2>1. task' \in [Tasks -> TaskRecord] /\ task[t].upload \in Uploads
    BY <1>8, GoesType DEF FinalizationFails, TaskSteps, TaskAt
  <2>2. QED
    BY <1>8, <2>1, ImageType DEF TypeOK, FinalizationFails, UploadStates, PayloadStates
<1>9. ASSUME AbortFinalization(t) PROVE TypeOK'
  <2>1. task' \in [Tasks -> TaskRecord] /\ task[t].upload \in Uploads
    BY <1>9, GoesType DEF AbortFinalization, TaskSteps, TaskAt
  <2>2. fence' \in [Uploads -> Nat]
    BY <1>9, TypeOK DEF AbortFinalization, Reopened, TypeOK
  <2>3. ustate' \in [Uploads -> UploadStates] /\ pstate' \in [Uploads -> PayloadStates]
    BY <1>9, <2>1 DEF TypeOK, AbortFinalization, Reopened, UploadStates, PayloadStates
  <2>4. owner' \in [Uploads -> Tasks \cup {NoTask}] /\ lapsed' \in [Uploads -> BOOLEAN]
    BY <1>9, <2>1 DEF TypeOK, AbortFinalization, Reopened
  <2>5. UNCHANGED <<overdue, expected, cleaned, part, digest, resv, reserved, used, head, job,
                    staging, final, writer, worker>>
    BY <1>9 DEF AbortFinalization
  <2>6. QED
    BY <2>1, <2>2, <2>3, <2>4, <2>5 DEF TypeOK
<1>10. ASSUME UnstageParts(t) PROVE TypeOK'
  <2>1. task' \in [Tasks -> TaskRecord] /\ task[t].upload \in Uploads
    BY <1>10, GoesType DEF UnstageParts, TaskSteps, TaskAt
  <2>2. QED
    BY <1>10, <2>1, ImageType DEF TypeOK, UnstageParts, UploadStates, PayloadStates
<1>11. ASSUME MarkUnstaged(t) PROVE TypeOK'
  <2>1. task' \in [Tasks -> TaskRecord] /\ task[t].upload \in Uploads
    BY <1>11, GoesType DEF MarkUnstaged, TaskSteps, TaskAt
  <2>2. QED
    BY <1>11, <2>1, ImageType DEF TypeOK, MarkUnstaged, Cleaned, UploadStates, PayloadStates
<1>12. ASSUME TaskCrashes(t) PROVE TypeOK'
  <2>1. task' \in [Tasks -> TaskRecord] /\ task[t].upload \in Uploads
    BY <1>12, GoesType DEF TaskCrashes, TaskSteps, TaskAt
  <2>2. QED
    BY <1>12, <2>1, ImageType DEF TypeOK, TaskCrashes, UploadStates, PayloadStates
<1>13. QED
  BY <1>1, <1>2, <1>3, <1>4, <1>5, <1>6, <1>7, <1>8, <1>9, <1>10, <1>11, <1>12,
       TaskNext(t) DEF TaskNext

LEMMA UploadType ==
  ASSUME TypeOK, NEW u \in Uploads, UploadNext(u)
  PROVE  TypeOK'
<1>1. ASSUME BeginUpload(u) PROVE TypeOK'
  <2>1. reserved \in Nat /\ used \in Nat /\ Size[u] \in Nat
    BY <1>1, SizeType DEF TypeOK
  <2>2. reserved' \in Nat /\ used' \in Nat
    BY <1>1, <2>1 DEF BeginUpload
  <2>3. expected' \in [Uploads -> Uploads \cup {NoVersion}]
    BY <1>1, ShapeAssumption DEF BeginUpload, TypeOK
  <2>4. QED
    BY <1>1, <2>1, <2>2, <2>3, ImageType DEF TypeOK, BeginUpload, UploadStates,
         PayloadStates
<1>2. ASSUME CommitUpload(u) PROVE TypeOK'
  <2>1. reserved \in Nat /\ used \in Nat /\ Size[u] \in Nat
    BY <1>2, SizeType DEF TypeOK
  <2>2. reserved' \in Nat /\ used' \in Nat
    BY <1>2, <2>1 DEF CommitUpload
  <2>3. head' \in [Nodes -> Uploads \cup {NoVersion}]
    BY <1>2, TypeOK DEF CommitUpload, TypeOK
  <2>4. QED
    BY <1>2, <2>1, <2>2, <2>3, ImageType DEF TypeOK, CommitUpload, UploadStates,
         PayloadStates
<1>3. ASSUME LeaseLapses(u) PROVE TypeOK'
  BY <1>3, ImageType DEF TypeOK, LeaseLapses, UploadStates, PayloadStates
<1>4. ASSUME UploadOverdue(u) PROVE TypeOK'
  BY <1>4, ImageType DEF TypeOK, UploadOverdue, UploadStates, PayloadStates
<1>5. ASSUME ReopenExpiredFinalization(u) PROVE TypeOK'
  BY <1>5, ImageType DEF TypeOK, ReopenExpiredFinalization, Reopened, UploadStates,
       PayloadStates
<1>6. ASSUME ExpireUpload(u) PROVE TypeOK'
  <2>1. job' \in [Uploads -> JobRecord]
    BY <1>6, EnqueueType DEF ExpireUpload
  <2>2. reserved \in Nat /\ used \in Nat /\ Size[u] \in Nat
    BY <1>6, <2>1, SizeType DEF TypeOK
  <2>3. reserved' \in Nat /\ used' \in Nat
    BY <1>6, <2>2 DEF ExpireUpload, Monus
  <2>4. /\ ustate' \in [Uploads -> UploadStates] /\ fence' \in [Uploads -> Nat]
        /\ resv' \in [Uploads -> {"none", "active", "committed", "released"}]
    BY <1>6, TypeOK DEF ExpireUpload, TypeOK, UploadStates
  <2>5. QED
    BY <1>6, <2>1, <2>2, <2>3, <2>4, ImageType DEF TypeOK, ExpireUpload, Monus,
         UploadStates, PayloadStates
<1>7. ASSUME EnqueueOrphan(u) PROVE TypeOK'
  <2>1. job' \in [Uploads -> JobRecord]
    BY <1>7, EnqueueType DEF EnqueueOrphan
  <2>2. QED
    BY <1>7, <2>1, ImageType DEF TypeOK, EnqueueOrphan, UploadStates, PayloadStates
<1>8. ASSUME JobDue(u) PROVE TypeOK'
  <2>1. [job[u] EXCEPT !.wait = "now"] \in JobRecord
    BY <1>8, JobUpdate DEF TypeOK
  <2>2. job' \in [Uploads -> JobRecord]
    BY <1>8, <2>1 DEF JobDue, TypeOK
  <2>3. QED
    BY <1>8, <2>2, ImageType DEF TypeOK, JobDue, UploadStates, PayloadStates
<1>9. QED
  BY <1>1, <1>2, <1>3, <1>4, <1>5, <1>6, <1>7, <1>8, UploadNext(u) DEF UploadNext

LEMMA WorkerType ==
  ASSUME TypeOK, NEW w \in Workers, WorkerNext(w)
  PROVE  TypeOK'
<1>1. ASSUME NEW u \in Uploads, ClaimJob(w, u) PROVE TypeOK'
  <2>1. job[u].kind \in {"none", "reconcile", "delete"} /\ job[u].token \in 0..MaxAttempts
    BY <1>1, JobUpdate DEF TypeOK
  <2>2. job[u].token + 1 \in 0..MaxAttempts /\ job[u].token + 1 \in Nat
    BY <1>1, <2>1, ShapeAssumption DEF ClaimJob
  <2>3. [kind |-> job[u].kind, state |-> "running", token |-> job[u].token + 1,
         wait |-> "later"] \in JobRecord
    BY <1>1, <2>1, <2>2 DEF JobRecord
  <2>4. [step |-> "claimed", upload |-> u, token |-> job[u].token + 1] \in WorkerRecord
    BY <1>1, <2>2 DEF WorkerRecord, WorkerSteps
  <2>5. job' \in [Uploads -> JobRecord]
    BY <1>1, <2>3, RetiredType DEF ClaimJob
  <2>6. worker' \in [Workers -> WorkerRecord]
    BY <1>1, <2>4 DEF ClaimJob, TypeOK
  <2>7. QED
    BY <1>1, <2>5, <2>6, ImageType DEF TypeOK, ClaimJob, UploadStates, PayloadStates
<1>2. ASSUME NEW u \in Uploads, SweepBegins(w, u) PROVE TypeOK'
  <2>1. [step |-> "sweep_staging", upload |-> u, token |-> 0] \in WorkerRecord
    BY <1>2, TypeOK DEF WorkerRecord, WorkerSteps
  <2>2. QED
    BY <1>2, <2>1, ImageType DEF TypeOK, SweepBegins, UploadStates, PayloadStates
<1>3. ASSUME SweepStaging(w) PROVE TypeOK'
  <2>1. worker' \in [Workers -> WorkerRecord] /\ worker[w].upload \in Uploads
    BY <1>3, TurnsType DEF SweepStaging, WorkerSteps, WorkerAt
  <2>2. QED
    BY <1>3, <2>1, ImageType DEF TypeOK, SweepStaging, UploadStates, PayloadStates
<1>4. ASSUME SweepMarks(w) PROVE TypeOK'
  <2>1. worker' \in [Workers -> WorkerRecord]
    BY <1>4, IdleTypes DEF SweepMarks, TypeOK
  <2>2. QED
    BY <1>4, <2>1, ImageType DEF TypeOK, SweepMarks, Cleaned, UploadStates, PayloadStates
<1>5. ASSUME DeferReconcile(w) PROVE TypeOK'
  <2>1. job' \in [Uploads -> JobRecord] /\ worker' \in [Workers -> WorkerRecord]
    BY <1>5, JobEndsType DEF DeferReconcile, WorkerAt
  <2>2. QED
    BY <1>5, <2>1, ImageType DEF TypeOK, DeferReconcile, UploadStates, PayloadStates
<1>6. ASSUME BeginReconcile(w) PROVE TypeOK'
  <2>1. worker' \in [Workers -> WorkerRecord] /\ worker[w].upload \in Uploads
    BY <1>6, TurnsType DEF BeginReconcile, WorkerSteps, WorkerAt
  <2>2. QED
    BY <1>6, <2>1, ImageType DEF TypeOK, BeginReconcile, UploadStates, PayloadStates
<1>7. ASSUME ReconcileStaging(w) PROVE TypeOK'
  <2>1. worker' \in [Workers -> WorkerRecord] /\ worker[w].upload \in Uploads
    BY <1>7, TurnsType DEF ReconcileStaging, WorkerSteps, WorkerAt
  <2>2. QED
    BY <1>7, <2>1, ImageType DEF TypeOK, ReconcileStaging, UploadStates, PayloadStates
<1>8. ASSUME ReconcileFinal(w) PROVE TypeOK'
  <2>1. worker' \in [Workers -> WorkerRecord] /\ worker[w].upload \in Uploads
    BY <1>8, TurnsType DEF ReconcileFinal, WorkerSteps, WorkerAt
  <2>2. QED
    BY <1>8, <2>1, ImageType DEF TypeOK, ReconcileFinal, UploadStates, PayloadStates
<1>9. ASSUME ReconcileRow(w) PROVE TypeOK'
  <2>1. worker' \in [Workers -> WorkerRecord] /\ worker[w].upload \in Uploads
    BY <1>9, TurnsType DEF ReconcileRow, WorkerSteps, WorkerAt
  <2>2. QED
    BY <1>9, <2>1, ImageType DEF TypeOK, ReconcileRow, UploadStates, PayloadStates
<1>10. ASSUME AdmitDeletion(w) PROVE TypeOK'
  <2>1. worker' \in [Workers -> WorkerRecord] /\ worker[w].upload \in Uploads
    BY <1>10, TurnsType DEF AdmitDeletion, WorkerSteps, WorkerAt
  <2>2. QED
    BY <1>10, <2>1, ImageType DEF TypeOK, AdmitDeletion, UploadStates, PayloadStates
<1>11. ASSUME DeleteFinal(w) PROVE TypeOK'
  <2>1. worker' \in [Workers -> WorkerRecord] /\ worker[w].upload \in Uploads
    BY <1>11, TurnsType DEF DeleteFinal, WorkerSteps, WorkerAt
  <2>2. QED
    BY <1>11, <2>1, ImageType DEF TypeOK, DeleteFinal, UploadStates, PayloadStates
<1>12. ASSUME DeleteStaging(w) PROVE TypeOK'
  <2>1. worker' \in [Workers -> WorkerRecord] /\ worker[w].upload \in Uploads
    BY <1>12, TurnsType DEF DeleteStaging, WorkerSteps, WorkerAt
  <2>2. QED
    BY <1>12, <2>1, ImageType DEF TypeOK, DeleteStaging, UploadStates, PayloadStates
<1>13. ASSUME DeleteRow(w) PROVE TypeOK'
  <2>1. worker' \in [Workers -> WorkerRecord] /\ worker[w].upload \in Uploads
    BY <1>13, TurnsType DEF DeleteRow, WorkerSteps, WorkerAt
  <2>2. reserved \in Nat /\ used \in Nat /\ Size[worker[w].upload] \in Nat
    BY <1>13, <2>1, SizeType DEF TypeOK
  <2>3. reserved' \in Nat /\ used' \in Nat
    BY <1>13, <2>2 DEF DeleteRow
  <2>4. QED
    BY <1>13, <2>1, <2>2, <2>3, ImageType DEF TypeOK, DeleteRow, UploadStates, PayloadStates
<1>14. ASSUME CompleteJob(w) PROVE TypeOK'
  <2>1. job' \in [Uploads -> JobRecord] /\ worker' \in [Workers -> WorkerRecord]
    BY <1>14, JobEndsType DEF CompleteJob, WorkerAt
  <2>2. QED
    BY <1>14, <2>1, ImageType DEF TypeOK, CompleteJob, UploadStates, PayloadStates
<1>15. ASSUME JobFails(w) PROVE TypeOK'
  <2>1. job' \in [Uploads -> JobRecord] /\ worker' \in [Workers -> WorkerRecord]
    BY <1>15, JobEndsType DEF JobFails, WorkerAt
  <2>2. QED
    BY <1>15, <2>1, ImageType DEF TypeOK, JobFails, UploadStates, PayloadStates
<1>16. ASSUME WorkerCrashes(w) PROVE TypeOK'
  <2>1. worker' \in [Workers -> WorkerRecord]
    BY <1>16, IdleTypes DEF WorkerCrashes, TypeOK
  <2>2. QED
    BY <1>16, <2>1, ImageType DEF TypeOK, WorkerCrashes, UploadStates, PayloadStates
<1>17. ASSUME ClaimNothing(w) PROVE TypeOK'
  <2>1. job' \in [Uploads -> JobRecord]
    BY <1>17, RetiredType DEF ClaimNothing
  <2>2. QED
    BY <1>17, <2>1, ImageType DEF TypeOK, ClaimNothing, UploadStates, PayloadStates
<1>18. ASSUME NEW u \in Uploads, ClaimRefused(w, u) PROVE TypeOK'
  <2>1. [step |-> "refused", upload |-> u, token |-> 0] \in WorkerRecord
    BY DEF WorkerRecord, WorkerSteps
  <2>2. QED
    BY <1>18, <2>1, ImageType DEF TypeOK, ClaimRefused, UploadStates, PayloadStates
<1>19. ASSUME ClaimRolledBack(w) PROVE TypeOK'
  <2>1. worker' \in [Workers -> WorkerRecord]
    BY <1>19, IdleTypes DEF ClaimRolledBack, TypeOK
  <2>2. QED
    BY <1>19, <2>1, ImageType DEF TypeOK, ClaimRolledBack, UploadStates, PayloadStates
<1>20. QED
  BY <1>1, <1>2, <1>3, <1>4, <1>5, <1>6, <1>7, <1>8, <1>9, <1>10, <1>11, <1>12, <1>13,
       <1>14, <1>15, <1>16, <1>17, <1>18, <1>19, WorkerNext(w)
       DEF WorkerNext, ClaimNext, JobStep

LEMMA TypeInit == Init => TypeOK
<1>1. NoJob \in JobRecord
  BY ShapeAssumption DEF NoJob, JobRecord
<1>2. QED
  BY <1>1, ImageType, IdleTypes DEF Init, TypeOK, UploadStates, PayloadStates

LEMMA TypeStep == TypeOK /\ [Next]_vars => TypeOK'
<1> SUFFICES ASSUME TypeOK, [Next]_vars PROVE TypeOK'
  OBVIOUS
<1>1. CASE UNCHANGED vars
  BY <1>1 DEF TypeOK, vars
<1>2. CASE Next
  BY <1>2, WriterType, TaskType, UploadType, WorkerType DEF Next
<1>3. QED
  BY <1>1, <1>2

\* Every row, every object on disk and every process keeps a value of its type,
\* for any number of uploads, parts, tasks, writers and workers: in particular
\* the drive's counters never go below zero, and a process that is not idle
\* names a session that exists.
THEOREM TypeCorrect == Spec => []TypeOK
BY TypeInit, TypeStep, PTL DEF Spec

=============================================================================
