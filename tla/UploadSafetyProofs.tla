------------------------- MODULE UploadSafetyProofs -------------------------
(* The safety of UploadLifecycle for every instance: the inductive invariant *)
(* IndInv and what follows from it, the quota counters and the version       *)
(* chain among it.                                                           *)
EXTENDS UploadTypeProofs

USE DEF uploadRow, payloadRow, driveRow, disk

\* What a step of one task, writer or worker changes in its record.
TaskMoves(t, s, i) == \A x \in Tasks :
  /\ task'[x].upload = task[x].upload /\ task'[x].fence = task[x].fence
  /\ task'[x].step = IF x = t THEN s ELSE task[x].step
  /\ task'[x].image = IF x = t THEN i ELSE task[x].image

WorkerMoves(w, s) == \A x \in Workers :
  /\ worker'[x].upload = worker[x].upload
  /\ worker'[x].step = IF x = w THEN s ELSE worker[x].step

LEMMA TaskFields ==
  ASSUME NEW r \in TaskRecord, r.step # "idle", NEW s \in TaskSteps,
         NEW i \in Image \cup {Missing}
  PROVE  /\ [r EXCEPT !.step = s].step = s /\ [r EXCEPT !.step = s].upload = r.upload
         /\ [r EXCEPT !.step = s].fence = r.fence /\ [r EXCEPT !.step = s].image = r.image
         /\ [r EXCEPT !.step = s, !.image = i].step = s
         /\ [r EXCEPT !.step = s, !.image = i].image = i
         /\ [r EXCEPT !.step = s, !.image = i].upload = r.upload
         /\ [r EXCEPT !.step = s, !.image = i].fence = r.fence
BY DEF TaskRecord, IdleTask

LEMMA GoesMoves ==
  ASSUME TypeOK, NEW t \in Tasks, task[t].step # "idle", NEW s \in TaskSteps, Goes(t, s)
  PROVE  TaskMoves(t, s, task[t].image)
<1>1. task \in [Tasks -> TaskRecord] /\ task[t] \in TaskRecord
  BY DEF TypeOK
<1>2. task' = [task EXCEPT ![t] = [task[t] EXCEPT !.step = s]]
  BY DEF Goes
<1>3. /\ [task[t] EXCEPT !.step = s].step = s
      /\ [task[t] EXCEPT !.step = s].upload = task[t].upload
      /\ [task[t] EXCEPT !.step = s].fence = task[t].fence
      /\ [task[t] EXCEPT !.step = s].image = task[t].image
  BY <1>1, TaskFields
<1>4. QED
  BY <1>1, <1>2, <1>3 DEF TaskMoves

LEMMA ImageMoves ==
  ASSUME TypeOK, NEW t \in Tasks, task[t].step # "idle", NEW s \in TaskSteps,
         NEW i \in Image \cup {Missing},
         task' = [task EXCEPT ![t].step = s, ![t].image = i]
  PROVE  TaskMoves(t, s, i)
<1>1. task \in [Tasks -> TaskRecord] /\ task[t] \in TaskRecord
  BY DEF TypeOK
<1>2. task' = [task EXCEPT ![t] = [task[t] EXCEPT !.step = s, !.image = i]]
  BY <1>1
<1>3. /\ [task[t] EXCEPT !.step = s, !.image = i].step = s
      /\ [task[t] EXCEPT !.step = s, !.image = i].upload = task[t].upload
      /\ [task[t] EXCEPT !.step = s, !.image = i].fence = task[t].fence
      /\ [task[t] EXCEPT !.step = s, !.image = i].image = i
  BY <1>1, TaskFields
<1>4. QED
  BY <1>1, <1>2, <1>3 DEF TaskMoves

LEMMA TurnsMoves ==
  ASSUME TypeOK, NEW w \in Workers, worker[w].step # "idle", NEW s \in WorkerSteps,
         Turns(w, s)
  PROVE  WorkerMoves(w, s)
<1>1. worker \in [Workers -> WorkerRecord] /\ worker[w] \in WorkerRecord
  BY DEF TypeOK
<1>2. worker' = [worker EXCEPT ![w] = [worker[w] EXCEPT !.step = s]]
  BY DEF Turns
<1>3. /\ [worker[w] EXCEPT !.step = s].step = s
      /\ [worker[w] EXCEPT !.step = s].upload = worker[w].upload
  BY <1>1 DEF WorkerRecord, IdleWorker
<1>4. QED
  BY <1>1, <1>2, <1>3 DEF WorkerMoves

LEMMA PublishMoves ==
  ASSUME TypeOK, NEW w \in Writers, writer[w].step # "idle",
         writer' = [writer EXCEPT ![w].step = "published"]
  PROVE  \A x \in Writers :
           /\ writer'[x].upload = writer[x].upload /\ writer'[x].part = writer[x].part
           /\ writer'[x].bytes = writer[x].bytes
           /\ writer'[x].step = IF x = w THEN "published" ELSE writer[x].step
<1>1. writer \in [Writers -> WriterRecord] /\ writer[w] \in WriterRecord
  BY DEF TypeOK
<1>2. writer' = [writer EXCEPT ![w] = [writer[w] EXCEPT !.step = "published"]]
  OBVIOUS
<1>3. /\ [writer[w] EXCEPT !.step = "published"].step = "published"
      /\ [writer[w] EXCEPT !.step = "published"].upload = writer[w].upload
      /\ [writer[w] EXCEPT !.step = "published"].part = writer[w].part
      /\ [writer[w] EXCEPT !.step = "published"].bytes = writer[w].bytes
  BY <1>1 DEF WriterRecord, IdleWriter
<1>4. QED
  BY <1>1, <1>2, <1>3

LEMMA ProcessNames ==
  ASSUME TypeOK
  PROVE  /\ \A x \in Tasks : task[x].step # "idle" => task[x].upload \in Uploads
         /\ \A x \in Writers : writer[x].step # "idle" =>
              writer[x].upload \in Uploads /\ writer[x].part \in Parts /\ writer[x].bytes \in Bytes
         /\ \A x \in Workers : worker[x].step # "idle" => worker[x].upload \in Uploads
<1>1. \A x \in Tasks : task[x] \in TaskRecord
  BY DEF TypeOK
<1>2. \A x \in Writers : writer[x] \in WriterRecord
  BY DEF TypeOK
<1>3. \A x \in Workers : worker[x] \in WorkerRecord
  BY DEF TypeOK
<1>4. QED
  BY <1>1, <1>2, <1>3, TaskUpdate, WriterUpdate, WorkerUpdate DEF TaskSteps, WorkerSteps

\* A step that only moves one task on: the others keep their facts, provided
\* that the rows move in the usual direction and nobody gains a claim.
LEMMA TaskKept ==
  ASSUME TypeOK, TaskInv, NEW t \in Tasks, task[t].step # "idle",
         NEW s \in TaskSteps, NEW i, TaskMoves(t, s, i), UNCHANGED part,
         \A u \in Uploads : /\ ustate[u] # "none" => ustate'[u] # "none"
                            /\ ustate[u] \in Settled => ustate'[u] \in Settled
                            /\ final[u] # Missing => final'[u] # Missing,
         \A x \in Tasks : x # t /\ task[x].step # "idle" /\ Holds(x)' => Holds(x),
         s \in {"storing", "linked", "marking"} => i = part[task[t].upload],
         s = "marking" => final'[task[t].upload] # Missing,
         s = "unstaging" => ustate'[task[t].upload] \in Settled
  PROVE  TaskInv'
<1> SUFFICES ASSUME NEW x \in Tasks, task'[x].step # "idle"
             PROVE  /\ AllDurable(task[x].upload)'
                    /\ ustate'[task'[x].upload] # "none"
                    /\ task'[x].step \in {"storing", "linked", "marking"} =>
                         task'[x].image = part'[task'[x].upload]
                    /\ task'[x].step = "marking" /\ Holds(x)' =>
                         final'[task'[x].upload] # Missing
                    /\ task'[x].step = "unstaging" => ustate'[task'[x].upload] \in Settled
  BY DEF TaskInv
<1>1. task[x].step # "idle" /\ task[x].upload \in Uploads /\ task'[x].upload = task[x].upload
  BY ProcessNames DEF TaskMoves
<1>2. AllDurable(task[x].upload)' /\ ustate'[task'[x].upload] # "none"
  BY <1>1 DEF TaskInv, AllDurable
<1>3. CASE x = t
  BY <1>1, <1>2, <1>3 DEF TaskMoves
<1>4. CASE x # t
  <2>1. task'[x].step = task[x].step /\ task'[x].image = task[x].image
    BY <1>4 DEF TaskMoves
  <2>2. QED
    BY <1>1, <1>2, <1>4, <2>1 DEF TaskInv
<1>5. QED
  BY <1>3, <1>4

LEMMA NoClaimGained ==
  ASSUME UNCHANGED <<ustate, fence, owner>>, NEW t, NEW s, NEW i, TaskMoves(t, s, i)
  PROVE  \A x \in Tasks : Holds(x)' => Holds(x)
BY DEF Holds, TaskMoves

\* Leaving finalizing takes the claim from whoever has it.
LEMMA ClaimLost ==
  ASSUME TypeOK, NEW u \in Uploads, NEW s \in UploadStates, s # "finalizing",
         ustate' = [ustate EXCEPT ![u] = s],
         \A v \in Uploads : v # u => fence'[v] = fence[v] /\ owner'[v] = owner[v],
         \A x \in Tasks : task'[x].upload = task[x].upload /\ task'[x].fence = task[x].fence
  PROVE  \A x \in Tasks : task[x].step # "idle" /\ Holds(x)' => Holds(x)
<1> SUFFICES ASSUME NEW x \in Tasks, task[x].step # "idle", Holds(x)' PROVE Holds(x)
  OBVIOUS
<1>1. task[x].upload \in Uploads
  BY ProcessNames
<1>2. ustate'[task[x].upload] = "finalizing"
  BY DEF Holds
<1>3. task[x].upload # u
  BY <1>1, <1>2 DEF TypeOK
<1>4. QED
  BY <1>1, <1>3 DEF Holds, TypeOK

LEMMA TaskStays ==
  ASSUME TypeOK, TaskInv, UNCHANGED <<task, part, final>>,
         \A u \in Uploads : /\ ustate[u] # "none" => ustate'[u] # "none"
                            /\ ustate[u] \in Settled => ustate'[u] \in Settled,
         \A x \in Tasks : task[x].step # "idle" /\ Holds(x)' => Holds(x)
  PROVE  TaskInv'
<1> SUFFICES ASSUME NEW x \in Tasks, task[x].step # "idle"
             PROVE  /\ AllDurable(task[x].upload)'
                    /\ ustate'[task[x].upload] # "none"
                    /\ task[x].step \in {"storing", "linked", "marking"} =>
                         task[x].image = part[task[x].upload]
                    /\ task[x].step = "marking" /\ Holds(x)' => final[task[x].upload] # Missing
                    /\ task[x].step = "unstaging" => ustate'[task[x].upload] \in Settled
  BY DEF TaskInv
<1>1. task[x].upload \in Uploads
  BY ProcessNames
<1>2. AllDurable(task[x].upload)'
  BY DEF TaskInv, AllDurable
<1>3. QED
  BY <1>1, <1>2 DEF TaskInv

\* Marking a part durable never changes one that was durable: the writer's
\* bytes are the ones on disk, and so are the acknowledged ones.
LEMMA MarkedPart ==
  ASSUME TypeOK, AckedPartKept, WriterInv, NEW w \in Writers, MarkPartDurable(w)
  PROVE  /\ \A u \in Uploads : \A p \in Parts :
              /\ part[u][p] # NoBytes => part'[u][p] = part[u][p]
              /\ part'[u][p] = part[u][p]
                 \/ (ustate[u] = "open" /\ staging[u][p] = part'[u][p])
         /\ \A u \in Uploads : AllDurable(u) => part'[u] = part[u]
<1> DEFINE v == writer[w].upload
           q == writer[w].part
           b == writer[w].bytes
<1>1. v \in Uploads /\ q \in PartsOf[v] /\ q \in Parts /\ b \in Bytes
  BY ProcessNames DEF MarkPartDurable, WriterInv
<1>2. ustate[v] = "open" => staging[v][q] = b
  BY DEF MarkPartDurable, WriterInv, Settled
<1>3. ustate[v] = "open" /\ part[v][q] # NoBytes => part[v][q] = b
  BY <1>1, <1>2 DEF AckedPartKept, Settled
<1>4. \/ part' = part
      \/ ustate[v] = "open" /\ part' = [part EXCEPT ![v] = [part[v] EXCEPT ![q] = b]]
  <2>1. part' = IF ustate[v] = "open" /\ fence[v] = writer[w].fence
                THEN [part EXCEPT ![v][q] = b] ELSE part
    BY DEF MarkPartDurable
  <2>2. [part EXCEPT ![v][q] = b] = [part EXCEPT ![v] = [part[v] EXCEPT ![q] = b]]
    OBVIOUS
  <2>3. QED
    BY <2>1, <2>2
<1>5. part \in [Uploads -> Image] /\ part[v] \in [Parts -> Bytes \cup {NoBytes}]
  BY <1>1 DEF TypeOK, Image
<1>6. \A u \in Uploads : u # v => part'[u] = part[u]
  BY <1>1, <1>4, <1>5
<1>7. part[v][q] # NoBytes => part'[v] = part[v]
  BY <1>1, <1>3, <1>4, <1>5
<1>8. \A p \in Parts : part'[v][p] = part[v][p] \/ (p = q /\ ustate[v] = "open" /\ part'[v][p] = b)
  BY <1>1, <1>4, <1>5
<1>9. \A u \in Uploads : AllDurable(u) => part'[u] = part[u]
  BY <1>1, <1>6, <1>7 DEF AllDurable
<1>10. QED
  BY <1>1, <1>2, <1>6, <1>7, <1>8, <1>9


LEMMA WriterSafe ==
  ASSUME TypeOK, Safe, NEW w \in Writers, WriterNext(w)
  PROVE  Safe'
<1>0. /\ RowsAgree /\ AckedPartKept /\ WriterInv /\ TaskInv /\ WorkerInv
      /\ FinalInv /\ DigestInv
  BY DEF Safe
<1>1. ASSUME NEW u \in Uploads, NEW p \in Parts, NEW b \in Bytes, AdmitPart(w, u, p, b)
      PROVE  Safe'
  <2>1. WriterInv'
    BY <1>0, <1>1 DEF TypeOK, AdmitPart, WriterInv, Settled
  <2>2. RowsAgree' /\ AckedPartKept' /\ TaskInv' /\ WorkerInv' /\ FinalInv' /\ DigestInv'
    BY <1>0, <1>1 DEF AdmitPart, RowsAgree, AckedPartKept, Settled, TaskInv, Holds,
         AllDurable, WorkerInv, FinalInv, DigestInv
  <2>3. QED
    BY <2>1, <2>2 DEF Safe
<1>2. ASSUME PublishPart(w) PROVE Safe'
  <2> DEFINE v == writer[w].upload
             q == writer[w].part
             b == writer[w].bytes
  <2>1. v \in Uploads /\ q \in Parts /\ b \in Bytes
    BY <1>0, <1>2, ProcessNames DEF PublishPart
  <2>2. /\ \A x \in Uploads : \A p \in Parts :
             staging'[x][p] = staging[x][p] \/ staging[x][p] = NoBytes
        /\ \/ writer' = [writer EXCEPT ![w] = IdleWriter]
           \/ /\ writer' = [writer EXCEPT ![w].step = "published"]
              /\ staging'[v][q] = b
    <3>1. staging \in [Uploads -> Image] /\ staging[v] \in [Parts -> Bytes \cup {NoBytes}]
      BY <2>1 DEF TypeOK, Image
    <3>2. CASE /\ staging[v][q] \in {NoBytes, b}
               /\ staging' = [staging EXCEPT ![v][q] = b]
               /\ writer' = [writer EXCEPT ![w].step = "published"]
      <4>1. staging' = [staging EXCEPT ![v] = [staging[v] EXCEPT ![q] = b]]
        BY <3>2
      <4>2. \A x \in Uploads : x # v => staging'[x] = staging[x]
        BY <3>1, <4>1
      <4>3. staging'[v] = [staging[v] EXCEPT ![q] = b]
        BY <2>1, <3>1, <4>1
      <4>4. QED
        BY <2>1, <3>1, <3>2, <4>2, <4>3
    <3>3. CASE writer' = [writer EXCEPT ![w] = IdleWriter] /\ UNCHANGED staging
      BY <3>3
    <3>4. QED
      BY <1>0, <1>2, <3>2, <3>3 DEF PublishPart
  <2>3. UNCHANGED <<ustate, fence, owner, part, pstate, digest, resv, final, task, worker>>
    BY <1>0, <1>2 DEF PublishPart
  <2>4. AckedPartKept'
    BY <1>0, <2>2, <2>3 DEF AckedPartKept
  <2>5. \A x \in Writers : writer[x].step = "published" /\ ustate[writer[x].upload] \notin Settled =>
          staging'[writer[x].upload][writer[x].part] = writer[x].bytes
    BY <1>0, <2>2, ProcessNames, NullAssumption DEF WriterInv
  <2>6. WriterInv'
    <3>1. CASE writer' = [writer EXCEPT ![w] = IdleWriter]
      BY <1>0, <2>3, <2>5, <3>1 DEF WriterInv, IdleWriter, TypeOK
    <3>2. CASE writer' = [writer EXCEPT ![w].step = "published"] /\ staging'[v][q] = b
      <4>1. \A x \in Writers :
              /\ writer'[x].upload = writer[x].upload /\ writer'[x].part = writer[x].part
              /\ writer'[x].bytes = writer[x].bytes
              /\ writer'[x].step = IF x = w THEN "published" ELSE writer[x].step
        BY <1>0, <1>2, <3>2, PublishMoves DEF PublishPart
      <4>2. ASSUME NEW x \in Writers, writer'[x].step # "idle"
            PROVE  /\ writer'[x].part \in PartsOf[writer'[x].upload]
                   /\ ustate'[writer'[x].upload] # "none"
                   /\ writer'[x].step = "published" /\ ustate'[writer'[x].upload] \notin Settled =>
                        staging'[writer'[x].upload][writer'[x].part] = writer'[x].bytes
        <5>1. writer[x].step # "idle" /\ (x # w => writer'[x].step = writer[x].step)
          BY <1>2, <4>1, <4>2 DEF PublishPart
        <5>2. CASE x = w
          BY <1>0, <2>3, <3>2, <4>1, <5>1, <5>2 DEF WriterInv
        <5>3. CASE x # w
          BY <1>0, <2>3, <2>5, <4>1, <5>1, <5>3 DEF WriterInv
        <5>4. QED
          BY <5>2, <5>3
      <4>3. QED
        BY <4>2 DEF WriterInv
    <3>3. QED
      BY <2>2, <3>1, <3>2
  <2>7. RowsAgree' /\ TaskInv' /\ WorkerInv' /\ FinalInv' /\ DigestInv'
    BY <1>0, <2>3 DEF RowsAgree, TaskInv, WorkerInv, FinalInv, DigestInv, Holds, AllDurable
  <2>8. QED
    BY <2>4, <2>6, <2>7 DEF Safe
<1>3. ASSUME MarkPartDurable(w) PROVE Safe'
  <2>1. UNCHANGED <<ustate, fence, owner, pstate, digest, resv, staging, final, task, worker>>
    BY <1>0, <1>3 DEF MarkPartDurable
  <2>2. /\ \A u \in Uploads : \A p \in Parts :
             part'[u][p] = part[u][p] \/ (ustate[u] = "open" /\ staging[u][p] = part'[u][p])
        /\ \A u \in Uploads : AllDurable(u) => part'[u] = part[u]
    BY <1>0, <1>3, MarkedPart
  <2>3. AckedPartKept'
    BY <1>0, <2>1, <2>2 DEF AckedPartKept
  <2>4. WriterInv'
    BY <1>0, <1>3, <2>1 DEF WriterInv, MarkPartDurable, IdleWriter, TypeOK
  <2>5. TaskInv'
    <3>1. \A x \in Tasks : task[x].step # "idle" =>
            task[x].upload \in Uploads /\ part'[task[x].upload] = part[task[x].upload]
      BY <1>0, <2>2, ProcessNames DEF TaskInv
    <3>2. QED
      BY <1>0, <2>1, <3>1 DEF TaskInv, AllDurable, Holds
  <2>6. FinalInv' /\ DigestInv'
    BY <1>0, <2>1, <2>2 DEF FinalInv, DigestInv, AllDurable
  <2>7. RowsAgree' /\ WorkerInv'
    BY <1>0, <2>1 DEF RowsAgree, WorkerInv
  <2>8. QED
    BY <2>3, <2>4, <2>5, <2>6, <2>7 DEF Safe
<1>4. ASSUME WriterStops(w) PROVE Safe'
  <2>1. WriterInv'
    BY <1>0, <1>4 DEF TypeOK, WriterStops, IdleWriter, WriterInv, Settled
  <2>2. RowsAgree' /\ AckedPartKept' /\ TaskInv' /\ WorkerInv' /\ FinalInv' /\ DigestInv'
    BY <1>0, <1>4 DEF WriterStops, RowsAgree, AckedPartKept, Settled, TaskInv, Holds,
         AllDurable, WorkerInv, FinalInv, DigestInv
  <2>3. QED
    BY <2>1, <2>2 DEF Safe
<1>5. QED
  BY <1>1, <1>2, <1>3, <1>4 DEF WriterNext

LEMMA TaskSafe ==
  ASSUME TypeOK, Safe, NEW t \in Tasks, TaskNext(t)
  PROVE  Safe'
<1>0. /\ RowsAgree /\ AckedPartKept /\ WriterInv /\ TaskInv /\ WorkerInv
      /\ FinalInv /\ DigestInv
  BY DEF Safe
<1>1. ASSUME NEW u \in Uploads, ClaimFinalization(t, u) PROVE Safe'
  <2>1. RowsAgree'
    BY <1>0, <1>1 DEF TypeOK, ClaimFinalization, TaskAt, RowsAgree
  <2>2. AckedPartKept'
    BY <1>0, <1>1 DEF TypeOK, ClaimFinalization, TaskAt, AckedPartKept, Settled
  <2>3. WriterInv'
    BY <1>0, <1>1 DEF TypeOK, ClaimFinalization, TaskAt, WriterInv, Settled
  <2>4. TaskInv'
    <3>1. /\ task' = [task EXCEPT ![t] = [step |-> "claimed", upload |-> u, fence |-> fence[u],
                                          image |-> Missing]]
          /\ UNCHANGED <<fence, part, final>>
          /\ ustate' = [ustate EXCEPT ![u] = "finalizing"] /\ owner' = [owner EXCEPT ![u] = t]
          /\ AllDurable(u) /\ ustate[u] = "open"
      BY <1>0, <1>1 DEF ClaimFinalization
    <3>2. \A x \in Tasks : x # t => task'[x] = task[x]
      BY <3>1 DEF TypeOK
    <3>3. task'[t].step = "claimed" /\ task'[t].upload = u
      BY <3>1 DEF TypeOK
    <3>4. \A x \in Tasks : x # t /\ task[x].step # "idle" /\ Holds(x)' => Holds(x)
      BY <3>1, <3>2, ProcessNames DEF Holds, TypeOK
    <3>5. \A v \in Uploads : (AllDurable(v) => AllDurable(v)') /\ (ustate[v] # "none" => ustate'[v] # "none")
                             /\ (ustate[v] \in Settled => ustate'[v] \in Settled)
      BY <3>1 DEF AllDurable, TypeOK, Settled
    <3>6. AllDurable(u)' /\ ustate'[u] # "none"
      BY <3>1, <3>5
    <3>7. QED
      BY <1>0, <3>1, <3>2, <3>3, <3>4, <3>5, <3>6, ProcessNames DEF TaskInv
  <2>5. WorkerInv'
    BY <1>0, <1>1 DEF TypeOK, ClaimFinalization, TaskAt, WorkerInv, Settled, RowsAgree
  <2>6. DigestInv'
    BY <1>0, <1>1 DEF TypeOK, ClaimFinalization, TaskAt, DigestInv
  <2>7. FinalInv'
    BY <1>0, <1>1 DEF ClaimFinalization, FinalInv, AllDurable
  <2>8. QED
    BY <2>1, <2>2, <2>3, <2>4, <2>5, <2>6, <2>7 DEF Safe
<1>2. ASSUME ReadManifest(t) PROVE Safe'
  <2>1. task[t].upload \in Uploads /\ task[t].step # "idle"
    BY <1>0, <1>2, TaskUpdate DEF TypeOK, ReadManifest, TaskAt, TaskSteps
  <2>2. \/ Goes(t, "failed")
        \/ /\ task' = [task EXCEPT ![t].step = "storing", ![t].image = part[task[t].upload]]
           /\ part[task[t].upload] \in Image \cup {Missing}
    BY <1>0, <1>2, <2>1 DEF ReadManifest, TypeOK, Goes
  <2>3. \/ TaskMoves(t, "failed", task[t].image)
        \/ /\ TaskMoves(t, "storing", part[task[t].upload])
    BY <1>0, <1>2, <2>1, <2>2, GoesMoves, ImageMoves DEF TaskSteps
  <2>4. \A x \in Tasks : Holds(x)' => Holds(x)
    BY <1>0, <1>2, <2>3, NoClaimGained DEF ReadManifest
  <2>5. TaskInv'
    BY <1>0, <1>2, <2>1, <2>3, <2>4, TaskKept DEF ReadManifest, TaskSteps
  <2>6. RowsAgree' /\ AckedPartKept' /\ WriterInv' /\ WorkerInv' /\ FinalInv' /\ DigestInv'
    BY <1>0, <1>2 DEF ReadManifest, RowsAgree, AckedPartKept, Settled, WriterInv,
         WorkerInv, FinalInv, AllDurable, DigestInv
  <2>7. QED
    BY <2>5, <2>6 DEF Safe
<1>3. ASSUME StoreObject(t) PROVE Safe'
  <2>1. \/ Goes(t, "verifying") /\ TaskMoves(t, "verifying", task[t].image)
        \/ Goes(t, "linked") /\ TaskMoves(t, "linked", task[t].image)
        \/ Goes(t, "failed") /\ TaskMoves(t, "failed", task[t].image)
    BY <1>0, <1>3, GoesMoves DEF StoreObject, TaskAt, TaskSteps
  <2>2. task[t].upload \in Uploads
    BY <1>0, <1>3, TaskUpdate DEF TypeOK, StoreObject, TaskAt, TaskSteps
  <2>3. \A u \in Uploads : final[u] # Missing => final'[u] # Missing
    BY <1>0, <1>3, <2>2, ImageType, NullAssumption DEF StoreObject, TypeOK, Image
  <2>4. \A x \in Tasks : Holds(x)' => Holds(x)
    BY <1>0, <1>3, <2>1, NoClaimGained DEF StoreObject
  <2>5. task[t].step # "idle" /\ task[t].image = part[task[t].upload]
    BY <1>0, <1>3 DEF StoreObject, TaskAt, TaskInv
  <2>6. TaskInv'
    BY <1>0, <1>3, <2>1, <2>2, <2>3, <2>4, <2>5, TaskKept DEF StoreObject, TaskSteps
  <2>7. FinalInv'
    BY <1>0, <1>3, <2>1, <2>2 DEF TypeOK, StoreObject, TaskMoves, TaskAt, FinalInv,
         AllDurable, TaskInv, Holds, Settled
  <2>8. DigestInv'
    BY <1>0, <1>3, <2>1, <2>2 DEF TypeOK, StoreObject, TaskMoves, TaskAt, DigestInv
  <2>9. RowsAgree' /\ AckedPartKept' /\ WriterInv' /\ WorkerInv'
    BY <1>0, <1>3 DEF StoreObject, RowsAgree, AckedPartKept, Settled, WriterInv, WorkerInv
  <2>10. QED
    BY <2>6, <2>7, <2>8, <2>9 DEF Safe
<1>4. ASSUME RenameChunks(t) PROVE Safe'
  <2>1. TaskMoves(t, "verifying", task[t].image)
    BY <1>0, <1>4, GoesMoves DEF RenameChunks, TaskAt, TaskSteps
  <2>2. task[t].upload \in Uploads
    BY <1>0, <1>4, TaskUpdate DEF TypeOK, RenameChunks, TaskAt, TaskSteps
  <2>3. \A x \in Tasks : Holds(x)' => Holds(x)
    BY <1>0, <1>4, <2>1, NoClaimGained DEF RenameChunks
  <2>4. TaskInv'
    BY <1>0, <1>4, <2>1, <2>2, <2>3, TaskKept DEF RenameChunks, TaskAt, TaskSteps, TypeOK
  <2>5. FinalInv'
    BY <1>0, <1>4, <2>1, <2>2 DEF TypeOK, RenameChunks, TaskMoves, TaskAt, FinalInv,
         AllDurable, TaskInv, Holds, Settled
  <2>6. DigestInv'
    BY <1>0, <1>4, <2>1, <2>2 DEF TypeOK, RenameChunks, TaskMoves, TaskAt, DigestInv
  <2>7. RowsAgree' /\ AckedPartKept' /\ WriterInv' /\ WorkerInv'
    BY <1>0, <1>4 DEF RenameChunks, RowsAgree, AckedPartKept, Settled, WriterInv, WorkerInv
  <2>8. QED
    BY <2>4, <2>5, <2>6, <2>7 DEF Safe
<1>5. ASSUME VerifyFinalized(t) PROVE Safe'
  <2>1. task[t].upload \in Uploads /\ task[t].step # "idle"
    BY <1>0, <1>5, TaskUpdate DEF TypeOK, VerifyFinalized, TaskAt, TaskSteps
  <2>2. \/ Goes(t, "failed")
        \/ /\ task' = [task EXCEPT ![t].step = "marking", ![t].image = final[task[t].upload]]
           /\ final[task[t].upload] \in Image \cup {Missing}
           /\ final[task[t].upload] # Missing
           /\ Layout[task[t].upload] = "chunked" => final[task[t].upload] = task[t].image
    BY <1>0, <1>5, <2>1 DEF VerifyFinalized, TypeOK, Goes
  <2>3. \/ TaskMoves(t, "failed", task[t].image)
        \/ /\ TaskMoves(t, "marking", final[task[t].upload])
           /\ final[task[t].upload] # Missing
    BY <1>0, <1>5, <2>1, <2>2, GoesMoves, ImageMoves DEF TaskSteps
  <2>4. \A x \in Tasks : Holds(x)' => Holds(x)
    BY <1>0, <1>5, <2>3, NoClaimGained DEF VerifyFinalized
  <2>5. final[task[t].upload] # Missing => final[task[t].upload] = part[task[t].upload]
    BY <1>0, <1>5, <2>1 DEF FinalInv
  <2>6. TaskInv'
    BY <1>0, <1>5, <2>1, <2>3, <2>4, <2>5, TaskKept DEF VerifyFinalized, TaskSteps
  <2>7. RowsAgree' /\ AckedPartKept' /\ WriterInv' /\ WorkerInv' /\ FinalInv' /\ DigestInv'
    BY <1>0, <1>5 DEF VerifyFinalized, RowsAgree, AckedPartKept, Settled, WriterInv,
         WorkerInv, FinalInv, AllDurable, DigestInv
  <2>8. QED
    BY <2>6, <2>7 DEF Safe
<1>6. ASSUME HeartbeatFinalization(t) PROVE Safe'
  BY <1>0, <1>6 DEF HeartbeatFinalization, Safe, RowsAgree, AckedPartKept, Settled,
       WriterInv, TaskInv, Holds, AllDurable, WorkerInv, FinalInv, DigestInv
<1>7. ASSUME MarkFinalized(t) PROVE Safe'
  <2>1. TaskMoves(t, "unstaging", task[t].image)
    BY <1>0, <1>7, GoesMoves DEF MarkFinalized, TaskAt, TaskSteps
  <2>2. task[t].upload \in Uploads
    BY <1>0, <1>7, TaskUpdate DEF TypeOK, MarkFinalized, TaskAt, TaskSteps
  <2>3. RowsAgree'
    BY <1>0, <1>7, <2>1, <2>2 DEF TypeOK, MarkFinalized, TaskMoves, TaskAt, RowsAgree
  <2>4. AckedPartKept'
    BY <1>0, <1>7, <2>1, <2>2 DEF TypeOK, MarkFinalized, TaskMoves, TaskAt, AckedPartKept,
         Settled
  <2>5. WriterInv'
    BY <1>0, <1>7, <2>1, <2>2 DEF TypeOK, MarkFinalized, TaskMoves, TaskAt, WriterInv,
         Settled
  <2>6. \A x \in Tasks : task[x].step # "idle" /\ Holds(x)' => Holds(x)
    BY <1>0, <1>7, <2>1, <2>2, ClaimLost DEF MarkFinalized, TaskMoves, UploadStates, TypeOK
  <2>7. TaskInv'
    BY <1>0, <1>7, <2>1, <2>2, <2>6, TaskKept DEF MarkFinalized, TaskAt, TaskSteps,
         TypeOK, Settled
  <2>8. WorkerInv'
    BY <1>0, <1>7, <2>1, <2>2 DEF TypeOK, MarkFinalized, TaskMoves, TaskAt, WorkerInv,
         Settled, RowsAgree
  <2>9. DigestInv'
    BY <1>0, <1>7, <2>1, <2>2 DEF TypeOK, MarkFinalized, TaskMoves, TaskAt, DigestInv,
         TaskInv, Holds, AllDurable, Settled
  <2>10. FinalInv'
    BY <1>0, <1>7 DEF MarkFinalized, FinalInv, AllDurable
  <2>11. QED
    BY <2>3, <2>4, <2>5, <2>7, <2>8, <2>9, <2>10 DEF Safe
<1>8. ASSUME FinalizationFails(t) PROVE Safe'
  <2>1. TaskMoves(t, "failed", task[t].image)
    BY <1>0, <1>8, GoesMoves DEF FinalizationFails, TaskAt, TaskSteps
  <2>2. task[t].upload \in Uploads
    BY <1>0, <1>8, TaskUpdate DEF TypeOK, FinalizationFails, TaskAt, TaskSteps
  <2>3. \A x \in Tasks : Holds(x)' => Holds(x)
    BY <1>0, <1>8, <2>1, NoClaimGained DEF FinalizationFails
  <2>4. TaskInv'
    BY <1>0, <1>8, <2>1, <2>2, <2>3, TaskKept DEF FinalizationFails, TaskAt, TaskSteps,
         TypeOK
  <2>5. RowsAgree' /\ AckedPartKept' /\ WriterInv' /\ WorkerInv' /\ FinalInv' /\ DigestInv'
    BY <1>0, <1>8 DEF FinalizationFails, RowsAgree, AckedPartKept, Settled, WriterInv,
         WorkerInv, FinalInv, AllDurable, DigestInv
  <2>6. QED
    BY <2>4, <2>5 DEF Safe
<1>9. ASSUME AbortFinalization(t) PROVE Safe'
  <2>1. TaskMoves(t, "done", task[t].image)
    BY <1>0, <1>9, GoesMoves DEF AbortFinalization, TaskAt, TaskSteps
  <2>2. task[t].upload \in Uploads /\ task[t].step # "idle"
    BY <1>0, <1>9, ProcessNames DEF AbortFinalization, TaskAt
  <2>3. CASE UNCHANGED <<ustate, fence, owner, lapsed, pstate>>
    <3>1. \A x \in Tasks : Holds(x)' => Holds(x)
      BY <2>1, <2>3, NoClaimGained
    <3>2. TaskInv'
      BY <1>0, <1>9, <2>1, <2>2, <2>3, <3>1, TaskKept DEF AbortFinalization, TaskSteps
    <3>3. RowsAgree' /\ AckedPartKept' /\ WriterInv' /\ WorkerInv' /\ FinalInv' /\ DigestInv'
      BY <1>0, <1>9, <2>3 DEF AbortFinalization, RowsAgree, AckedPartKept, WriterInv,
         WorkerInv, FinalInv, AllDurable, DigestInv
    <3>4. QED
      BY <3>2, <3>3 DEF Safe
  <2>4. CASE ustate[task[t].upload] = "finalizing" /\ Reopened(task[t].upload)
    <3>1. \A x \in Tasks : task[x].step # "idle" /\ Holds(x)' => Holds(x)
      BY <2>1, <2>2, <2>4, ClaimLost DEF Reopened, TaskMoves, UploadStates, TypeOK
    <3>2. TaskInv'
      BY <1>0, <1>9, <2>1, <2>2, <2>4, <3>1, TaskKept
         DEF AbortFinalization, Reopened, TaskSteps, TypeOK, Settled
    <3>3. /\ UNCHANGED <<resv, part, staging, final, digest, writer, worker>>
          /\ pstate[task[t].upload] = "finalizing" /\ resv[task[t].upload] = "active"
      BY <1>0, <1>9, <2>2, <2>4 DEF AbortFinalization, RowsAgree
    <3>4. RowsAgree' /\ DigestInv' /\ FinalInv'
      BY <1>0, <2>2, <2>4, <3>3 DEF Reopened, RowsAgree, DigestInv, FinalInv, AllDurable,
           TypeOK
    <3>5. AckedPartKept' /\ WriterInv'
      BY <1>0, <2>2, <2>4, <3>3, ProcessNames
         DEF Reopened, AckedPartKept, WriterInv, Settled, TypeOK
    <3>6. WorkerInv'
      BY <1>0, <2>2, <2>4, <3>3 DEF Reopened, WorkerInv, Settled, TypeOK
    <3>7. QED
      BY <3>2, <3>4, <3>5, <3>6 DEF Safe
  <2>5. QED
    BY <1>0, <1>9, <2>3, <2>4 DEF AbortFinalization, Holds
<1>10. ASSUME UnstageParts(t) PROVE Safe'
  <2>1. TaskMoves(t, "unstaged", task[t].image)
    BY <1>0, <1>10, GoesMoves DEF UnstageParts, TaskAt, TaskSteps
  <2>2. task[t].upload \in Uploads
    BY <1>0, <1>10, TaskUpdate DEF TypeOK, UnstageParts, TaskAt, TaskSteps
  <2>3. AckedPartKept'
    BY <1>0, <1>10, <2>1, <2>2 DEF TypeOK, UnstageParts, TaskMoves, TaskAt, AckedPartKept,
         Settled, TaskInv, Holds, AllDurable
  <2>4. WriterInv'
    BY <1>0, <1>10, <2>1, <2>2 DEF TypeOK, UnstageParts, TaskMoves, TaskAt, WriterInv,
         Settled, TaskInv, Holds, AllDurable
  <2>5. \A x \in Tasks : Holds(x)' => Holds(x)
    BY <1>0, <1>10, <2>1, NoClaimGained DEF UnstageParts
  <2>6. TaskInv'
    BY <1>0, <1>10, <2>1, <2>2, <2>5, TaskKept DEF UnstageParts, TaskAt, TaskSteps, TypeOK
  <2>7. RowsAgree' /\ WorkerInv' /\ FinalInv' /\ DigestInv'
    BY <1>0, <1>10 DEF UnstageParts, RowsAgree, WorkerInv, Settled, FinalInv, AllDurable,
         DigestInv
  <2>8. QED
    BY <2>3, <2>4, <2>6, <2>7 DEF Safe
<1>11. ASSUME MarkUnstaged(t) PROVE Safe'
  <2>1. TaskMoves(t, "done", task[t].image)
    BY <1>0, <1>11, GoesMoves DEF MarkUnstaged, TaskAt, TaskSteps
  <2>2. task[t].upload \in Uploads
    BY <1>0, <1>11, TaskUpdate DEF TypeOK, MarkUnstaged, TaskAt, TaskSteps
  <2>3. \A x \in Tasks : Holds(x)' => Holds(x)
    BY <1>0, <1>11, <2>1, NoClaimGained DEF MarkUnstaged
  <2>4. TaskInv'
    BY <1>0, <1>11, <2>1, <2>2, <2>3, TaskKept DEF MarkUnstaged, TaskAt, TaskSteps, TypeOK
  <2>5. RowsAgree' /\ AckedPartKept' /\ WriterInv' /\ WorkerInv' /\ FinalInv' /\ DigestInv'
    BY <1>0, <1>11 DEF MarkUnstaged, RowsAgree, AckedPartKept, Settled, WriterInv,
         WorkerInv, FinalInv, AllDurable, DigestInv
  <2>6. QED
    BY <2>4, <2>5 DEF Safe
<1>12. ASSUME TaskCrashes(t) PROVE Safe'
  <2>1. TaskMoves(t, "done", task[t].image)
    BY <1>0, <1>12, GoesMoves DEF TaskCrashes, TaskAt, TaskSteps
  <2>2. task[t].upload \in Uploads
    BY <1>0, <1>12, TaskUpdate DEF TypeOK, TaskCrashes, TaskAt, TaskSteps
  <2>3. \A x \in Tasks : Holds(x)' => Holds(x)
    BY <1>0, <1>12, <2>1, NoClaimGained DEF TaskCrashes
  <2>4. TaskInv'
    BY <1>0, <1>12, <2>1, <2>2, <2>3, TaskKept DEF TaskCrashes, TaskAt, TaskSteps, TypeOK
  <2>5. RowsAgree' /\ AckedPartKept' /\ WriterInv' /\ WorkerInv' /\ FinalInv' /\ DigestInv'
    BY <1>0, <1>12 DEF TaskCrashes, RowsAgree, AckedPartKept, Settled, WriterInv,
         WorkerInv, FinalInv, AllDurable, DigestInv
  <2>6. QED
    BY <2>4, <2>5 DEF Safe
<1>13. QED
  BY <1>1, <1>2, <1>3, <1>4, <1>5, <1>6, <1>7, <1>8, <1>9, <1>10, <1>11, <1>12 DEF TaskNext

LEMMA UploadSafe ==
  ASSUME TypeOK, Safe, NEW u \in Uploads, UploadNext(u)
  PROVE  Safe'
<1>0. /\ RowsAgree /\ AckedPartKept /\ WriterInv /\ TaskInv /\ WorkerInv
      /\ FinalInv /\ DigestInv
  BY DEF Safe
<1>1. ASSUME BeginUpload(u) PROVE Safe'
  <2>1. RowsAgree'
    BY <1>0, <1>1 DEF TypeOK, BeginUpload, RowsAgree
  <2>2. AckedPartKept'
    BY <1>0, <1>1 DEF TypeOK, BeginUpload, AckedPartKept, Settled
  <2>3. WriterInv'
    BY <1>0, <1>1 DEF TypeOK, BeginUpload, WriterInv, Settled
  <2>4. TaskInv'
    BY <1>0, <1>1 DEF TypeOK, BeginUpload, TaskInv, Holds, AllDurable, Settled
  <2>5. WorkerInv'
    BY <1>0, <1>1 DEF TypeOK, BeginUpload, WorkerInv, Settled, RowsAgree
  <2>6. DigestInv'
    BY <1>0, <1>1 DEF TypeOK, BeginUpload, DigestInv
  <2>7. FinalInv'
    BY <1>0, <1>1 DEF BeginUpload, FinalInv, AllDurable
  <2>8. QED
    BY <2>1, <2>2, <2>3, <2>4, <2>5, <2>6, <2>7 DEF Safe
<1>2. ASSUME CommitUpload(u) PROVE Safe'
  <2>1. RowsAgree'
    BY <1>0, <1>2 DEF TypeOK, CommitUpload, RowsAgree
  <2>2. AckedPartKept'
    BY <1>0, <1>2 DEF TypeOK, CommitUpload, AckedPartKept, Settled
  <2>3. WriterInv'
    BY <1>0, <1>2 DEF TypeOK, CommitUpload, WriterInv, Settled
  <2>4. TaskInv'
    BY <1>0, <1>2 DEF TypeOK, CommitUpload, TaskInv, Holds, AllDurable, Settled
  <2>5. WorkerInv'
    BY <1>0, <1>2 DEF TypeOK, CommitUpload, WorkerInv, Settled, RowsAgree
  <2>6. DigestInv'
    BY <1>0, <1>2 DEF TypeOK, CommitUpload, DigestInv
  <2>7. FinalInv'
    BY <1>0, <1>2 DEF CommitUpload, FinalInv, AllDurable
  <2>8. QED
    BY <2>1, <2>2, <2>3, <2>4, <2>5, <2>6, <2>7 DEF Safe
<1>3. ASSUME LeaseLapses(u) PROVE Safe'
  BY <1>0, <1>3 DEF LeaseLapses, Safe, RowsAgree, AckedPartKept, Settled, WriterInv,
       TaskInv, Holds, AllDurable, WorkerInv, FinalInv, DigestInv
<1>4. ASSUME UploadOverdue(u) PROVE Safe'
  BY <1>0, <1>4 DEF UploadOverdue, Safe, RowsAgree, AckedPartKept, Settled, WriterInv,
       TaskInv, Holds, AllDurable, WorkerInv, FinalInv, DigestInv
<1>5. ASSUME ReopenExpiredFinalization(u) PROVE Safe'
  <2>1. RowsAgree'
    BY <1>0, <1>5 DEF TypeOK, ReopenExpiredFinalization, Reopened, RowsAgree
  <2>2. AckedPartKept'
    BY <1>0, <1>5 DEF TypeOK, ReopenExpiredFinalization, Reopened, AckedPartKept, Settled
  <2>3. WriterInv'
    BY <1>0, <1>5 DEF TypeOK, ReopenExpiredFinalization, Reopened, WriterInv, Settled
  <2>4. \A x \in Tasks : task[x].step # "idle" /\ Holds(x)' => Holds(x)
    BY <1>0, <1>5, ClaimLost DEF ReopenExpiredFinalization, Reopened, UploadStates, TypeOK
  <2>5. TaskInv'
    BY <1>0, <1>5, <2>4, TaskStays DEF ReopenExpiredFinalization, Reopened, TypeOK, Settled
  <2>6. WorkerInv'
    BY <1>0, <1>5 DEF TypeOK, ReopenExpiredFinalization, Reopened, WorkerInv, Settled,
         RowsAgree
  <2>7. DigestInv'
    BY <1>0, <1>5 DEF TypeOK, ReopenExpiredFinalization, Reopened, DigestInv
  <2>8. FinalInv'
    BY <1>0, <1>5 DEF ReopenExpiredFinalization, Reopened, FinalInv, AllDurable
  <2>9. QED
    BY <2>1, <2>2, <2>3, <2>5, <2>6, <2>7, <2>8 DEF Safe
<1>6. ASSUME ExpireUpload(u) PROVE Safe'
  <2>1. RowsAgree'
    BY <1>0, <1>6 DEF TypeOK, ExpireUpload, RowsAgree
  <2>2. AckedPartKept'
    BY <1>0, <1>6 DEF TypeOK, ExpireUpload, AckedPartKept, Settled
  <2>3. WriterInv'
    BY <1>0, <1>6 DEF TypeOK, ExpireUpload, WriterInv, Settled
  <2>4. TaskInv'
    BY <1>0, <1>6 DEF TypeOK, ExpireUpload, TaskInv, Holds, AllDurable, Settled
  <2>5. WorkerInv'
    BY <1>0, <1>6 DEF TypeOK, ExpireUpload, WorkerInv, Settled
  <2>6. FinalInv' /\ DigestInv'
    BY <1>0, <1>6 DEF ExpireUpload, FinalInv, AllDurable, DigestInv
  <2>7. QED
    BY <2>1, <2>2, <2>3, <2>4, <2>5, <2>6 DEF Safe
<1>7. ASSUME EnqueueOrphan(u) PROVE Safe'
  <2>1. RowsAgree'
    BY <1>0, <1>7 DEF TypeOK, EnqueueOrphan, RowsAgree
  <2>2. WorkerInv'
    BY <1>0, <1>7 DEF TypeOK, EnqueueOrphan, WorkerInv, Settled
  <2>3. DigestInv'
    BY <1>0, <1>7 DEF TypeOK, EnqueueOrphan, DigestInv
  <2>4. AckedPartKept' /\ WriterInv' /\ TaskInv' /\ FinalInv'
    BY <1>0, <1>7 DEF EnqueueOrphan, AckedPartKept, Settled, WriterInv, TaskInv, Holds,
         AllDurable, FinalInv
  <2>5. QED
    BY <2>1, <2>2, <2>3, <2>4 DEF Safe
<1>8. ASSUME JobDue(u) PROVE Safe'
  BY <1>0, <1>8 DEF JobDue, Safe, RowsAgree, AckedPartKept, Settled, WriterInv,
       TaskInv, Holds, AllDurable, WorkerInv, FinalInv, DigestInv
<1>9. QED
  BY <1>1, <1>2, <1>3, <1>4, <1>5, <1>6, <1>7, <1>8 DEF UploadNext

LEMMA WorkerSafe ==
  ASSUME TypeOK, Safe, NEW w \in Workers, WorkerNext(w)
  PROVE  Safe'
<1>0. /\ RowsAgree /\ AckedPartKept /\ WriterInv /\ TaskInv /\ WorkerInv
      /\ FinalInv /\ DigestInv
  BY DEF Safe
<1>1. ASSUME NEW u \in Uploads, ClaimJob(w, u) PROVE Safe'
  <2>1. WorkerInv'
    BY <1>0, <1>1 DEF TypeOK, ClaimJob, WorkerAt, WorkerInv, Settled
  <2>2. RowsAgree' /\ AckedPartKept' /\ WriterInv' /\ TaskInv' /\ FinalInv' /\ DigestInv'
    BY <1>0, <1>1 DEF ClaimJob, RowsAgree, AckedPartKept, Settled, WriterInv, TaskInv,
         Holds, AllDurable, FinalInv, DigestInv
  <2>3. QED
    BY <2>1, <2>2 DEF Safe
<1>2. ASSUME NEW u \in Uploads, SweepBegins(w, u) PROVE Safe'
  <2>1. WorkerInv'
    BY <1>0, <1>2 DEF TypeOK, SweepBegins, WorkerAt, WorkerInv, Settled
  <2>2. RowsAgree' /\ AckedPartKept' /\ WriterInv' /\ TaskInv' /\ FinalInv' /\ DigestInv'
    BY <1>0, <1>2 DEF SweepBegins, RowsAgree, AckedPartKept, Settled, WriterInv, TaskInv,
         Holds, AllDurable, FinalInv, DigestInv
  <2>3. QED
    BY <2>1, <2>2 DEF Safe
<1>3. ASSUME SweepStaging(w) PROVE Safe'
  <2>1. WorkerMoves(w, "sweep_row")
    BY <1>0, <1>3, TurnsMoves DEF SweepStaging, WorkerAt, WorkerSteps
  <2>2. worker[w].upload \in Uploads
    BY <1>0, <1>3, WorkerUpdate DEF TypeOK, SweepStaging, WorkerAt, WorkerSteps
  <2>3. AckedPartKept'
    BY <1>0, <1>3, <2>1, <2>2 DEF TypeOK, SweepStaging, WorkerMoves, WorkerAt,
         AckedPartKept, Settled, WorkerInv
  <2>4. WriterInv'
    BY <1>0, <1>3, <2>1, <2>2 DEF TypeOK, SweepStaging, WorkerMoves, WorkerAt, WriterInv,
         Settled, WorkerInv
  <2>5. WorkerInv'
    BY <1>0, <1>3, <2>1, <2>2 DEF TypeOK, SweepStaging, WorkerMoves, WorkerAt, WorkerInv,
         Settled
  <2>6. RowsAgree' /\ TaskInv' /\ FinalInv' /\ DigestInv'
    BY <1>0, <1>3 DEF SweepStaging, RowsAgree, TaskInv, Holds, AllDurable, Settled,
         FinalInv, DigestInv
  <2>7. QED
    BY <2>3, <2>4, <2>5, <2>6 DEF Safe
<1>4. ASSUME SweepMarks(w) PROVE Safe'
  <2>1. WorkerInv'
    BY <1>0, <1>4 DEF TypeOK, SweepMarks, IdleWorker, WorkerAt, WorkerInv, Settled
  <2>2. RowsAgree' /\ AckedPartKept' /\ WriterInv' /\ TaskInv' /\ FinalInv' /\ DigestInv'
    BY <1>0, <1>4 DEF SweepMarks, RowsAgree, AckedPartKept, Settled, WriterInv, TaskInv,
         Holds, AllDurable, FinalInv, DigestInv
  <2>3. QED
    BY <2>1, <2>2 DEF Safe
<1>5. ASSUME DeferReconcile(w) PROVE Safe'
  <2>1. WorkerInv'
    BY <1>0, <1>5 DEF TypeOK, DeferReconcile, JobEnds, IdleWorker, WorkerAt, WorkerInv,
         Settled
  <2>2. RowsAgree' /\ AckedPartKept' /\ WriterInv' /\ TaskInv' /\ FinalInv' /\ DigestInv'
    BY <1>0, <1>5 DEF DeferReconcile, JobEnds, RowsAgree, AckedPartKept, Settled,
         WriterInv, TaskInv, Holds, AllDurable, FinalInv, DigestInv
  <2>3. QED
    BY <2>1, <2>2 DEF Safe
<1>6. ASSUME BeginReconcile(w) PROVE Safe'
  <2>1. WorkerMoves(w, "reconcile_staging")
    BY <1>0, <1>6, TurnsMoves DEF BeginReconcile, WorkerAt, WorkerSteps
  <2>2. worker[w].upload \in Uploads
    BY <1>0, <1>6, WorkerUpdate DEF TypeOK, BeginReconcile, WorkerAt, WorkerSteps
  <2>3. WorkerInv'
    BY <1>0, <1>6, <2>1, <2>2 DEF TypeOK, BeginReconcile, WorkerMoves, WorkerAt,
         WorkerInv, Settled
  <2>4. RowsAgree' /\ AckedPartKept' /\ WriterInv' /\ TaskInv' /\ FinalInv' /\ DigestInv'
    BY <1>0, <1>6 DEF BeginReconcile, RowsAgree, AckedPartKept, Settled, WriterInv,
         TaskInv, Holds, AllDurable, FinalInv, DigestInv
  <2>5. QED
    BY <2>3, <2>4 DEF Safe
<1>7. ASSUME ReconcileStaging(w) PROVE Safe'
  <2>1. WorkerMoves(w, "reconcile_final")
    BY <1>0, <1>7, TurnsMoves DEF ReconcileStaging, WorkerAt, WorkerSteps
  <2>2. worker[w].upload \in Uploads
    BY <1>0, <1>7, WorkerUpdate DEF TypeOK, ReconcileStaging, WorkerAt, WorkerSteps
  <2>3. AckedPartKept'
    BY <1>0, <1>7, <2>1, <2>2 DEF TypeOK, ReconcileStaging, WorkerMoves, WorkerAt,
         AckedPartKept, Settled, WorkerInv
  <2>4. WriterInv'
    BY <1>0, <1>7, <2>1, <2>2 DEF TypeOK, ReconcileStaging, WorkerMoves, WorkerAt,
         WriterInv, Settled, WorkerInv
  <2>5. WorkerInv'
    BY <1>0, <1>7, <2>1, <2>2 DEF TypeOK, ReconcileStaging, WorkerMoves, WorkerAt,
         WorkerInv, Settled
  <2>6. RowsAgree' /\ TaskInv' /\ FinalInv' /\ DigestInv'
    BY <1>0, <1>7 DEF ReconcileStaging, RowsAgree, TaskInv, Holds, AllDurable, Settled,
         FinalInv, DigestInv
  <2>7. QED
    BY <2>3, <2>4, <2>5, <2>6 DEF Safe
<1>8. ASSUME ReconcileFinal(w) PROVE Safe'
  <2>1. WorkerMoves(w, "reconcile_row")
    BY <1>0, <1>8, TurnsMoves DEF ReconcileFinal, WorkerAt, WorkerSteps
  <2>2. worker[w].upload \in Uploads
    BY <1>0, <1>8, WorkerUpdate DEF TypeOK, ReconcileFinal, WorkerAt, WorkerSteps
  <2>3. TaskInv'
    BY <1>0, <1>8, <2>1, <2>2 DEF TypeOK, ReconcileFinal, WorkerMoves, WorkerAt, TaskInv,
         Holds, AllDurable, Settled, WorkerInv
  <2>4. WorkerInv'
    BY <1>0, <1>8, <2>1, <2>2 DEF TypeOK, ReconcileFinal, WorkerMoves, WorkerAt,
         WorkerInv, Settled
  <2>5. FinalInv'
    BY <1>0, <1>8, <2>1, <2>2 DEF TypeOK, ReconcileFinal, WorkerMoves, WorkerAt, FinalInv,
         AllDurable
  <2>6. DigestInv'
    BY <1>0, <1>8, <2>1, <2>2 DEF TypeOK, ReconcileFinal, WorkerMoves, WorkerAt,
         DigestInv, WorkerInv, Settled, RowsAgree
  <2>7. RowsAgree' /\ AckedPartKept' /\ WriterInv'
    BY <1>0, <1>8 DEF ReconcileFinal, RowsAgree, AckedPartKept, Settled, WriterInv
  <2>8. QED
    BY <2>3, <2>4, <2>5, <2>6, <2>7 DEF Safe
<1>9. ASSUME ReconcileRow(w) PROVE Safe'
  <2>1. WorkerMoves(w, "finish")
    BY <1>0, <1>9, TurnsMoves DEF ReconcileRow, WorkerAt, WorkerSteps
  <2>2. worker[w].upload \in Uploads
    BY <1>0, <1>9, WorkerUpdate DEF TypeOK, ReconcileRow, WorkerAt, WorkerSteps
  <2>3. RowsAgree'
    BY <1>0, <1>9, <2>1, <2>2 DEF TypeOK, ReconcileRow, WorkerMoves, WorkerAt, RowsAgree,
         WorkerInv, Settled
  <2>4. WorkerInv'
    BY <1>0, <1>9, <2>1, <2>2 DEF TypeOK, ReconcileRow, WorkerMoves, WorkerAt, WorkerInv,
         Settled, RowsAgree
  <2>5. DigestInv'
    BY <1>0, <1>9, <2>1, <2>2 DEF TypeOK, ReconcileRow, WorkerMoves, WorkerAt, DigestInv
  <2>6. AckedPartKept' /\ WriterInv' /\ TaskInv' /\ FinalInv'
    BY <1>0, <1>9 DEF ReconcileRow, AckedPartKept, Settled, WriterInv, TaskInv, Holds,
         AllDurable, FinalInv
  <2>7. QED
    BY <2>3, <2>4, <2>5, <2>6 DEF Safe
<1>10. ASSUME AdmitDeletion(w) PROVE Safe'
  <2>1. /\ UNCHANGED <<ustate, resv, staging, final, digest, part, fence, owner, writer, task>>
        /\ \/ /\ pstate[worker[w].upload] = "deleted" /\ UNCHANGED pstate
              /\ WorkerMoves(w, "finish")
           \/ /\ pstate[worker[w].upload] \in {"delete_intent", "deleting"}
              /\ ustate[worker[w].upload] = "finalized" /\ resv[worker[w].upload] = "active"
              /\ pstate' = [pstate EXCEPT ![worker[w].upload] = "deleting"]
              /\ WorkerMoves(w, "delete_final")
    BY <1>0, <1>10, TurnsMoves DEF AdmitDeletion, WorkerAt, WorkerSteps
  <2>2. worker[w].upload \in Uploads
    BY <1>0, <1>10, ProcessNames DEF AdmitDeletion, WorkerAt
  <2>3. RowsAgree'
    BY <1>0, <2>1, <2>2 DEF RowsAgree, TypeOK
  <2>4. WorkerInv'
    <3>1. CASE UNCHANGED pstate /\ WorkerMoves(w, "finish")
      BY <1>0, <2>1, <3>1 DEF WorkerInv, WorkerMoves
    <3>2. CASE /\ pstate' = [pstate EXCEPT ![worker[w].upload] = "deleting"]
               /\ WorkerMoves(w, "delete_final")
      <4>1. /\ pstate'[worker[w].upload] = "deleting"
            /\ \A u \in Uploads : u # worker[w].upload => pstate'[u] = pstate[u]
        BY <2>2, <3>2 DEF TypeOK
      <4>2. QED
        BY <1>0, <2>1, <3>2, <4>1, ProcessNames DEF WorkerInv, WorkerMoves
    <3>3. QED
      BY <2>1, <3>1, <3>2
  <2>5. DigestInv'
    BY <1>0, <2>1, <2>2 DEF DigestInv, TypeOK
  <2>6. AckedPartKept' /\ WriterInv' /\ TaskInv' /\ FinalInv'
    BY <1>0, <2>1 DEF AckedPartKept, WriterInv, TaskInv, FinalInv, Holds, AllDurable
  <2>7. QED
    BY <2>3, <2>4, <2>5, <2>6 DEF Safe
<1>11. ASSUME DeleteFinal(w) PROVE Safe'
  <2>1. WorkerMoves(w, "delete_staging")
    BY <1>0, <1>11, TurnsMoves DEF DeleteFinal, WorkerAt, WorkerSteps
  <2>2. worker[w].upload \in Uploads
    BY <1>0, <1>11, WorkerUpdate DEF TypeOK, DeleteFinal, WorkerAt, WorkerSteps
  <2>3. TaskInv'
    BY <1>0, <1>11, <2>1, <2>2 DEF TypeOK, DeleteFinal, WorkerMoves, WorkerAt, TaskInv,
         Holds, AllDurable, Settled, WorkerInv, RowsAgree
  <2>4. WorkerInv'
    BY <1>0, <1>11, <2>1, <2>2 DEF TypeOK, DeleteFinal, WorkerMoves, WorkerAt, WorkerInv,
         Settled
  <2>5. FinalInv'
    BY <1>0, <1>11, <2>1, <2>2 DEF TypeOK, DeleteFinal, WorkerMoves, WorkerAt, FinalInv,
         AllDurable
  <2>6. DigestInv'
    BY <1>0, <1>11, <2>1, <2>2 DEF TypeOK, DeleteFinal, WorkerMoves, WorkerAt, DigestInv,
         WorkerInv, Settled
  <2>7. RowsAgree' /\ AckedPartKept' /\ WriterInv'
    BY <1>0, <1>11 DEF DeleteFinal, RowsAgree, AckedPartKept, Settled, WriterInv
  <2>8. QED
    BY <2>3, <2>4, <2>5, <2>6, <2>7 DEF Safe
<1>12. ASSUME DeleteStaging(w) PROVE Safe'
  <2>1. WorkerMoves(w, "delete_row")
    BY <1>0, <1>12, TurnsMoves DEF DeleteStaging, WorkerAt, WorkerSteps
  <2>2. worker[w].upload \in Uploads
    BY <1>0, <1>12, WorkerUpdate DEF TypeOK, DeleteStaging, WorkerAt, WorkerSteps
  <2>3. AckedPartKept'
    BY <1>0, <1>12, <2>1, <2>2 DEF TypeOK, DeleteStaging, WorkerMoves, WorkerAt,
         AckedPartKept, Settled, WorkerInv, RowsAgree
  <2>4. WriterInv'
    BY <1>0, <1>12, <2>1, <2>2 DEF TypeOK, DeleteStaging, WorkerMoves, WorkerAt,
         WriterInv, Settled, WorkerInv, RowsAgree
  <2>5. WorkerInv'
    BY <1>0, <1>12, <2>1, <2>2 DEF TypeOK, DeleteStaging, WorkerMoves, WorkerAt,
         WorkerInv, Settled
  <2>6. RowsAgree' /\ TaskInv' /\ FinalInv' /\ DigestInv'
    BY <1>0, <1>12 DEF DeleteStaging, RowsAgree, TaskInv, Holds, AllDurable, Settled,
         FinalInv, DigestInv
  <2>7. QED
    BY <2>3, <2>4, <2>5, <2>6 DEF Safe
<1>13. ASSUME DeleteRow(w) PROVE Safe'
  <2>1. WorkerMoves(w, "finish")
    BY <1>0, <1>13, TurnsMoves DEF DeleteRow, WorkerAt, WorkerSteps
  <2>2. worker[w].upload \in Uploads
    BY <1>0, <1>13, WorkerUpdate DEF TypeOK, DeleteRow, WorkerAt, WorkerSteps
  <2>3. RowsAgree'
    BY <1>0, <1>13, <2>1, <2>2 DEF TypeOK, DeleteRow, WorkerMoves, WorkerAt, RowsAgree
  <2>4. AckedPartKept'
    BY <1>0, <1>13, <2>1, <2>2 DEF TypeOK, DeleteRow, WorkerMoves, WorkerAt,
         AckedPartKept, Settled
  <2>5. WriterInv'
    BY <1>0, <1>13, <2>1, <2>2 DEF TypeOK, DeleteRow, WorkerMoves, WorkerAt, WriterInv,
         Settled
  <2>6. TaskInv'
    BY <1>0, <1>13, <2>1, <2>2 DEF TypeOK, DeleteRow, WorkerMoves, WorkerAt, TaskInv,
         Holds, AllDurable, Settled
  <2>7. WorkerInv'
    BY <1>0, <1>13, <2>1, <2>2 DEF TypeOK, DeleteRow, WorkerMoves, WorkerAt, WorkerInv,
         Settled
  <2>8. DigestInv'
    BY <1>0, <1>13, <2>1, <2>2 DEF TypeOK, DeleteRow, WorkerMoves, WorkerAt, DigestInv
  <2>9. FinalInv'
    BY <1>0, <1>13 DEF DeleteRow, FinalInv, AllDurable
  <2>10. QED
    BY <2>3, <2>4, <2>5, <2>6, <2>7, <2>8, <2>9 DEF Safe
<1>14. ASSUME CompleteJob(w) PROVE Safe'
  <2>1. WorkerInv'
    BY <1>0, <1>14 DEF TypeOK, CompleteJob, JobEnds, IdleWorker, WorkerAt, WorkerInv,
         Settled
  <2>2. RowsAgree' /\ AckedPartKept' /\ WriterInv' /\ TaskInv' /\ FinalInv' /\ DigestInv'
    BY <1>0, <1>14 DEF CompleteJob, JobEnds, RowsAgree, AckedPartKept, Settled, WriterInv,
         TaskInv, Holds, AllDurable, FinalInv, DigestInv
  <2>3. QED
    BY <2>1, <2>2 DEF Safe
<1>15. ASSUME JobFails(w) PROVE Safe'
  <2>1. WorkerInv'
    BY <1>0, <1>15 DEF TypeOK, JobFails, JobEnds, IdleWorker, WorkerAt, WorkerInv, Settled
  <2>2. RowsAgree' /\ AckedPartKept' /\ WriterInv' /\ TaskInv' /\ FinalInv' /\ DigestInv'
    BY <1>0, <1>15 DEF JobFails, JobEnds, RowsAgree, AckedPartKept, Settled, WriterInv,
         TaskInv, Holds, AllDurable, FinalInv, DigestInv
  <2>3. QED
    BY <2>1, <2>2 DEF Safe
<1>16. ASSUME WorkerCrashes(w) PROVE Safe'
  <2>1. WorkerInv'
    BY <1>0, <1>16 DEF TypeOK, WorkerCrashes, IdleWorker, WorkerAt, WorkerInv, Settled
  <2>2. RowsAgree' /\ AckedPartKept' /\ WriterInv' /\ TaskInv' /\ FinalInv' /\ DigestInv'
    BY <1>0, <1>16 DEF WorkerCrashes, RowsAgree, AckedPartKept, Settled, WriterInv,
         TaskInv, Holds, AllDurable, FinalInv, DigestInv
  <2>3. QED
    BY <2>1, <2>2 DEF Safe
<1>17. ASSUME ClaimNothing(w) PROVE Safe'
  <2>1. WorkerInv'
    BY <1>0, <1>17 DEF TypeOK, ClaimNothing, WorkerAt, WorkerInv, Settled
  <2>2. RowsAgree' /\ AckedPartKept' /\ WriterInv' /\ TaskInv' /\ FinalInv' /\ DigestInv'
    BY <1>0, <1>17 DEF ClaimNothing, RowsAgree, AckedPartKept, Settled, WriterInv, TaskInv,
         Holds, AllDurable, FinalInv, DigestInv
  <2>3. QED
    BY <2>1, <2>2 DEF Safe
<1>18. ASSUME NEW u \in Uploads, ClaimRefused(w, u) PROVE Safe'
  <2>1. WorkerInv'
    BY <1>0, <1>18 DEF TypeOK, ClaimRefused, WorkerAt, WorkerInv, Settled
  <2>2. RowsAgree' /\ AckedPartKept' /\ WriterInv' /\ TaskInv' /\ FinalInv' /\ DigestInv'
    BY <1>0, <1>18 DEF ClaimRefused, RowsAgree, AckedPartKept, Settled, WriterInv, TaskInv,
         Holds, AllDurable, FinalInv, DigestInv
  <2>3. QED
    BY <2>1, <2>2 DEF Safe
<1>19. ASSUME ClaimRolledBack(w) PROVE Safe'
  <2>1. WorkerInv'
    BY <1>0, <1>19 DEF TypeOK, ClaimRolledBack, IdleWorker, WorkerAt, WorkerInv, Settled
  <2>2. RowsAgree' /\ AckedPartKept' /\ WriterInv' /\ TaskInv' /\ FinalInv' /\ DigestInv'
    BY <1>0, <1>19 DEF ClaimRolledBack, RowsAgree, AckedPartKept, Settled, WriterInv, TaskInv,
         Holds, AllDurable, FinalInv, DigestInv
  <2>3. QED
    BY <2>1, <2>2 DEF Safe
<1>20. QED
  BY <1>1, <1>2, <1>3, <1>4, <1>5, <1>6, <1>7, <1>8, <1>9, <1>10, <1>11, <1>12, <1>13,
       <1>14, <1>15, <1>16, <1>17, <1>18, <1>19 DEF WorkerNext, ClaimNext, JobStep

LEMMA SafeInit == Init => Safe
BY NullAssumption DEF Init, Safe, RowsAgree, AckedPartKept, WriterInv, TaskInv, WorkerInv,
   FinalInv, DigestInv, IdleWriter, IdleTask, IdleWorker, Blank

LEMMA SafeStep == IndInv /\ [Next]_vars => IndInv'
<1> SUFFICES ASSUME TypeOK, Safe, [Next]_vars PROVE IndInv'
  BY DEF IndInv
<1>1. TypeOK'
  BY TypeStep
<1>2. CASE UNCHANGED vars
  <2>1. UNCHANGED <<ustate, fence, owner, part, pstate, digest, resv, staging, final,
                    writer, task, worker>>
    BY <1>2 DEF vars
  <2>2. Safe'
    BY <2>1 DEF Safe, RowsAgree, AckedPartKept, WriterInv, TaskInv, WorkerInv, FinalInv,
       DigestInv, Holds, AllDurable
  <2>3. QED
    BY <1>1, <2>2 DEF IndInv
<1>3. CASE Next
  <2>1. Safe'
    BY <1>3, WriterSafe, TaskSafe, UploadSafe, WorkerSafe DEF Next
  <2>2. QED
    BY <1>1, <2>1 DEF IndInv
<1>4. QED
  BY <1>2, <1>3

\* The inductive invariant holds in every reachable state, however many
\* uploads, finalizers, writers and workers interleave, and however long an
\* I/O request stalls.
THEOREM Inductive == Spec => []IndInv
<1>1. Init => IndInv
  BY TypeInit, SafeInit DEF IndInv
<1>2. QED
  BY <1>1, SafeStep, PTL DEF Spec

\* The rows of a session, its payload and its reservation never reach a
\* combination that the database functions do not expect.
THEOREM RowsAlwaysAgree == Spec => []RowsAgree
<1>1. IndInv => RowsAgree
  BY DEF IndInv, Safe
<1>2. QED
  BY <1>1, Inductive, PTL

\* An acknowledged part stays on disk, with the acknowledged bytes, until its
\* session is settled.
THEOREM AckedPartsKept == Spec => []AckedPartKept
<1>1. IndInv => AckedPartKept
  BY DEF IndInv, Safe
<1>2. QED
  BY <1>1, Inductive, PTL

\* A payload that is or may become a version's content has its final object on
\* disk, with the recorded digest and the acknowledged parts.
THEOREM BytesAlwaysIntact == Spec => []BytesIntact
<1>1. IndInv => BytesIntact
  BY DEF IndInv, Safe, BytesIntact, FinalInv, DigestInv
<1>2. QED
  BY <1>1, Inductive, PTL

LEMMA PartMoves ==
  ASSUME Next, ~ \E w \in Writers : MarkPartDurable(w)
  PROVE  UNCHANGED part
<1>1. CASE \E w \in Writers : WriterNext(w)
  BY <1>1 DEF WriterNext, AdmitPart, PublishPart, WriterStops
<1>2. CASE \E t \in Tasks : TaskNext(t)
  BY <1>2 DEF TaskNext, ClaimFinalization, ReadManifest, StoreObject, RenameChunks,
     VerifyFinalized, HeartbeatFinalization, MarkFinalized, FinalizationFails,
     AbortFinalization, UnstageParts, MarkUnstaged, TaskCrashes
<1>3. CASE \E u \in Uploads : UploadNext(u)
  BY <1>3 DEF UploadNext, BeginUpload, CommitUpload, LeaseLapses, UploadOverdue,
     ReopenExpiredFinalization, ExpireUpload, EnqueueOrphan, JobDue
<1>4. CASE \E w \in Workers : WorkerNext(w)
  BY <1>4 DEF WorkerNext, ClaimNext, JobStep, ClaimNothing, ClaimJob,
     ClaimRefused, ClaimRolledBack, SweepBegins, SweepStaging, SweepMarks,
     DeferReconcile, BeginReconcile, ReconcileStaging, ReconcileFinal, ReconcileRow,
     AdmitDeletion, DeleteFinal, DeleteStaging, DeleteRow, CompleteJob, JobFails,
     WorkerCrashes
<1>5. QED
  BY <1>1, <1>2, <1>3, <1>4 DEF Next

\* The digest of an acknowledged part never changes, although mark_part_durable
\* would overwrite it: no writer with other bytes gets that far.
THEOREM AckedPartsImmutable == Spec => AckedPartImmutable
<1> DEFINE A == \A u \in Uploads : \A p \in Parts :
                  part[u][p] # NoBytes => part'[u][p] = part[u][p]
<1>1. IndInv /\ [Next]_vars => [A]_vars
  <2> SUFFICES ASSUME IndInv, Next PROVE A
    OBVIOUS
  <2>1. CASE \E w \in Writers : MarkPartDurable(w)
    BY <2>1, MarkedPart DEF IndInv, Safe
  <2>2. CASE ~ \E w \in Writers : MarkPartDurable(w)
    BY <2>2, PartMoves
  <2>3. QED
    BY <2>1, <2>2
<1>2. QED
  BY <1>1, Inductive, PTL DEF Spec, AckedPartImmutable

LEMMA OthersTaskStays ==
  ASSUME TypeOK, NEW t \in Tasks, NEW x \in Tasks, TaskNext(x), x # t
  PROVE  task'[t] = task[t]
BY DEF TaskNext, ClaimFinalization, ReadManifest, StoreObject, RenameChunks,
     VerifyFinalized,
   HeartbeatFinalization, MarkFinalized, FinalizationFails, AbortFinalization, UnstageParts,
   MarkUnstaged, TaskCrashes, Goes, TypeOK

\* A finalizer that lost its claim, to a lapse or to a newer claim, changes no
\* row whatever it still does: only the fenced statements write.
THEOREM StaleTasksPowerless == Spec => StaleTaskPowerless
<1> DEFINE A == \A t \in Tasks :
       task'[t] # task[t] /\ task[t].step \notin {"idle", "unstaged"} /\ ~Holds(t)
       => UNCHANGED <<uploadRow, payloadRow, driveRow>>
<1>1. TypeOK /\ [Next]_vars => [A]_vars
  <2> SUFFICES ASSUME TypeOK, Next, NEW t \in Tasks, task'[t] # task[t],
                      task[t].step \notin {"idle", "unstaged"}, ~Holds(t)
               PROVE  UNCHANGED <<uploadRow, payloadRow, driveRow>>
    OBVIOUS
  <2>1. CASE \E w \in Writers : WriterNext(w)
    BY <2>1 DEF WriterNext, AdmitPart, PublishPart, WriterStops, MarkPartDurable
  <2>2. CASE \E u \in Uploads : UploadNext(u)
    BY <2>2 DEF UploadNext, BeginUpload, CommitUpload, LeaseLapses, UploadOverdue,
       ReopenExpiredFinalization, ExpireUpload, EnqueueOrphan, JobDue
  <2>3. CASE \E w \in Workers : WorkerNext(w)
    BY <2>3 DEF WorkerNext, ClaimNext, JobStep, ClaimNothing, ClaimJob,
     ClaimRefused, ClaimRolledBack, SweepBegins, SweepStaging, SweepMarks,
       DeferReconcile, BeginReconcile, ReconcileStaging, ReconcileFinal, ReconcileRow,
       AdmitDeletion, DeleteFinal, DeleteStaging, DeleteRow, CompleteJob, JobFails,
       WorkerCrashes
  <2>4. CASE TaskNext(t)
    BY <2>4 DEF TaskNext, TaskAt, ClaimFinalization, ReadManifest, StoreObject,
         RenameChunks,
       VerifyFinalized, HeartbeatFinalization, MarkFinalized, FinalizationFails,
       AbortFinalization, UnstageParts, MarkUnstaged, TaskCrashes
  <2>5. QED
    BY <2>1, <2>2, <2>3, <2>4, OthersTaskStays DEF Next
<1>2. QED
  BY <1>1, TypeCorrect, PTL DEF Spec, StaleTaskPowerless

-----------------------------------------------------------------------------
(* The quota counters and the version chain: both rest on RowsAgree *)

LEMMA TotalAdds ==
  ASSUME NEW S \in SUBSET Uploads, NEW u \in Uploads, u \notin S
  PROVE  Total[S \cup {u}] = Total[S] + Size[u]
BY SizeAssumption

LEMMA TotalType ==
  ASSUME NEW S \in SUBSET Uploads
  PROVE  Total[S] \in Nat
BY SizeAssumption

LEMMA WithType ==
  /\ With("active") \in SUBSET Uploads
  /\ With("committed") \in SUBSET Uploads
BY DEF With

\* One reservation leaves a state of the ledger.
LEMMA TotalDrops ==
  ASSUME NEW S \in SUBSET Uploads, NEW u \in S
  PROVE  Total[S] = Total[S \ {u}] + Size[u]
<1>1. S \ {u} \in SUBSET Uploads /\ u \notin S \ {u} /\ (S \ {u}) \cup {u} = S /\ u \in Uploads
  OBVIOUS
<1>2. QED
  BY <1>1, TotalAdds

\* A reservation in state "active" is released: by expiry or by the deletion of
\* an orphan.
LEMMA ReleaseExact ==
  ASSUME TypeOK, QuotaExact, NEW u \in Uploads, resv[u] = "active",
         resv' = [resv EXCEPT ![u] = "released"], reserved' = reserved - Size[u],
         UNCHANGED used
  PROVE  QuotaExact' /\ reserved >= Size[u]
<1>1. /\ With("active")' = With("active") \ {u}
      /\ With("committed")' = With("committed")
      /\ u \in With("active")
  BY DEF With, TypeOK
<1>2. /\ Total[With("active")] = Total[With("active") \ {u}] + Size[u]
      /\ Total[With("active") \ {u}] \in Nat /\ Size[u] \in Nat
  BY <1>1, WithType, TotalDrops, TotalType, SizeType
<1>3. reserved' = Total[With("active") \ {u}] /\ reserved >= Size[u]
  BY <1>2 DEF QuotaExact
<1>4. reserved' + used' <= Quota
  BY <1>2, SizeAssumption DEF QuotaExact, TypeOK
<1>5. QED
  BY <1>1, <1>3, <1>4 DEF QuotaExact

LEMMA BeginExact ==
  ASSUME TypeOK, RowsAgree, QuotaExact, NEW u \in Uploads, BeginUpload(u)
  PROVE  QuotaExact'
<1>1. /\ With("active")' = With("active") \cup {u}
      /\ With("committed")' = With("committed")
      /\ u \notin With("active")
  BY DEF With, TypeOK, RowsAgree, BeginUpload
<1>2. Total[With("active") \cup {u}] = Total[With("active")] + Size[u]
  BY <1>1, WithType, TotalAdds
<1>3. reserved' + used' <= Quota
  BY SizeType, SizeAssumption DEF BeginUpload, TypeOK
<1>4. QED
  BY <1>1, <1>2, <1>3 DEF QuotaExact, BeginUpload

LEMMA CommitExact ==
  ASSUME TypeOK, RowsAgree, QuotaExact, NEW u \in Uploads, CommitUpload(u)
  PROVE  QuotaExact'
<1>1. /\ With("active")' = With("active") \ {u}
      /\ With("committed")' = With("committed") \cup {u}
      /\ u \in With("active") /\ u \notin With("committed")
  BY DEF With, TypeOK, RowsAgree, CommitUpload
<1>2. /\ Total[With("active")] = Total[With("active") \ {u}] + Size[u]
      /\ Total[With("committed") \cup {u}] = Total[With("committed")] + Size[u]
      /\ Total[With("active") \ {u}] \in Nat /\ Size[u] \in Nat
  BY <1>1, WithType, TotalAdds, TotalDrops, TotalType, SizeType
<1>3. /\ reserved' = Total[With("active") \ {u}]
      /\ used' = Total[With("committed") \cup {u}]
      /\ reserved' + used' = reserved + used
  BY <1>2 DEF QuotaExact, CommitUpload, TypeOK
<1>4. QED
  BY <1>1, <1>3 DEF QuotaExact

LEMMA LedgerStays ==
  ASSUME QuotaExact, UNCHANGED <<resv, reserved, used>>
  PROVE  QuotaExact'
BY DEF QuotaExact, With

LEMMA QuotaStep == IndInv /\ QuotaExact /\ [Next]_vars => QuotaExact'
<1> SUFFICES ASSUME IndInv, QuotaExact, [Next]_vars PROVE QuotaExact'
  OBVIOUS
<1>0. TypeOK /\ RowsAgree
  BY DEF IndInv, Safe
<1>1. CASE UNCHANGED vars
  BY <1>1, LedgerStays DEF vars
<1>2. ASSUME NEW w \in Writers, WriterNext(w) PROVE QuotaExact'
  BY <1>2, LedgerStays DEF WriterNext, AdmitPart, PublishPart, WriterStops, MarkPartDurable
<1>3. ASSUME NEW t \in Tasks, TaskNext(t) PROVE QuotaExact'
  BY <1>3, LedgerStays DEF TaskNext, ClaimFinalization, ReadManifest, StoreObject,
     RenameChunks, VerifyFinalized, HeartbeatFinalization, MarkFinalized,
     FinalizationFails, AbortFinalization, UnstageParts, MarkUnstaged, TaskCrashes
<1>4. ASSUME NEW u \in Uploads, UploadNext(u) PROVE QuotaExact'
  <2>1. CASE BeginUpload(u)
    BY <1>0, <2>1, BeginExact
  <2>2. CASE CommitUpload(u)
    BY <1>0, <2>2, CommitExact
  <2>3. CASE ExpireUpload(u)
    <3>1. resv[u] = "active" /\ u \in With("active")
      BY <1>0, <2>3 DEF ExpireUpload, RowsAgree, With
    <3>2. /\ Total[With("active")] = Total[With("active") \ {u}] + Size[u]
          /\ Total[With("active") \ {u}] \in Nat /\ Size[u] \in Nat
      BY <3>1, WithType, TotalDrops, TotalType, SizeType
    <3>3. reserved >= Size[u]
      BY <3>2 DEF QuotaExact
    <3>4. /\ resv' = [resv EXCEPT ![u] = "released"] /\ reserved' = reserved - Size[u]
          /\ UNCHANGED used
      BY <2>3, <3>1, <3>3 DEF ExpireUpload, Monus
    <3>5. QED
      BY <1>0, <3>1, <3>4, ReleaseExact
  <2>4. CASE \/ LeaseLapses(u) \/ UploadOverdue(u) \/ ReopenExpiredFinalization(u)
             \/ EnqueueOrphan(u) \/ JobDue(u)
    BY <2>4, LedgerStays DEF LeaseLapses, UploadOverdue, ReopenExpiredFinalization,
       EnqueueOrphan, JobDue
  <2>5. QED
    BY <1>4, <2>1, <2>2, <2>3, <2>4 DEF UploadNext
<1>5. ASSUME NEW w \in Workers, WorkerNext(w) PROVE QuotaExact'
  <2>1. CASE DeleteRow(w)
    <3>1. worker[w].upload \in Uploads
      BY <1>0, <2>1, ProcessNames DEF DeleteRow, WorkerAt
    <3>2. QED
      BY <1>0, <2>1, <3>1, ReleaseExact DEF DeleteRow
  <2>2. CASE ~DeleteRow(w)
    BY <1>5, <2>2, LedgerStays DEF WorkerNext, ClaimNext, JobStep, ClaimNothing, ClaimJob,
     ClaimRefused, ClaimRolledBack, SweepBegins, SweepStaging,
       SweepMarks, DeferReconcile, BeginReconcile, ReconcileStaging, ReconcileFinal,
       ReconcileRow, AdmitDeletion, DeleteFinal, DeleteStaging, CompleteJob, JobFails,
       WorkerCrashes
  <2>3. QED
    BY <2>1, <2>2
<1>6. QED
  BY <1>1, <1>2, <1>3, <1>4, <1>5 DEF Next

\* The drive's reserved and used bytes are at all times exactly the declared
\* sizes of the active reservations and of the committed payloads, within the
\* quota, for any number of uploads of any sizes.  In particular the
\* GREATEST(0, ...) of expire_uploads and the CHECKs on drives never act.
THEOREM QuotaAlwaysExact == Spec => []QuotaExact
<1>1. Init => QuotaExact
  <2>1. Init => With("active") = {} /\ With("committed") = {}
    BY DEF Init, With
  <2>2. Total[{}] = 0 /\ Quota >= 0
    BY SizeAssumption
  <2>3. QED
    BY <2>1, <2>2 DEF Init, QuotaExact
<1>2. QED
  BY <1>1, QuotaStep, Inductive, PTL DEF Spec

-----------------------------------------------------------------------------
(* The version chain *)

\* Commit extends the chain of its node and leaves the others alone.
LEMMA CommitChains ==
  ASSUME TypeOK, LinearHistory, ExpectedInv, NEW u \in Uploads, CommitUpload(u)
  PROVE  LinearHistory' /\ ExpectedInv'
<1> DEFINE n == Target[u]
<1>1. /\ u \notin CommittedTo(n) /\ n \in Nodes /\ u # NoVersion
      /\ head[n] = expected[u] /\ UNCHANGED expected
      /\ head' = [head EXCEPT ![n] = u]
  BY ShapeAssumption, NullAssumption DEF CommittedTo, CommitUpload
<1>2. /\ CommittedTo(n)' = CommittedTo(n) \cup {u}
      /\ \A m \in Nodes : m # n => CommittedTo(m)' = CommittedTo(m)
  BY DEF CommittedTo, CommitUpload, TypeOK
<1>3. head'[n] = u /\ \A m \in Nodes : m # n => head'[m] = head[m]
  BY <1>1 DEF TypeOK
<1>4. \A v \in CommittedTo(n) : expected[v] # head[n]
  BY <1>1 DEF LinearHistory
<1>5. \A v \in CommittedTo(n) \cup {u} : expected[v] \in CommittedTo(n) \cup {NoVersion}
  BY <1>1 DEF ExpectedInv, CommittedTo
<1>6. \A v \in CommittedTo(n) \cup {u} : expected[v] # u
  BY <1>1, <1>5
<1>7. LinearHistory'
  <2> SUFFICES ASSUME NEW m \in Nodes
      PROVE  /\ \A v, x \in CommittedTo(m)' : expected'[v] = expected'[x] => v = x
             /\ \A v \in CommittedTo(m)' : expected'[v] \in CommittedTo(m)' \cup {NoVersion}
             /\ CommittedTo(m)' = {} => head'[m] = NoVersion
             /\ CommittedTo(m)' # {} => /\ head'[m] \in CommittedTo(m)'
                                        /\ \A v \in CommittedTo(m)' : expected'[v] # head'[m]
    BY DEF LinearHistory
  <2>1. CASE m = n
    BY <1>1, <1>2, <1>3, <1>4, <1>5, <1>6, <2>1 DEF LinearHistory
  <2>2. CASE m # n
    BY <1>1, <1>2, <1>3, <2>2 DEF LinearHistory
  <2>3. QED
    BY <2>1, <2>2
<1>8. ExpectedInv'
  BY <1>1, <1>2, ShapeAssumption DEF ExpectedInv
<1>9. QED
  BY <1>7, <1>8

\* A step that commits nothing keeps every chain, if it sets the expected head
\* of an uncommitted upload only, to the head of its node.
LEMMA ChainsStay ==
  ASSUME TypeOK, LinearHistory, ExpectedInv, UNCHANGED head,
         \A v \in Uploads : ustate'[v] = "committed" <=> ustate[v] = "committed",
         \A v \in Uploads : \/ expected'[v] = expected[v]
                            \/ ustate[v] # "committed" /\ expected'[v] = head[Target[v]]
  PROVE  LinearHistory' /\ ExpectedInv'
<1>1. \A n \in Nodes : CommittedTo(n)' = CommittedTo(n)
  BY DEF CommittedTo
<1>2. \A n \in Nodes : \A v \in CommittedTo(n) : expected'[v] = expected[v]
  BY DEF CommittedTo
<1>3. LinearHistory'
  BY <1>1, <1>2 DEF LinearHistory
<1>4. \A n \in Nodes : head[n] \in CommittedTo(n) \cup {NoVersion}
  BY DEF LinearHistory
<1>5. ExpectedInv'
  BY <1>1, <1>4, ShapeAssumption DEF ExpectedInv
<1>6. QED
  BY <1>3, <1>5

LEMMA ChainStep ==
  IndInv /\ LinearHistory /\ ExpectedInv /\ [Next]_vars => LinearHistory' /\ ExpectedInv'
<1> SUFFICES ASSUME IndInv, LinearHistory, ExpectedInv, [Next]_vars
             PROVE  LinearHistory' /\ ExpectedInv'
  OBVIOUS
<1>0. TypeOK /\ RowsAgree
  BY DEF IndInv, Safe
<1>1. CASE UNCHANGED vars
  BY <1>0, <1>1, ChainsStay DEF vars
<1>2. ASSUME NEW w \in Writers, WriterNext(w) PROVE LinearHistory' /\ ExpectedInv'
  <2>1. UNCHANGED <<ustate, expected, head>>
    BY <1>2 DEF WriterNext, AdmitPart, PublishPart, WriterStops, MarkPartDurable
  <2>2. QED
    BY <1>0, <2>1, ChainsStay
<1>3. ASSUME NEW t \in Tasks, TaskNext(t) PROVE LinearHistory' /\ ExpectedInv'
  <2>1. CASE \E u \in Uploads : ClaimFinalization(t, u)
    BY <1>0, <2>1, ChainsStay DEF ClaimFinalization, TypeOK
  <2>2. CASE MarkFinalized(t)
    <3>1. task[t].upload \in Uploads
      BY <1>0, <2>2, ProcessNames DEF MarkFinalized, TaskAt
    <3>2. QED
      BY <1>0, <2>2, <3>1, ChainsStay DEF MarkFinalized, Holds, TypeOK
  <2>3. CASE AbortFinalization(t)
    <3>1. task[t].upload \in Uploads
      BY <1>0, <2>3, ProcessNames DEF AbortFinalization, TaskAt
    <3>2. QED
      BY <1>0, <2>3, <3>1, ChainsStay DEF AbortFinalization, Reopened, Holds, TypeOK
  <2>4. CASE \/ ReadManifest(t) \/ StoreObject(t) \/ RenameChunks(t) \/ VerifyFinalized(t)
             \/ HeartbeatFinalization(t) \/ FinalizationFails(t) \/ UnstageParts(t)
             \/ MarkUnstaged(t) \/ TaskCrashes(t)
    <3>1. UNCHANGED <<ustate, expected, head>>
      BY <2>4 DEF ReadManifest, StoreObject, RenameChunks, VerifyFinalized,
         HeartbeatFinalization, FinalizationFails, UnstageParts, MarkUnstaged, TaskCrashes
    <3>2. QED
      BY <1>0, <3>1, ChainsStay
  <2>5. QED
    BY <1>3, <2>1, <2>2, <2>3, <2>4 DEF TaskNext
<1>4. ASSUME NEW u \in Uploads, UploadNext(u) PROVE LinearHistory' /\ ExpectedInv'
  <2>1. CASE CommitUpload(u)
    BY <1>0, <2>1, CommitChains
  <2>2. CASE BeginUpload(u)
    BY <1>0, <2>2, ChainsStay DEF BeginUpload, TypeOK
  <2>3. CASE ReopenExpiredFinalization(u)
    BY <1>0, <2>3, ChainsStay DEF ReopenExpiredFinalization, Reopened, TypeOK
  <2>4. CASE ExpireUpload(u)
    BY <1>0, <2>4, ChainsStay DEF ExpireUpload, TypeOK
  <2>5. CASE LeaseLapses(u) \/ UploadOverdue(u) \/ EnqueueOrphan(u) \/ JobDue(u)
    <3>1. UNCHANGED <<ustate, expected, head>>
      BY <2>5 DEF LeaseLapses, UploadOverdue, EnqueueOrphan, JobDue
    <3>2. QED
      BY <1>0, <3>1, ChainsStay
  <2>6. QED
    BY <1>4, <2>1, <2>2, <2>3, <2>4, <2>5 DEF UploadNext
<1>5. ASSUME NEW w \in Workers, WorkerNext(w) PROVE LinearHistory' /\ ExpectedInv'
  <2>1. CASE DeleteRow(w)
    <3>1. worker[w].upload \in Uploads
      BY <1>0, <2>1, ProcessNames DEF DeleteRow, WorkerAt
    <3>2. QED
      BY <1>0, <2>1, <3>1, ChainsStay DEF DeleteRow, TypeOK
  <2>2. CASE ~DeleteRow(w)
    <3>1. UNCHANGED <<ustate, expected, head>>
      BY <1>5, <2>2 DEF WorkerNext, ClaimNext, JobStep, ClaimNothing, ClaimJob,
     ClaimRefused, ClaimRolledBack, SweepBegins, SweepStaging,
         SweepMarks, DeferReconcile, BeginReconcile, ReconcileStaging, ReconcileFinal,
         ReconcileRow, AdmitDeletion, DeleteFinal, DeleteStaging, CompleteJob, JobFails,
         WorkerCrashes
    <3>2. QED
      BY <1>0, <3>1, ChainsStay
  <2>3. QED
    BY <2>1, <2>2
<1>6. QED
  BY <1>1, <1>2, <1>3, <1>4, <1>5 DEF Next

\* Of any number of uploads begun against the same head at most one commits,
\* and the committed versions of a node form one chain that ends at its head.
THEOREM HistoryAlwaysLinear == Spec => []LinearHistory
<1>1. Init => LinearHistory /\ ExpectedInv
  BY DEF Init, LinearHistory, ExpectedInv, CommittedTo
<1>2. QED
  BY <1>1, ChainStep, Inductive, PTL DEF Spec

-----------------------------------------------------------------------------
(* Reclaimed payloads, when I/O requests end within the grace *)

\* What is being reclaimed is settled: no request can be admitted for it.
LEMMA ReclaimingSettled ==
  ASSUME IndInv, NEW u \in Uploads, Reclaiming(u)
  PROVE  ustate[u] \in {"finalized", "expired"}
BY DEF IndInv, Safe, RowsAgree, WorkerInv, Reclaiming

\* A quiet upload that is settled stays quiet, and its bytes stay as they are.
LEMMA WriterQuiet ==
  ASSUME TypeOK, NEW w \in Writers, WriterNext(w), NEW u \in Uploads, Quiet(u),
         ustate[u] \in {"finalized", "expired"}
  PROVE  Quiet(u)' /\ staging'[u] = staging[u]
<1>1. writer \in [Writers -> WriterRecord] /\ staging \in [Uploads -> Image]
  BY DEF TypeOK
<1>2. u # NoUpload
  BY NullAssumption
<1>3. ASSUME NEW v \in Uploads, NEW p \in Parts, NEW b \in Bytes, AdmitPart(w, v, p, b)
      PROVE  Quiet(u)' /\ staging'[u] = staging[u]
  BY <1>1, <1>3 DEF AdmitPart, Quiet
<1>4. CASE PublishPart(w)
  <2>1. writer[w].upload # u /\ UNCHANGED task
    BY <1>4 DEF Quiet, PublishPart
  <2>2. staging'[u] = staging[u]
    <3> DEFINE v == writer[w].upload
               f == [staging[v] EXCEPT ![writer[w].part] = writer[w].bytes]
    <3>1. staging' = staging \/ staging' = [staging EXCEPT ![v] = f]
      BY <1>4 DEF PublishPart
    <3>2. QED
      BY <1>1, <2>1, <3>1
  <2>3. \A x \in Writers : writer'[x].upload # u
    <3>1. CASE writer' = [writer EXCEPT ![w] = IdleWriter]
      BY <1>1, <1>2, <3>1 DEF Quiet, IdleWriter
    <3>2. CASE writer' = [writer EXCEPT ![w].step = "published"]
      BY <1>4, <3>2, PublishMoves DEF Quiet, PublishPart
    <3>3. QED
      BY <1>4, <3>1, <3>2 DEF PublishPart
  <2>4. QED
    BY <2>1, <2>2, <2>3 DEF Quiet
<1>5. CASE MarkPartDurable(w)
  BY <1>1, <1>2, <1>5 DEF MarkPartDurable, Quiet, IdleWriter
<1>6. CASE WriterStops(w)
  BY <1>1, <1>2, <1>6 DEF WriterStops, Quiet, IdleWriter
<1>7. QED
  BY <1>3, <1>4, <1>5, <1>6 DEF WriterNext

\* A step that a task takes at another upload leaves a quiet one quiet.
LEMMA QuietMoves ==
  ASSUME TypeOK, NEW t \in Tasks, task[t].step \notin {"idle", "done"}, NEW s, NEW i,
         TaskMoves(t, s, i), UNCHANGED writer, NEW u \in Uploads, Quiet(u)
  PROVE  Quiet(u)' /\ task[t].upload # u
BY DEF Quiet, TaskMoves

LEMMA TaskQuiet ==
  ASSUME TypeOK, NEW t \in Tasks, TaskNext(t), NEW u \in Uploads, Quiet(u),
         ustate[u] \in {"finalized", "expired"}
  PROVE  Quiet(u)' /\ staging'[u] = staging[u] /\ final'[u] = final[u]
<1> DEFINE Goal == Quiet(u)' /\ staging'[u] = staging[u] /\ final'[u] = final[u]
<1>0. /\ task \in [Tasks -> TaskRecord] /\ staging \in [Uploads -> Image]
      /\ final \in [Uploads -> Image \cup {Missing}] /\ part \in [Uploads -> Image]
  BY DEF TypeOK
<1>1. ASSUME NEW v \in Uploads, ClaimFinalization(t, v) PROVE Goal
  <2>1. v # u
    BY <1>1 DEF ClaimFinalization
  <2>2. QED
    BY <1>0, <1>1, <2>1 DEF ClaimFinalization, Quiet
<1>2. CASE ReadManifest(t)
  <2>1. \E s, i : TaskMoves(t, s, i)
    <3>1. part[task[t].upload] \in Image
      BY <1>0, <1>2, ProcessNames DEF ReadManifest, TaskAt
    <3>2. CASE task' = [task EXCEPT ![t].step = "storing", ![t].image = part[task[t].upload]]
      BY <1>2, <3>1, <3>2, ImageMoves DEF ReadManifest, TaskAt, TaskSteps
    <3>3. CASE Goes(t, "failed")
      BY <1>2, <3>3, GoesMoves DEF ReadManifest, TaskAt, TaskSteps
    <3>4. QED
      BY <1>2, <3>2, <3>3 DEF ReadManifest, Goes
  <2>2. QED
    BY <1>2, <2>1, QuietMoves DEF ReadManifest, TaskAt
<1>3. CASE StoreObject(t)
  <2>1. \E s, i : TaskMoves(t, s, i)
    BY <1>3, GoesMoves DEF StoreObject, TaskAt, TaskSteps
  <2>2. Quiet(u)' /\ task[t].upload # u
    BY <1>3, <2>1, QuietMoves DEF StoreObject, TaskAt
  <2>3. QED
    BY <1>0, <1>3, <2>2 DEF StoreObject
<1>4. CASE RenameChunks(t)
  <2>1. \E s, i : TaskMoves(t, s, i)
    BY <1>4, GoesMoves DEF RenameChunks, TaskAt, TaskSteps
  <2>2. Quiet(u)' /\ task[t].upload # u
    BY <1>4, <2>1, QuietMoves DEF RenameChunks, TaskAt
  <2>3. QED
    BY <1>0, <1>4, <2>2 DEF RenameChunks
<1>5. CASE VerifyFinalized(t)
  <2>1. \E s, i : TaskMoves(t, s, i)
    <3>1. final[task[t].upload] \in Image \cup {Missing}
      BY <1>0, <1>5, ProcessNames DEF VerifyFinalized, TaskAt
    <3>2. CASE task' = [task EXCEPT ![t].step = "marking", ![t].image = final[task[t].upload]]
      BY <1>5, <3>1, <3>2, ImageMoves DEF VerifyFinalized, TaskAt, TaskSteps
    <3>3. CASE Goes(t, "failed")
      BY <1>5, <3>3, GoesMoves DEF VerifyFinalized, TaskAt, TaskSteps
    <3>4. QED
      BY <1>5, <3>2, <3>3 DEF VerifyFinalized, Goes
  <2>2. QED
    BY <1>5, <2>1, QuietMoves DEF VerifyFinalized, TaskAt
<1>6. CASE HeartbeatFinalization(t)
  BY <1>6 DEF HeartbeatFinalization, Quiet
<1>7. CASE MarkFinalized(t)
  BY <1>7, GoesMoves, QuietMoves DEF MarkFinalized, TaskAt, TaskSteps
<1>8. CASE FinalizationFails(t)
  BY <1>8, GoesMoves, QuietMoves DEF FinalizationFails, TaskSteps
<1>9. CASE AbortFinalization(t)
  BY <1>9, GoesMoves, QuietMoves DEF AbortFinalization, TaskAt, TaskSteps
<1>10. CASE UnstageParts(t)
  <2>1. Quiet(u)' /\ task[t].upload # u
    BY <1>10, GoesMoves, QuietMoves DEF UnstageParts, TaskAt, TaskSteps
  <2>2. QED
    BY <1>0, <1>10, <2>1 DEF UnstageParts
<1>11. CASE MarkUnstaged(t)
  BY <1>11, GoesMoves, QuietMoves DEF MarkUnstaged, TaskAt, TaskSteps
<1>12. CASE TaskCrashes(t)
  BY <1>12, GoesMoves, QuietMoves DEF TaskCrashes, TaskSteps
<1>13. QED
  BY <1>1, <1>2, <1>3, <1>4, <1>5, <1>6, <1>7, <1>8, <1>9, <1>10, <1>11, <1>12
     DEF TaskNext

\* Neither a writer nor a task begins to reclaim anything.
LEMMA RequestsReclaimNothing ==
  ASSUME IndInv,
         (\E w \in Writers : WriterNext(w)) \/ (\E t \in Tasks : TaskNext(t))
  PROVE  /\ UNCHANGED worker
         /\ \A u \in Uploads :
              pstate'[u] \in {"delete_intent", "deleting", "deleted", "abandoned"} =>
                pstate'[u] = pstate[u]
<1>1. pstate \in [Uploads -> PayloadStates]
  BY DEF IndInv, TypeOK
<1>2. ASSUME NEW w \in Writers, WriterNext(w) PROVE UNCHANGED <<worker, pstate>>
  BY <1>2 DEF WriterNext, AdmitPart, PublishPart, MarkPartDurable, WriterStops
<1>3. ASSUME NEW t \in Tasks, TaskNext(t)
      PROVE  /\ UNCHANGED worker
             /\ \/ UNCHANGED pstate
                \/ \E v \in Uploads, s \in {"staging", "finalizing", "finalized"} :
                     pstate' = [pstate EXCEPT ![v] = s]
  <2>1. CASE \E u \in Uploads : ClaimFinalization(t, u)
    BY <2>1 DEF ClaimFinalization
  <2>2. CASE MarkFinalized(t)
    BY <2>2, ProcessNames DEF MarkFinalized, TaskAt, IndInv
  <2>3. CASE AbortFinalization(t)
    BY <2>3, ProcessNames DEF AbortFinalization, Reopened, TaskAt, IndInv
  <2>4. QED
    BY <1>3, <2>1, <2>2, <2>3 DEF TaskNext, ReadManifest, StoreObject, RenameChunks,
         VerifyFinalized, HeartbeatFinalization, FinalizationFails, UnstageParts,
         MarkUnstaged, TaskCrashes
<1>4. QED
  BY <1>1, <1>2, <1>3

\* So what is being reclaimed keeps its bytes, or their absence, under every
\* step of a request.
LEMMA RequestReclaims ==
  ASSUME IndInv, ReclaimInv,
         (\E w \in Writers : WriterNext(w)) \/ (\E t \in Tasks : TaskNext(t))
  PROVE  ReclaimInv'
<1>1. ASSUME NEW u \in Uploads, Reclaiming(u)
      PROVE  Quiet(u)' /\ staging'[u] = staging[u] /\ final'[u] = final[u]
  <2>1. Quiet(u) /\ ustate[u] \in {"finalized", "expired"} /\ TypeOK
    BY <1>1, ReclaimingSettled DEF ReclaimInv, IndInv
  <2>2. ASSUME NEW w \in Writers, WriterNext(w) PROVE UNCHANGED final
    BY <2>2 DEF WriterNext, AdmitPart, PublishPart, MarkPartDurable, WriterStops
  <2>3. QED
    BY <2>1, <2>2, WriterQuiet, TaskQuiet
<1>2. \A u \in Uploads : Reclaiming(u)' => Reclaiming(u)
  BY RequestsReclaimNothing DEF Reclaiming
<1>3. \A w \in Workers :
        worker[w].step \in {"reconcile_final", "reconcile_row", "delete_staging", "delete_row"}
        => worker[w].upload \in Uploads /\ Reclaiming(worker[w].upload)
  BY ProcessNames DEF IndInv, Safe, WorkerInv, Reclaiming
<1>4. UNCHANGED worker
  BY RequestsReclaimNothing
<1>5. \A w \in Workers :
       /\ worker'[w].step \in {"reconcile_final", "reconcile_row", "delete_row"} =>
            staging'[worker'[w].upload] = Blank
       /\ worker'[w].step \in {"reconcile_row", "delete_staging", "delete_row"} =>
            final'[worker'[w].upload] = Missing
  BY <1>1, <1>3, <1>4 DEF ReclaimInv
<1>6. ReclaimedLeavesNoBytes'
  BY <1>1, RequestsReclaimNothing DEF ReclaimInv, ReclaimedLeavesNoBytes, Reclaiming
<1>7. QED
  BY <1>1, <1>2, <1>5, <1>6 DEF ReclaimInv

\* A transaction about an upload moves no byte; the one that gives a payload
\* up waits for the grace.
LEMMA UploadReclaims ==
  ASSUME ~StallsPastGrace, IndInv, ReclaimInv, NEW v \in Uploads, UploadNext(v)
  PROVE  ReclaimInv'
<1>1. pstate \in [Uploads -> PayloadStates]
  BY DEF IndInv, TypeOK
<1>2. UNCHANGED <<disk, writer, task, worker>>
  BY DEF UploadNext, BeginUpload, CommitUpload, LeaseLapses, UploadOverdue,
     ReopenExpiredFinalization, ExpireUpload, EnqueueOrphan, JobDue
<1>3. \/ UNCHANGED pstate
      \/ \E s \in {"staging", "referenced"} : pstate' = [pstate EXCEPT ![v] = s]
      \/ pstate' = [pstate EXCEPT ![v] = "delete_intent"] /\ Quiet(v)
  BY DEF UploadNext, BeginUpload, CommitUpload, LeaseLapses, UploadOverdue,
     ReopenExpiredFinalization, Reopened, ExpireUpload, EnqueueOrphan, JobDue, GraceOver
<1>4. \A u \in Uploads : Quiet(u)' <=> Quiet(u)
  BY <1>2 DEF Quiet
<1>5. \A u \in Uploads : Reclaiming(u)' => Reclaiming(u) \/ Quiet(u)
  BY <1>1, <1>2, <1>3 DEF Reclaiming
<1>6. ReclaimedLeavesNoBytes'
  BY <1>1, <1>2, <1>3 DEF ReclaimInv, ReclaimedLeavesNoBytes
<1>7. QED
  BY <1>2, <1>4, <1>5, <1>6 DEF ReclaimInv

\* A worker that turns to another step of its job: what it removed before is
\* still away, and what the new step promises is there.
LEMMA TurnReclaims ==
  ASSUME IndInv, ReclaimInv, NEW w \in Workers, NEW s, WorkerMoves(w, s),
         worker[w].upload \in Uploads, UNCHANGED <<writer, task>>,
         \A u \in Uploads : /\ staging'[u] \in {staging[u], Blank}
                            /\ final'[u] \in {final[u], Missing}
                            /\ pstate'[u] = pstate[u] \/ u = worker[w].upload,
         \A u \in Uploads : u = worker[w].upload /\ Reclaiming(u)' => Quiet(u),
         s \in {"reconcile_final", "reconcile_row", "delete_row"} =>
           staging'[worker[w].upload] = Blank,
         s \in {"reconcile_row", "delete_staging", "delete_row"} =>
           final'[worker[w].upload] = Missing,
         pstate'[worker[w].upload] \in {"abandoned", "deleted"} =>
           /\ staging'[worker[w].upload] = Blank
           /\ final'[worker[w].upload] = Missing
  PROVE  ReclaimInv'
<1> DEFINE v == worker[w].upload
<1>1. \A u \in Uploads : u # v /\ Reclaiming(u)' => Reclaiming(u)
  BY DEF Reclaiming, WorkerMoves
<1>2. \A u \in Uploads : Reclaiming(u)' => Quiet(u)'
  BY <1>1 DEF ReclaimInv, Quiet
<1>3. \A x \in Workers : x # w =>
       /\ worker'[x].step \in {"reconcile_final", "reconcile_row", "delete_row"} =>
            staging'[worker'[x].upload] = Blank
       /\ worker'[x].step \in {"reconcile_row", "delete_staging", "delete_row"} =>
            final'[worker'[x].upload] = Missing
  <2>1. \A x \in Workers : worker[x].step # "idle" => worker[x].upload \in Uploads
    BY ProcessNames DEF IndInv
  <2>2. QED
    BY <2>1 DEF ReclaimInv, WorkerMoves
<1>4. /\ s \in {"reconcile_final", "reconcile_row", "delete_row"} => staging'[worker'[w].upload] = Blank
      /\ s \in {"reconcile_row", "delete_staging", "delete_row"} => final'[worker'[w].upload] = Missing
      /\ worker'[w].step = s
  BY DEF WorkerMoves
<1>5. ReclaimedLeavesNoBytes'
  BY DEF ReclaimInv, ReclaimedLeavesNoBytes
<1>6. QED
  BY <1>2, <1>3, <1>4, <1>5 DEF ReclaimInv

\* A worker that takes up or lays down its work holds no promise about bytes.
LEMMA WorkerRests ==
  ASSUME IndInv, ReclaimInv, NEW w \in Workers, NEW r, worker' = [worker EXCEPT ![w] = r],
         r.step \in {"idle", "claimed", "refused", "sweep_staging"},
         UNCHANGED <<pstate, disk, writer, task>>
  PROVE  ReclaimInv'
<1>1. worker \in [Workers -> WorkerRecord]
  BY DEF IndInv, TypeOK
<1>2. \A x \in Workers : worker'[x] = IF x = w THEN r ELSE worker[x]
  BY <1>1
<1>3. \A u \in Uploads : Reclaiming(u)' => Reclaiming(u)
  BY <1>2 DEF Reclaiming
<1>4. \A u \in Uploads : Reclaiming(u)' => Quiet(u)'
  BY <1>3 DEF ReclaimInv, Quiet
<1>5. QED
  BY <1>2, <1>4 DEF ReclaimInv, ReclaimedLeavesNoBytes

LEMMA WorkerReclaims ==
  ASSUME ~StallsPastGrace, IndInv, ReclaimInv, NEW w \in Workers, WorkerNext(w)
  PROVE  ReclaimInv'
<1> DEFINE v == worker[w].upload
<1>0. /\ TypeOK /\ RowsAgree /\ WorkerInv /\ staging \in [Uploads -> Image]
      /\ final \in [Uploads -> Image \cup {Missing}]
      /\ pstate \in [Uploads -> PayloadStates] /\ worker \in [Workers -> WorkerRecord]
      /\ worker[w].step # "idle" => v \in Uploads
  BY ProcessNames DEF IndInv, Safe, TypeOK
<1>1. CASE \E u \in Uploads : ClaimJob(w, u) \/ ClaimRefused(w, u) \/ SweepBegins(w, u)
  BY <1>1, WorkerRests DEF ClaimJob, ClaimRefused, SweepBegins
<1>2. CASE \/ SweepMarks(w) \/ WorkerCrashes(w) \/ DeferReconcile(w) \/ CompleteJob(w)
           \/ JobFails(w) \/ ClaimRolledBack(w)
  <2>1. worker' = [worker EXCEPT ![w] = IdleWorker] /\ UNCHANGED <<pstate, disk, writer, task>>
    BY <1>2 DEF SweepMarks, WorkerCrashes, DeferReconcile, CompleteJob, JobFails, JobEnds,
         ClaimRolledBack
  <2>2. QED
    BY <2>1, WorkerRests DEF IdleWorker
<1>3. CASE SweepStaging(w)
  <2>1. WorkerMoves(w, "sweep_row") /\ v \in Uploads
    BY <1>0, <1>3, TurnsMoves DEF SweepStaging, WorkerAt, WorkerSteps
  <2>2. \A u \in Uploads : u = v /\ Reclaiming(u)' => Reclaiming(u)
    BY <1>3, <2>1 DEF SweepStaging, Reclaiming, WorkerMoves
  <2>3. QED
    BY <1>0, <1>3, <2>1, <2>2, TurnReclaims
       DEF SweepStaging, ReclaimInv, ReclaimedLeavesNoBytes
<1>4. CASE BeginReconcile(w)
  <2>1. WorkerMoves(w, "reconcile_staging") /\ v \in Uploads /\ Quiet(v)
    BY <1>0, <1>4, TurnsMoves DEF BeginReconcile, WorkerAt, WorkerSteps, GraceOver
  <2>2. QED
    BY <1>0, <1>4, <2>1, TurnReclaims DEF BeginReconcile, ReclaimInv, ReclaimedLeavesNoBytes
<1>5. CASE ReconcileStaging(w)
  <2>1. WorkerMoves(w, "reconcile_final") /\ v \in Uploads /\ Reclaiming(v)
    BY <1>0, <1>5, TurnsMoves DEF ReconcileStaging, WorkerAt, WorkerSteps, Reclaiming
  <2>2. QED
    BY <1>0, <1>5, <2>1, TurnReclaims
       DEF ReconcileStaging, ReclaimInv, ReclaimedLeavesNoBytes
<1>6. CASE ReconcileFinal(w)
  <2>1. WorkerMoves(w, "reconcile_row") /\ v \in Uploads /\ Reclaiming(v) /\ staging[v] = Blank
    BY <1>0, <1>6, TurnsMoves
       DEF ReconcileFinal, WorkerAt, WorkerSteps, Reclaiming, ReclaimInv
  <2>2. QED
    BY <1>0, <1>6, <2>1, TurnReclaims
       DEF ReconcileFinal, ReclaimInv, ReclaimedLeavesNoBytes
<1>7. CASE ReconcileRow(w)
  <2>1. /\ WorkerMoves(w, "finish") /\ v \in Uploads /\ Reclaiming(v)
        /\ staging[v] = Blank /\ final[v] = Missing
    BY <1>0, <1>7, TurnsMoves DEF ReconcileRow, WorkerAt, WorkerSteps, Reclaiming, ReclaimInv
  <2>2. QED
    BY <1>0, <1>7, <2>1, TurnReclaims DEF ReconcileRow, ReclaimInv
<1>8. CASE AdmitDeletion(w)
  <2>1. /\ v \in Uploads /\ Reclaiming(v) /\ UNCHANGED <<disk, writer, task>>
        /\ \/ WorkerMoves(w, "finish") /\ UNCHANGED pstate
           \/ WorkerMoves(w, "delete_final") /\ pstate' = [pstate EXCEPT ![v] = "deleting"]
    BY <1>0, <1>8, TurnsMoves DEF AdmitDeletion, WorkerAt, WorkerSteps, Reclaiming
  <2>2. QED
    BY <1>0, <2>1, TurnReclaims DEF ReclaimInv, ReclaimedLeavesNoBytes
<1>9. CASE DeleteFinal(w)
  <2>1. WorkerMoves(w, "delete_staging") /\ v \in Uploads /\ Reclaiming(v)
    BY <1>0, <1>9, TurnsMoves DEF DeleteFinal, WorkerAt, WorkerSteps, Reclaiming, WorkerInv
  <2>2. QED
    BY <1>0, <1>9, <2>1, TurnReclaims DEF DeleteFinal, ReclaimInv, ReclaimedLeavesNoBytes
<1>10. CASE DeleteStaging(w)
  <2>1. /\ WorkerMoves(w, "delete_row") /\ v \in Uploads /\ Reclaiming(v)
        /\ final[v] = Missing
    BY <1>0, <1>10, TurnsMoves
       DEF DeleteStaging, WorkerAt, WorkerSteps, Reclaiming, WorkerInv, ReclaimInv
  <2>2. QED
    BY <1>0, <1>10, <2>1, TurnReclaims DEF DeleteStaging, ReclaimInv, ReclaimedLeavesNoBytes
<1>11. CASE DeleteRow(w)
  <2>1. /\ WorkerMoves(w, "finish") /\ v \in Uploads /\ Reclaiming(v)
        /\ staging[v] = Blank /\ final[v] = Missing
    BY <1>0, <1>11, TurnsMoves
       DEF DeleteRow, WorkerAt, WorkerSteps, Reclaiming, WorkerInv, ReclaimInv
  <2>2. QED
    BY <1>0, <1>11, <2>1, TurnReclaims DEF DeleteRow, ReclaimInv
<1>12. CASE ClaimNothing(w)
  <2>1. UNCHANGED <<pstate, staging, final, writer, task, worker>>
    BY <1>12 DEF ClaimNothing
  <2>2. QED
    BY <2>1 DEF ReclaimInv, Reclaiming, Quiet, ReclaimedLeavesNoBytes
<1>13. QED
  BY <1>1, <1>2, <1>3, <1>4, <1>5, <1>6, <1>7, <1>8, <1>9, <1>10, <1>11, <1>12
     DEF WorkerNext, ClaimNext, JobStep

LEMMA ReclaimStep ==
  ASSUME ~StallsPastGrace, IndInv, ReclaimInv, [Next]_vars
  PROVE  ReclaimInv'
<1>1. CASE UNCHANGED vars
  <2>1. UNCHANGED <<pstate, staging, final, writer, task, worker>>
    BY <1>1 DEF vars
  <2>2. QED
    BY <2>1 DEF ReclaimInv, ReclaimedLeavesNoBytes, Reclaiming, Quiet
<1>2. CASE Next
  BY <1>2, RequestReclaims, UploadReclaims, WorkerReclaims DEF Next
<1>3. QED
  BY <1>1, <1>2

LEMMA ReclaimInit == Init => ReclaimInv
<1> SUFFICES ASSUME Init PROVE ReclaimInv
  OBVIOUS
<1>1. /\ \A u \in Uploads : pstate[u] = "none"
      /\ \A w \in Workers : worker[w].step = "idle"
  BY DEF Init, IdleWorker
<1>2. QED
  BY <1>1 DEF ReclaimInv, ReclaimedLeavesNoBytes, Reclaiming

\* When every I/O request ends within the retention grace, a payload that
\* reconcile_upload abandoned or delete_payload deleted has left neither a
\* final object nor a staged part on disk, whichever workers crashed or ran the
\* same job twice on the way.  The hypothesis cannot be dropped: a finalizer
\* that stalls past the grace links its object after the row is abandoned.
THEOREM ReclaimedBytesGone ==
  ASSUME ~StallsPastGrace
  PROVE  Spec => []ReclaimedLeavesNoBytes
<1>1. Init => IndInv /\ ReclaimInv
  BY TypeInit, SafeInit, ReclaimInit DEF IndInv
<1>2. IndInv /\ ReclaimInv /\ [Next]_vars => (IndInv /\ ReclaimInv)'
  BY SafeStep, ReclaimStep
<1>3. ReclaimInv => ReclaimedLeavesNoBytes
  BY DEF ReclaimInv
<1>4. QED
  BY <1>1, <1>2, <1>3, PTL DEF Spec

=============================================================================
