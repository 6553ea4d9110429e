--------------------------- MODULE NfsWriteProofs ---------------------------
(***************************************************************************)
(* Proofs about NFS write sessions: the type invariant, that acknowledged  *)
(* writes are kept, that deleted bytes stay deleted, that reservations are *)
(* exact, that what is published is what was acknowledged, and that a      *)
(* session implements StagedWrite.                                         *)
(*                                                                         *)
(* The inductive invariant says of every writer which rows go together     *)
(* (RowInv) and what its requests look like (RequestInv), of every task    *)
(* what it relies on between two of its steps (TaskInv), and of the bytes  *)
(* what is in them (BytesInv).                                             *)
(***************************************************************************)
EXTENDS NfsWrite, FiniteSetTheorems, TLAPS

Alive == {"open", "flushing", "committing"}

\* The rows of a writer, its payload, its conflict and its cleanup job.
RowInv(w) ==
  LET s == writer[w].state
      p == payload[w].state
      j == job[w].state
  IN
  /\ s = "none" => /\ writer[w].token = 0 /\ writer[w].reserved = 0
                   /\ p = "none" /\ cow[w] = Absent /\ object[w] = Absent
  /\ s \in Active \cup {"committed", "aborted"} => writer[w].token = 1 /\ conflict[w] = "none"
  /\ s = "conflicted" => writer[w].token = 2
  /\ s = "expired" => writer[w].token \in {2, 3} /\ conflict[w] # "retained"
  /\ writer[w].lease => s \in Active
  /\ s \in {"none", "committed", "conflicted"} \cup Alive => j = "none"
  /\ s \in {"open", "flushing"} => p = "staging"
  /\ s = "committing" => p = "finalized"
  /\ s = "committed" => p = "referenced"
  /\ s = "aborting" => p \in {"staging", "finalized"}
  /\ s = "aborted" => p \in {"abandoned", "deleted"} /\ j # "none"
  /\ s = "expired" => p \in {"staging", "finalized", "abandoned", "deleted"} /\ j # "none"
  /\ s = "conflicted" => \/ conflict[w] = "retained" /\ p = "finalized"
                         \/ conflict[w] = "copied" /\ p = "referenced"
  /\ s = "none" => conflict[w] = "none"
  /\ p = "deleted" <=> j \in {"physical_deleted", "completed"}

\* Where the request for a range stands in its two rows, until a cleanup cancels it.
RangeStages ==
  {<<"none", "planned">>, <<"pending", "executing">>, <<"done", "io_completed">>,
   <<"done", "applied">>}

\* The requests of a writer: used in order, one at a time, and no range behind one
\* that has not been applied.
RequestInv(w) ==
  LET s == writer[w].state
      r == req[w]
  IN
  /\ s = "none" => \A n \in Requests : r[n].kind = "none"
  /\ \A n \in Requests :
       /\ r[n].kind = "none" => r[n].receipt = "none" /\ ~r[n].waiting
       /\ r[n].kind # "range" => r[n].op = "none"
       /\ r[n].fresh => r[n].waiting
       /\ r[n].receipt = "pending" => r[n].waiting
       /\ r[n].kind = "range" /\ payload[w].state # "deleted" =>
            <<r[n].receipt, r[n].op>> \in RangeStages
       /\ r[n].receipt = "pending" => s \notin {"committing", "committed", "conflicted"}
       /\ r[n].receipt = "pending" /\ r[n].kind # "range" => RangesApplied(w)
       /\ r[n].receipt # "none" /\ r[n].kind = "abort" => s \notin Alive
       /\ r[n].receipt = "pending" /\ r[n].kind = "finalize" => s # "open"
       /\ r[n].receipt = "cleanup" => payload[w].state = "deleted"
  /\ \A m, n \in Requests :
       /\ m < n /\ r[n].kind # "none" => r[m].kind # "none"
       /\ m < n /\ r[m].kind = "range" /\ r[m].op # "applied" => r[n].kind = "none"
       /\ r[m].receipt = "pending" /\ r[n].receipt = "pending" => m = n
       /\ r[m].waiting /\ r[n].waiting => m = n
  /\ s \in {"flushing", "committing", "committed", "conflicted"} => RangesApplied(w)
  /\ s = "committing" => \E n \in Requests : r[n].waiting /\ r[n].receipt = "done"

RequestSteps == {"begin", "lock", "rebegin", "io", "done", "claim"}
LockedSteps == {"rebegin", "io", "done", "locked", "deleted"}

\* What a task relies on between two of its steps.  A request that was admitted under
\* the lock is the one whose receipt is pending, and nobody else changes the bytes.
TaskInv(t) ==
  LET w == Of(t)
      step == task[t].step
  IN
  step # "idle" =>
    /\ w \in Writers
    /\ step \in RequestSteps => /\ task[t].n \in Requests
                                /\ Req(t).kind # "none"
    /\ step \in LockedSteps => lock[w] = t
    /\ step \in {"io", "done"} => Req(t).receipt = "pending" /\ payload[w].state # "deleted"
    /\ step = "done" /\ Req(t).kind = "range" => cow[w] = task[t].n
    /\ step = "done" /\ Req(t).kind = "finalize" => object[w] = task[t].seen /\ object[w] # Absent
    /\ step = "deleted" => cow[w] = Absent /\ object[w] = Absent

\* The bytes of a writer.
BytesInv(w) ==
  LET s == writer[w].state IN
  /\ s = "open" => object[w] = Absent
  /\ s \in Alive => \/ Bytes(w) = LastApplied(w)
                    \/ \E n \in Requests : /\ req[w][n].op \in {"executing", "io_completed"}
                                           /\ Bytes(w) = n
  /\ s \in Alive => \A n \in Requests : req[w][n].op = "io_completed" => Bytes(w) = n
  /\ s \in {"committing", "committed", "conflicted"} =>
       object[w] = payload[w].digest /\ object[w] = LastApplied(w)
  /\ job[w].state \in {"physical_deleted", "completed"} => cow[w] = Absent /\ object[w] = Absent

\* Only finitely many units are ever reserved, however many writers there may be.
QuotaInv ==
  /\ QuotaExact
  /\ IsFiniteSet(Units({"staging", "finalized"})) /\ IsFiniteSet(Units({"referenced"}))

IndInv ==
  /\ TypeOK
  /\ \A w \in Writers : RowInv(w) /\ RequestInv(w) /\ BytesInv(w)
  /\ \A t \in Tasks : TaskInv(t)
  /\ QuotaInv

-----------------------------------------------------------------------------
(* Numbers *)

LEMMA NatMin ==
  ASSUME NEW S \in SUBSET Nat, S # {}
  PROVE  \E x \in S : \A y \in S : x <= y
<1> DEFINE R == OpToRel(<, Nat)
<1>1. IsWellFoundedOn(R, Nat)
  BY NatLessThanWellFounded
<1> HIDE DEF R
<1>2. PICK x \in S : \A y \in S : ~(<<y, x>> \in R)
  BY <1>1, WFMin
<1>3. \A y \in S : ~(y < x)
  BY <1>2 DEF R, OpToRel
<1> QED
  BY <1>3

LEMMA MinIs ==
  ASSUME NEW S \in SUBSET Nat, S # {}
  PROVE  Min(S) \in S /\ \A y \in S : Min(S) <= y
BY NatMin DEF Min

LEMMA MaxIs ==
  ASSUME NEW k \in Nat, NEW S \in SUBSET (0..k), S # {}
  PROVE  Max(S) \in S /\ \A y \in S : y <= Max(S)
<1> DEFINE T == {i \in Nat : k - i \in S}
<1>1. T # {} /\ T \in SUBSET Nat
  <2>1. PICK s \in S : TRUE
    OBVIOUS
  <2>2. k - s \in Nat /\ k - (k - s) = s
    OBVIOUS
  <2> QED
    BY <2>1, <2>2
<1>2. PICK x \in T : \A y \in T : x <= y
  BY <1>1, NatMin
<1>3. k - x \in S /\ \A y \in S : y <= k - x
  <2>1. ASSUME NEW y \in S PROVE y <= k - x
    <3>1. k - y \in T
      OBVIOUS
    <3> QED
      BY <3>1, <1>2
  <2> QED
    BY <2>1, <1>2
<1> QED
  BY <1>3 DEF Max

-----------------------------------------------------------------------------
(* Rows: the fields of what an action writes *)

Typed ==
  /\ writer \in [Writers -> WriterRow]
  /\ handle \in [Writers -> {"open", "stale", "closed"}]
  /\ payload \in [Writers -> PayloadRow]
  /\ manifest \in [Writers -> Content \cup {Absent}]
  /\ req \in [Writers -> [Requests -> RequestRow]]
  /\ job \in [Writers -> JobRow]
  /\ conflict \in [Writers -> {"none", "retained", "copied", "discarded", "expired"}]
  /\ head \in Nat
  /\ cow \in [Writers -> Content \cup {Absent}]
  /\ object \in [Writers -> Content \cup {Absent}]
  /\ lock \in [Writers -> Tasks \cup {NoTask}]
  /\ task \in [Tasks -> Task]
  /\ faults \in 0..MaxFaults

LEMMA TypedIs == TypeOK <=> Typed /\ drive \in [used: Nat, reserved: Nat]
BY DEF TypeOK, Typed

LEMMA EndedRow ==
  ASSUME NEW r \in WriterRow, NEW s \in Active \cup Fenced \cup {"none", "committed"},
         NEW k \in 0..3
  PROVE  /\ Ended(r, s, k) \in WriterRow
         /\ Ended(r, s, k).state = s /\ Ended(r, s, k).token = k
         /\ Ended(r, s, k).lease = FALSE /\ Ended(r, s, k).live = FALSE
         /\ Ended(r, s, k).reserved = r.reserved
BY DEF Ended, WriterRow

LEMMA ExpiredRow ==
  ASSUME NEW r \in WriterRow
  PROVE  /\ r.token = 1 => Ended(r, "expired", r.token + 1) = Ended(r, "expired", 2)
         /\ r.token = 2 => Ended(r, "expired", r.token + 1) = Ended(r, "expired", 3)
         /\ \A k \in {2, 3} :
              LET q == Ended(r, "expired", k)
              IN  /\ q \in WriterRow /\ q.state = "expired" /\ q.token = k
                  /\ q.lease = FALSE /\ q.live = FALSE /\ q.reserved = r.reserved
<1>1. r.token = 1 => Ended(r, "expired", r.token + 1) = Ended(r, "expired", 2)
  BY DEF Ended
<1>2. r.token = 2 => Ended(r, "expired", r.token + 1) = Ended(r, "expired", 3)
  BY DEF Ended
<1>3. "expired" \in Active \cup Fenced \cup {"none", "committed"} /\ 2 \in 0..3 /\ 3 \in 0..3
  BY DEF Fenced
<1>4. ASSUME NEW k \in {2, 3}
      PROVE  LET q == Ended(r, "expired", k)
             IN  /\ q \in WriterRow /\ q.state = "expired" /\ q.token = k
                 /\ q.lease = FALSE /\ q.live = FALSE /\ q.reserved = r.reserved
  BY <1>3 DEF Ended, WriterRow
<1> QED
  BY <1>1, <1>2, <1>4

LEMMA RenewedRow ==
  ASSUME NEW r \in WriterRow
  PROVE  /\ Renewed(r) \in WriterRow
         /\ Renewed(r).state = r.state /\ Renewed(r).token = r.token
         /\ Renewed(r).reserved = r.reserved /\ Renewed(r).live = r.live
BY DEF Renewed, WriterRow

LEMMA RenewedStateRow ==
  ASSUME NEW r \in WriterRow, NEW s \in Active
  PROVE  LET q == [Renewed(r) EXCEPT !.state = s]
         IN  /\ q \in WriterRow /\ q.state = s /\ q.token = r.token
             /\ q.reserved = r.reserved
BY DEF Renewed, WriterRow

LEMMA EnqueuedRow ==
  ASSUME NEW w \in Writers, job[w] \in JobRow, NEW k \in 0..MaxRequests
  PROVE  /\ Enqueued(w, k) \in JobRow
         /\ job[w].state = "none" => Enqueued(w, k).state = "pending"
         /\ job[w].state # "none" => Enqueued(w, k).state = job[w].state
BY DEF Enqueued, JobRow, NoJob

LEMMA AuthorizedRow ==
  ASSUME NEW w \in Writers, NEW r \in RequestRow, writer[w].token = 1
  PROVE  /\ Authorized(w, r) \in RequestRow
         /\ Authorized(w, r).kind = r.kind /\ Authorized(w, r).op = r.op
         /\ Authorized(w, r).receipt = r.receipt /\ Authorized(w, r).waiting = TRUE
<1>1. 1 \in 0..MaxIssues /\ 1 \in 0..1
  BY NfsAssumption
<1> QED
  BY <1>1 DEF Authorized, RequestRow

LEMMA AnsweredRow ==
  ASSUME NEW r \in RequestRow
  PROVE  /\ Answered(r) \in RequestRow
         /\ Answered(r).kind = r.kind /\ Answered(r).op = r.op
         /\ Answered(r).receipt = r.receipt /\ Answered(r).waiting = FALSE
         /\ Answered(r).fresh = FALSE
BY DEF Answered, RequestRow

LEMMA PlannedRow ==
  LET r == [NoRequest EXCEPT !.kind = "range", !.op = "planned"]
  IN  /\ r \in RequestRow /\ r.kind = "range" /\ r.op = "planned"
      /\ r.receipt = "none" /\ r.waiting = FALSE /\ r.fresh = FALSE
<1>1. 0 \in 0..MaxIssues /\ 0 \in 0..1
  BY NfsAssumption
<1> QED
  BY <1>1 DEF NoRequest, RequestRow, Kinds

LEMMA TerminalRow ==
  ASSUME NEW k \in Kinds
  PROVE  LET r == [NoRequest EXCEPT !.kind = k]
         IN  /\ r \in RequestRow /\ r.kind = k /\ r.op = "none" /\ r.receipt = "none"
<1>1. 0 \in 0..MaxIssues /\ 0 \in 0..1
  BY NfsAssumption
<1> QED
  BY <1>1 DEF NoRequest, RequestRow

LEMMA NextUnused ==
  ASSUME NEW w \in Writers, Unused(w) # {}
  PROVE  /\ Min(Unused(w)) \in Requests /\ req[w][Min(Unused(w))].kind = "none"
         /\ \A n \in Requests : n < Min(Unused(w)) => req[w][n].kind # "none"
BY MinIs, NfsAssumption DEF Unused, Requests

-----------------------------------------------------------------------------
(* Units: what a set of writers has reserved, when writer w has reserved f[w] *)

Blocks(D, f) == UNION {{w} \X (1..f[w]) : w \in D}

LEMMA BlockSize ==
  ASSUME NEW w, NEW k \in Nat
  PROVE  IsFiniteSet({w} \X (1..k)) /\ Cardinality({w} \X (1..k)) = k
<1>1. IsFiniteSet(1..k) /\ Cardinality(1..k) = k
  BY FS_Interval
<1>2. IsFiniteSet({w}) /\ Cardinality({w}) = 1
  BY FS_Singleton
<1>3. /\ IsFiniteSet({w} \X (1..k))
      /\ Cardinality({w} \X (1..k)) = Cardinality({w}) * Cardinality(1..k)
  BY <1>1, <1>2, FS_Product
<1> QED
  BY <1>1, <1>2, <1>3

LEMMA BlocksApart ==
  ASSUME NEW D, NEW f, NEW w, w \notin D
  PROVE  /\ Blocks(D \cup {w}, f) = Blocks(D, f) \cup ({w} \X (1..f[w]))
         /\ Blocks(D, f) \cap ({w} \X (1..f[w])) = {}
<1>1. Blocks(D \cup {w}, f) = Blocks(D, f) \cup ({w} \X (1..f[w]))
  BY DEF Blocks
<1>2. ASSUME NEW x \in Blocks(D, f), x \in {w} \X (1..f[w])
      PROVE  FALSE
  <2>1. PICK v \in D : x \in {v} \X (1..f[v])
    BY <1>2 DEF Blocks
  <2>2. x[1] = v /\ x[1] = w
    BY <1>2, <2>1
  <2> QED
    BY <2>2
<1> QED
  BY <1>1, <1>2

LEMMA BlocksAdd ==
  ASSUME NEW D, NEW f, NEW w, w \notin D, f[w] \in Nat, IsFiniteSet(Blocks(D, f))
  PROVE  /\ IsFiniteSet(Blocks(D \cup {w}, f))
         /\ Cardinality(Blocks(D \cup {w}, f)) = Cardinality(Blocks(D, f)) + f[w]
<1> DEFINE B == {w} \X (1..f[w])
<1>1. IsFiniteSet(B) /\ Cardinality(B) = f[w]
  BY BlockSize
<1>2. Blocks(D \cup {w}, f) = Blocks(D, f) \cup B /\ Blocks(D, f) \cap B = {}
  BY BlocksApart
<1> HIDE DEF B
<1>3. /\ IsFiniteSet(Blocks(D, f) \cup B)
      /\ Cardinality(Blocks(D, f) \cup B) =
           Cardinality(Blocks(D, f)) + Cardinality(B) - Cardinality(Blocks(D, f) \cap B)
  BY <1>1, FS_Union
<1>4. Cardinality(Blocks(D, f) \cap B) = 0
  BY <1>2, FS_EmptySet
<1>5. Cardinality(Blocks(D, f)) \in Nat
  BY FS_CardinalityType
<1> DEFINE U == Blocks(D, f) \cup B
<1>6. Cardinality(U) = Cardinality(Blocks(D, f)) + f[w]
  BY <1>1, <1>3, <1>4, <1>5
<1> QED
  BY <1>2, <1>3, <1>6

LEMMA BlocksDrop ==
  ASSUME NEW D, NEW f, NEW w \in D, f[w] \in Nat, IsFiniteSet(Blocks(D, f))
  PROVE  /\ IsFiniteSet(Blocks(D \ {w}, f))
         /\ Cardinality(Blocks(D, f)) = Cardinality(Blocks(D \ {w}, f)) + f[w]
         /\ Cardinality(Blocks(D \ {w}, f)) \in Nat
<1> DEFINE E == D \ {w}
<1>1. w \notin E /\ E \cup {w} = D
  OBVIOUS
<1>2. Blocks(E, f) \in SUBSET Blocks(D, f)
  BY DEF Blocks
<1>3. IsFiniteSet(Blocks(E, f))
  BY <1>2, FS_Subset
<1> HIDE DEF E
<1>4. Cardinality(Blocks(E \cup {w}, f)) = Cardinality(Blocks(E, f)) + f[w]
  BY <1>1, <1>3, BlocksAdd
<1> QED
  BY <1>1, <1>3, <1>4, FS_CardinalityType DEF E

LEMMA BlocksSame ==
  ASSUME NEW D, NEW f, NEW g, \A v \in D : f[v] = g[v]
  PROVE  Blocks(D, f) = Blocks(D, g)
BY DEF Blocks

Having(states) == {v \in Writers : payload[v].state \in states}
Reserved == [v \in Writers |-> writer[v].reserved]

LEMMA UnitsAre ==
  ASSUME NEW S
  PROVE  Units(S) = Blocks(Having(S), Reserved) /\ Units(S)' = Blocks(Having(S)', Reserved')
<1>1. Units(S) = Blocks(Having(S), Reserved)
  BY DEF Units, Blocks, Having, Reserved
<1>2. Units(S)' = Blocks(Having(S)', Reserved')
  BY DEF Units, Blocks, Having, Reserved
<1> QED
  BY <1>1, <1>2

Held == {"staging", "finalized"}
Kept == {"referenced"}

LEMMA QuotaIs ==
  /\ QuotaInv <=>
       /\ drive.reserved = Cardinality(Blocks(Having(Held), Reserved))
       /\ drive.used = Cardinality(Blocks(Having(Kept), Reserved))
       /\ drive.used + drive.reserved <= Quota
       /\ IsFiniteSet(Blocks(Having(Held), Reserved)) /\ IsFiniteSet(Blocks(Having(Kept), Reserved))
  /\ QuotaInv' <=>
       /\ drive'.reserved = Cardinality(Blocks(Having(Held)', Reserved'))
       /\ drive'.used = Cardinality(Blocks(Having(Kept)', Reserved'))
       /\ drive'.used + drive'.reserved <= Quota
       /\ IsFiniteSet(Blocks(Having(Held)', Reserved')) /\ IsFiniteSet(Blocks(Having(Kept)', Reserved'))
<1>1. /\ Units(Held) = Blocks(Having(Held), Reserved)
      /\ Units(Held)' = Blocks(Having(Held)', Reserved')
      /\ Units(Kept) = Blocks(Having(Kept), Reserved)
      /\ Units(Kept)' = Blocks(Having(Kept)', Reserved')
  BY UnitsAre
<1>2. QuotaInv <=> /\ drive.reserved = Cardinality(Units(Held))
                   /\ drive.used = Cardinality(Units(Kept))
                   /\ drive.used + drive.reserved <= Quota
                   /\ IsFiniteSet(Units(Held)) /\ IsFiniteSet(Units(Kept))
  BY DEF QuotaInv, QuotaExact, Held, Kept
<1>3. QuotaInv' <=> /\ drive'.reserved = Cardinality(Units(Held)')
                    /\ drive'.used = Cardinality(Units(Kept)')
                    /\ drive'.used + drive'.reserved <= Quota
                    /\ IsFiniteSet(Units(Held)') /\ IsFiniteSet(Units(Kept)')
  BY DEF QuotaInv, QuotaExact, Held, Kept
<1> QED
  BY <1>1, <1>2, <1>3

ReservedKept == \A v \in Writers : writer'[v].reserved = writer[v].reserved

LEMMA QuotaFrame ==
  ASSUME QuotaInv, drive' = drive, ReservedKept,
         \A v \in Writers : /\ payload'[v].state \in Held <=> payload[v].state \in Held
                            /\ payload'[v].state = "referenced" <=> payload[v].state = "referenced"
  PROVE  QuotaInv'
<1>1. Having(Held)' = Having(Held) /\ Having(Kept)' = Having(Kept)
  BY DEF Having, Held, Kept
<1>2. Reserved' = Reserved
  BY DEF Reserved, ReservedKept
<1> QED
  BY <1>1, <1>2, QuotaIs

\* The rows that quota arithmetic looks at.
QuotaTyped ==
  /\ drive \in [used: Nat, reserved: Nat]
  /\ \A v \in Writers : writer[v].reserved \in Nat

LEMMA QuotaRelease ==
  ASSUME QuotaInv, QuotaTyped, ReservedKept, NEW w \in Writers,
         payload[w].state \in Held, payload'[w].state \notin Held \cup Kept,
         \A v \in Writers \ {w} : payload'[v].state = payload[v].state,
         drive' = [drive EXCEPT !.reserved = @ - writer[w].reserved]
  PROVE  QuotaInv' /\ drive' \in [used: Nat, reserved: Nat]
<1>1. /\ Having(Held)' = Having(Held) \ {w} /\ w \in Having(Held)
      /\ Having(Kept)' = Having(Kept)
  BY DEF Having, Held, Kept
<1>2. Reserved' = Reserved /\ Reserved[w] = writer[w].reserved /\ Reserved[w] \in Nat
  BY DEF Reserved, ReservedKept, QuotaTyped
<1>3. /\ IsFiniteSet(Blocks(Having(Held) \ {w}, Reserved))
      /\ Cardinality(Blocks(Having(Held), Reserved))
           = Cardinality(Blocks(Having(Held) \ {w}, Reserved)) + Reserved[w]
      /\ Cardinality(Blocks(Having(Held) \ {w}, Reserved)) \in Nat
  BY <1>1, <1>2, QuotaIs, BlocksDrop
<1>4. /\ drive'.used = drive.used /\ drive'.reserved = drive.reserved - Reserved[w]
      /\ drive.used \in Nat /\ drive.reserved \in Nat
  BY <1>2 DEF QuotaTyped
<1>5. drive'.reserved = Cardinality(Blocks(Having(Held) \ {w}, Reserved)) /\ drive'.reserved \in Nat
  BY <1>2, <1>3, <1>4, QuotaIs
<1>6. drive' \in [used: Nat, reserved: Nat]
  BY <1>4, <1>5 DEF QuotaTyped
<1>7. drive'.used + drive'.reserved <= Quota
  BY <1>2, <1>4, <1>5, QuotaIs, NfsAssumption
<1> QED
  BY <1>1, <1>2, <1>3, <1>4, <1>5, <1>6, <1>7, QuotaIs

LEMMA QuotaPublish ==
  ASSUME QuotaInv, QuotaTyped, ReservedKept, NEW w \in Writers,
         payload[w].state \in Held, payload'[w].state = "referenced",
         \A v \in Writers \ {w} : payload'[v].state = payload[v].state,
         drive' = [used |-> drive.used + writer[w].reserved,
                   reserved |-> drive.reserved - writer[w].reserved]
  PROVE  QuotaInv' /\ drive' \in [used: Nat, reserved: Nat]
<1>1. /\ Having(Held)' = Having(Held) \ {w} /\ w \in Having(Held)
      /\ Having(Kept)' = Having(Kept) \cup {w} /\ w \notin Having(Kept)
  BY DEF Having, Held, Kept
<1>2. Reserved' = Reserved /\ Reserved[w] = writer[w].reserved /\ Reserved[w] \in Nat
  BY DEF Reserved, ReservedKept, QuotaTyped
<1>3. /\ IsFiniteSet(Blocks(Having(Held) \ {w}, Reserved))
      /\ Cardinality(Blocks(Having(Held), Reserved))
           = Cardinality(Blocks(Having(Held) \ {w}, Reserved)) + Reserved[w]
      /\ Cardinality(Blocks(Having(Held) \ {w}, Reserved)) \in Nat
  BY <1>1, <1>2, QuotaIs, BlocksDrop
<1>4. /\ IsFiniteSet(Blocks(Having(Kept) \cup {w}, Reserved))
      /\ Cardinality(Blocks(Having(Kept) \cup {w}, Reserved))
           = Cardinality(Blocks(Having(Kept), Reserved)) + Reserved[w]
  BY <1>1, <1>2, QuotaIs, BlocksAdd
<1>5. /\ drive'.used = drive.used + Reserved[w] /\ drive'.reserved = drive.reserved - Reserved[w]
      /\ drive.used \in Nat /\ drive.reserved \in Nat
  BY <1>2 DEF QuotaTyped
<1>6. /\ drive'.reserved = Cardinality(Blocks(Having(Held) \ {w}, Reserved)) /\ drive'.reserved \in Nat
      /\ drive'.used = Cardinality(Blocks(Having(Kept) \cup {w}, Reserved)) /\ drive'.used \in Nat
  BY <1>2, <1>3, <1>4, <1>5, QuotaIs
<1>7. drive' \in [used: Nat, reserved: Nat]
  BY <1>5, <1>6
<1>8. drive'.used + drive'.reserved <= Quota
  BY <1>2, <1>5, <1>6, QuotaIs, NfsAssumption
<1> QED
  BY <1>1, <1>2, <1>3, <1>4, <1>6, <1>7, <1>8, QuotaIs

LEMMA QuotaGrow ==
  ASSUME QuotaInv, QuotaTyped, NEW w \in Writers,
         payload[w].state = "staging" \/ (payload[w].state = "none" /\ writer[w].reserved = 0),
         payload'[w].state = "staging",
         \A v \in Writers \ {w} : payload'[v].state = payload[v].state,
         \A v \in Writers \ {w} : writer'[v].reserved = writer[v].reserved,
         writer'[w].reserved = writer[w].reserved + 1,
         drive.used + drive.reserved + 1 <= Quota,
         drive' = [drive EXCEPT !.reserved = @ + 1]
  PROVE  QuotaInv' /\ drive' \in [used: Nat, reserved: Nat]
<1> DEFINE D == Having(Held) \ {w}
<1>1. Having(Held)' = D \cup {w} /\ w \notin D /\ Having(Kept)' = Having(Kept) /\ w \notin Having(Kept)
  BY DEF Having, Held, Kept
<1>2. /\ \A v \in D : Reserved'[v] = Reserved[v]
      /\ \A v \in Having(Kept) : Reserved'[v] = Reserved[v]
      /\ Reserved[w] \in Nat /\ Reserved'[w] = Reserved[w] + 1
  BY <1>1 DEF Reserved, QuotaTyped, Having
<1>3. Blocks(D, Reserved) = Blocks(D, Reserved') /\ Blocks(Having(Kept), Reserved) = Blocks(Having(Kept), Reserved')
  BY <1>2, BlocksSame
<1>4. /\ IsFiniteSet(Blocks(D, Reserved))
      /\ Cardinality(Blocks(Having(Held), Reserved)) = Cardinality(Blocks(D, Reserved)) + Reserved[w]
      /\ Cardinality(Blocks(D, Reserved)) \in Nat
  <2>1. CASE w \in Having(Held)
    BY <2>1, <1>2, QuotaIs, BlocksDrop
  <2>2. CASE w \notin Having(Held)
    <3>1. D = Having(Held) /\ Reserved[w] = 0
      BY <2>2 DEF Having, Held, Reserved
    <3>2. IsFiniteSet(Blocks(Having(Held), Reserved)) /\ Cardinality(Blocks(Having(Held), Reserved)) \in Nat
      BY QuotaIs, FS_CardinalityType
    <3> QED
      BY <3>1, <3>2
  <2> QED
    BY <2>1, <2>2
<1> HIDE DEF D
<1>5. /\ IsFiniteSet(Blocks(D \cup {w}, Reserved'))
      /\ Cardinality(Blocks(D \cup {w}, Reserved')) = Cardinality(Blocks(D, Reserved')) + Reserved'[w]
  <2>1. Reserved'[w] \in Nat /\ IsFiniteSet(Blocks(D, Reserved'))
    BY <1>2, <1>3, <1>4
  <2> DEFINE g == Reserved'
  <2>2. g[w] \in Nat /\ IsFiniteSet(Blocks(D, g)) /\ w \notin D
    BY <2>1, <1>1
  <2> HIDE DEF g
  <2>3. /\ IsFiniteSet(Blocks(D \cup {w}, g))
        /\ Cardinality(Blocks(D \cup {w}, g)) = Cardinality(Blocks(D, g)) + g[w]
    BY <2>2, BlocksAdd
  <2> QED
    BY <2>3 DEF g
<1>6. /\ drive'.used = drive.used /\ drive'.reserved = drive.reserved + 1
      /\ drive.used \in Nat /\ drive.reserved \in Nat
  BY DEF QuotaTyped
<1>7. drive'.reserved = Cardinality(Blocks(D \cup {w}, Reserved'))
  BY <1>2, <1>3, <1>4, <1>5, <1>6, QuotaIs
<1>8. drive'.used + drive'.reserved <= Quota
  BY <1>6, NfsAssumption
<1>9. drive' \in [used: Nat, reserved: Nat]
  BY <1>6 DEF QuotaTyped
<1> QED
  BY <1>1, <1>3, <1>5, <1>6, <1>7, <1>8, <1>9, QuotaIs

-----------------------------------------------------------------------------
(* What a step leaves alone *)

WriterInv(w) == RowInv(w) /\ RequestInv(w) /\ BytesInv(w)

\* A job is there or not, and its bytes are deleted or not.
JobKept(w) ==
  /\ job'[w].state = "none" <=> job[w].state = "none"
  /\ job'[w].state \in {"physical_deleted", "completed"} <=> job[w].state \in {"physical_deleted", "completed"}

RowKept(w) ==
  /\ writer'[w].state = writer[w].state /\ writer'[w].token = writer[w].token
  /\ writer'[w].reserved = writer[w].reserved
  /\ writer'[w].lease => writer[w].state \in Active
  /\ payload'[w] = payload[w] /\ conflict'[w] = conflict[w] /\ JobKept(w)

DiskKept(w) == cow'[w] = cow[w] /\ object'[w] = object[w]

\* The rows of the requests, apart from capabilities and answers.
OpsKept(w) ==
  \A n \in Requests : /\ req'[w][n].kind = req[w][n].kind /\ req'[w][n].op = req[w][n].op
                      /\ req'[w][n].receipt = req[w][n].receipt

\* What the bytes depend on.
StagesKept(w) ==
  \A n \in Requests :
    /\ req'[w][n].kind = "range" /\ req'[w][n].op = "applied"
         <=> req[w][n].kind = "range" /\ req[w][n].op = "applied"
    /\ req'[w][n].op = "executing" <=> req[w][n].op = "executing"
    /\ req'[w][n].op = "io_completed" <=> req[w][n].op = "io_completed"

WaitingKept(w) == \A n \in Requests : req'[w][n].waiting = req[w][n].waiting

\* Requests are answered at most, no pending one is, and an answered one has no capability.
NoneNewWaiting(w) ==
  \A n \in Requests : /\ req'[w][n].waiting => req[w][n].waiting
                      /\ req'[w][n].fresh => req'[w][n].waiting
                      /\ req[w][n].receipt = "pending" /\ req[w][n].waiting => req'[w][n].waiting

DeletionKept(w) == payload'[w].state = "deleted" <=> payload[w].state = "deleted"

LEMMA RowFrame ==
  ASSUME NEW w \in Writers, RowInv(w), RowKept(w), writer[w].state = "none" => DiskKept(w)
  PROVE  RowInv(w)'
BY DEF RowInv, RowKept, JobKept, DiskKept, Active

LEMMA RangesFrame ==
  ASSUME NEW w \in Writers, OpsKept(w)
  PROVE  RangesApplied(w)' <=> RangesApplied(w)
BY DEF RangesApplied, OpsKept

LEMMA AppliedFrame ==
  ASSUME NEW w \in Writers, StagesKept(w)
  PROVE  LastApplied(w)' = LastApplied(w)
<1>1. {n \in Requests : req'[w][n].kind = "range" /\ req'[w][n].op = "applied"}
        = {n \in Requests : req[w][n].kind = "range" /\ req[w][n].op = "applied"}
  BY DEF StagesKept
<1> QED
  BY <1>1 DEF LastApplied

LEMMA RequestFrame ==
  ASSUME NEW w \in Writers, RequestInv(w), OpsKept(w), NoneNewWaiting(w), DeletionKept(w),
         \/ writer'[w].state = writer[w].state /\ (writer[w].state = "committing" => WaitingKept(w))
         \/ writer'[w].state \in {"aborting", "aborted", "expired"}
         \/ writer[w].state = "committing" /\ writer'[w].state \in {"committed", "conflicted"}
  PROVE  RequestInv(w)'
<1>1. RangesApplied(w)' <=> RangesApplied(w)
  BY RangesFrame
<1> QED
  BY <1>1 DEF RequestInv, OpsKept, NoneNewWaiting, WaitingKept, DeletionKept, Alive

LEMMA BytesFrame ==
  ASSUME NEW w \in Writers, BytesInv(w), StagesKept(w), DiskKept(w),
         payload'[w].digest = payload[w].digest,
         writer'[w].state = "open" => writer[w].state = "open",
         writer'[w].state \in Alive => writer[w].state \in Alive,
         writer'[w].state \in {"committing", "committed", "conflicted"} =>
           writer[w].state \in {"committing", "committed", "conflicted"},
         job'[w].state \in {"physical_deleted", "completed"} =>
           job[w].state \in {"physical_deleted", "completed"}
  PROVE  BytesInv(w)'
<1>1. LastApplied(w)' = LastApplied(w)
  BY AppliedFrame
<1>2. Bytes(w)' = Bytes(w)
  BY DEF Bytes, DiskKept
<1> QED
  BY <1>1, <1>2 DEF BytesInv, StagesKept, DiskKept

Apart(w) ==
  \A v \in Writers \ {w} :
    /\ writer'[v] = writer[v] /\ payload'[v] = payload[v] /\ req'[v] = req[v]
    /\ job'[v] = job[v] /\ conflict'[v] = conflict[v]
    /\ cow'[v] = cow[v] /\ object'[v] = object[v]

\* A step that changes one writer preserves the invariant of the others.
LEMMA WritersStep ==
  ASSUME NEW w \in Writers, \A v \in Writers : WriterInv(v), Apart(w), WriterInv(w)'
  PROVE  \A v \in Writers : WriterInv(v)'
<1> SUFFICES ASSUME NEW v \in Writers \ {w} PROVE WriterInv(v)'
  OBVIOUS
<1>1. /\ RowKept(v) /\ DiskKept(v) /\ OpsKept(v) /\ WaitingKept(v) /\ NoneNewWaiting(v)
      /\ DeletionKept(v)
  BY DEF Apart, WriterInv, RowInv, RequestInv, RowKept, JobKept, DiskKept, OpsKept, WaitingKept,
         NoneNewWaiting, DeletionKept
<1>2. RowInv(v)'
  BY <1>1, RowFrame DEF WriterInv
<1>3. RequestInv(v)'
  BY <1>1, RequestFrame DEF WriterInv, RowKept, JobKept
<1>4. BytesInv(v)'
  BY <1>1, BytesFrame DEF WriterInv, RowKept, JobKept, OpsKept, StagesKept
<1> QED
  BY <1>2, <1>3, <1>4 DEF WriterInv

KindsKept ==
  \A v \in Writers, n \in Requests : req[v][n].kind # "none" => req'[v][n].kind = req[v][n].kind
LocksKept(u) == \A v \in Writers : lock[v] = u => lock'[v] = u
PendingKept(v) ==
  /\ payload'[v].state = "deleted" => payload[v].state = "deleted"
  /\ \A n \in Requests : req[v][n].receipt = "pending" => req'[v][n].receipt = "pending"

LEMMA TaskFrame ==
  ASSUME NEW u \in Tasks, TaskInv(u), task'[u] = task[u], KindsKept, LocksKept(u),
         task[u].step \in {"io", "done"} => PendingKept(Of(u)),
         task[u].step \in {"done", "deleted"} => DiskKept(Of(u))
  PROVE  TaskInv(u)'
<1>1. CASE task[u].step = "idle"
  BY <1>1 DEF TaskInv
<1>2. CASE task[u].step # "idle"
  <2>1. Of(u) \in Writers /\ Of(u)' = Of(u) /\ task'[u].step = task[u].step /\ task'[u].n = task[u].n
    BY <1>2 DEF TaskInv, Of
  <2>2. task[u].step \in RequestSteps => task[u].n \in Requests /\ Req(u).kind # "none" /\ Req(u)'.kind = Req(u).kind
    BY <1>2, <2>1 DEF TaskInv, Req, Of, KindsKept
  <2>3. task[u].step \in LockedSteps => lock'[Of(u)] = u
    BY <1>2, <2>1 DEF TaskInv, LocksKept
  <2>4. task[u].step \in {"io", "done"} => Req(u)'.receipt = "pending" /\ payload'[Of(u)].state # "deleted"
    BY <1>2, <2>1, <2>2 DEF TaskInv, PendingKept, Req, Of, RequestSteps
  <2> QED
    BY <1>2, <2>1, <2>2, <2>3, <2>4 DEF TaskInv, DiskKept, RequestSteps
<1> QED
  BY <1>1, <1>2

\* Another task is not disturbed by one that holds the lock, nor by a step that leaves
\* the disk and the pending receipts alone.
LEMMA OthersFrame ==
  ASSUME NEW t \in Tasks, NEW u \in Tasks \ {t}, TaskInv(t), TaskInv(u), task'[u] = task[u],
         task[t].step \in LockedSteps, KindsKept, LocksKept(u),
         \A v \in Writers \ {Of(t)} : PendingKept(v) /\ DiskKept(v)
  PROVE  TaskInv(u)'
<1>1. lock[Of(t)] = t
  BY DEF TaskInv, LockedSteps
<1>2. task[u].step \in LockedSteps => Of(u) # Of(t) /\ Of(u) \in Writers
  BY <1>1 DEF TaskInv, LockedSteps
<1> QED
  BY <1>2, TaskFrame DEF LockedSteps

-----------------------------------------------------------------------------
(* The session as its user sees it *)

ViewKept(w) == Phase'[w] = Phase[w] /\ Acked'[w] = Acked[w] /\ Visible'[w] = Visible[w]

\* One step of a session.
Viewed(w) ==
  \/ ViewKept(w)
  \/ Phase[w] = "none" /\ Phase'[w] = "staged" /\ Acked'[w] = Acked[w] /\ Visible'[w] = Visible[w]
  \/ /\ Phase[w] = "staged" /\ Phase'[w] = "staged" /\ Visible'[w] = Visible[w]
     /\ Acked'[w] \in Content /\ Acked'[w] > Acked[w]
  \/ /\ Phase[w] \in {"staged", "retained"} /\ Phase'[w] = "published"
     /\ Acked'[w] = Acked[w] /\ Visible'[w] = Acked[w]
  \/ Phase[w] = "staged" /\ Phase'[w] = "retained" /\ Acked'[w] = Acked[w] /\ Visible'[w] = Visible[w]
  \/ /\ Phase[w] \in {"staged", "retained"} /\ Phase'[w] = "discarded"
     /\ Acked'[w] = Acked[w] /\ Visible'[w] = Visible[w]

Maps == \E w \in Writers : Viewed(w) /\ \A v \in Writers \ {w} : ViewKept(v)

LEMMA PhaseIs ==
  ASSUME NEW w \in Writers
  PROVE  /\ writer[w].state = "none" => Phase[w] = "none"
         /\ writer[w].state \in Alive => Phase[w] = "staged"
         /\ writer[w].state \notin Alive \cup {"none"} =>
              Phase[w] = IF payload[w].state = "referenced" THEN "published"
                         ELSE IF conflict[w] = "retained" THEN "retained" ELSE "discarded"
         /\ Acked[w] = LastApplied(w)
         /\ Visible[w] = IF payload[w].state = "referenced" THEN object[w] ELSE Absent
<1>1. Acked[w] = LastApplied(w)
  BY DEF Acked
<1>2. Visible[w] = IF payload[w].state = "referenced" THEN object[w] ELSE Absent
  BY DEF Visible
<1>3. CASE writer[w].state = "none"
  BY <1>1, <1>2, <1>3 DEF Phase, Alive
<1>4. CASE writer[w].state \in Alive
  BY <1>1, <1>2, <1>4 DEF Phase, Alive
<1>5. CASE writer[w].state \notin Alive \cup {"none"}
  BY <1>1, <1>2, <1>5 DEF Phase, Alive
<1> QED
  BY <1>3, <1>4, <1>5

LEMMA PhaseIsNext ==
  ASSUME NEW w \in Writers
  PROVE  /\ writer'[w].state = "none" => Phase'[w] = "none"
         /\ writer'[w].state \in Alive => Phase'[w] = "staged"
         /\ writer'[w].state \notin Alive \cup {"none"} =>
              Phase'[w] = IF payload'[w].state = "referenced" THEN "published"
                          ELSE IF conflict'[w] = "retained" THEN "retained" ELSE "discarded"
         /\ Acked'[w] = LastApplied(w)'
         /\ Visible'[w] = IF payload'[w].state = "referenced" THEN object'[w] ELSE Absent
<1>1. Acked'[w] = LastApplied(w)'
  BY DEF Acked
<1>2. Visible'[w] = IF payload'[w].state = "referenced" THEN object'[w] ELSE Absent
  BY DEF Visible
<1>3. CASE writer'[w].state = "none"
  BY <1>1, <1>2, <1>3 DEF Phase, Alive
<1>4. CASE writer'[w].state \in Alive
  BY <1>1, <1>2, <1>4 DEF Phase, Alive
<1>5. CASE writer'[w].state \notin Alive \cup {"none"}
  BY <1>1, <1>2, <1>5 DEF Phase, Alive
<1> QED
  BY <1>3, <1>4, <1>5

LEMMA SameView ==
  ASSUME NEW w \in Writers,
         \/ writer'[w].state = writer[w].state
         \/ writer'[w].state \in Alive /\ writer[w].state \in Alive
         \/ writer'[w].state \notin Alive \cup {"none"} /\ writer[w].state \notin Alive \cup {"none"},
         payload'[w].state = "referenced" <=> payload[w].state = "referenced",
         conflict'[w] = conflict[w], payload[w].state = "referenced" => object'[w] = object[w],
         LastApplied(w)' = LastApplied(w)
  PROVE  ViewKept(w)
BY PhaseIs, PhaseIsNext DEF ViewKept

\* An active writer is given up, or one that was given up already stays so.
LEMMA GivenUp ==
  ASSUME NEW w \in Writers, RowInv(w), writer[w].state \in Active,
         writer'[w].state \in {"aborting", "aborted", "expired"},
         payload'[w].state # "referenced", conflict'[w] = conflict[w], LastApplied(w)' = LastApplied(w)
  PROVE  Viewed(w)
<1>1. payload[w].state # "referenced" /\ conflict[w] # "retained"
  BY DEF RowInv, Active
<1>2. Visible'[w] = Visible[w] /\ Acked'[w] = Acked[w] /\ Phase'[w] = "discarded"
  BY <1>1, PhaseIs, PhaseIsNext DEF Alive
<1>3. Phase[w] \in {"staged", "discarded"}
  BY <1>1, PhaseIs DEF Alive, Active
<1> QED
  BY <1>2, <1>3 DEF Viewed, ViewKept

LEMMA OthersViewed ==
  ASSUME NEW w \in Writers, Apart(w)
  PROVE  \A v \in Writers \ {w} : ViewKept(v)
<1> SUFFICES ASSUME NEW v \in Writers \ {w} PROVE ViewKept(v)
  OBVIOUS
<1>1. StagesKept(v)
  BY DEF Apart, StagesKept
<1>2. LastApplied(v)' = LastApplied(v)
  BY <1>1, AppliedFrame
<1> QED
  BY <1>2, SameView DEF Apart

LEMMA KeptView ==
  ASSUME NEW w \in Writers, RowKept(w), StagesKept(w), payload[w].state = "referenced" => DiskKept(w)
  PROVE  Viewed(w)
<1>1. LastApplied(w)' = LastApplied(w)
  BY AppliedFrame
<1> QED
  BY <1>1, SameView DEF RowKept, DiskKept, Viewed

-----------------------------------------------------------------------------
(* Steps by what they change *)

DriveTyped == drive \in [used: Nat, reserved: Nat]

LEMMA Unpacked ==
  ASSUME IndInv
  PROVE  /\ Typed /\ DriveTyped /\ QuotaTyped /\ QuotaInv
         /\ \A v \in Writers : WriterInv(v)
         /\ \A u \in Tasks : TaskInv(u)
<1>1. Typed /\ DriveTyped
  BY TypedIs DEF IndInv, DriveTyped
<1>2. QuotaTyped
  BY <1>1 DEF QuotaTyped, Typed, DriveTyped, WriterRow
<1> QED
  BY <1>1, <1>2 DEF IndInv, WriterInv

LEMMA Packed ==
  ASSUME Typed', DriveTyped', QuotaInv', \A v \in Writers : WriterInv(v)', \A u \in Tasks : TaskInv(u)'
  PROVE  IndInv'
<1>1. TypeOK'
  BY DEF TypeOK, Typed, DriveTyped
<1> QED
  BY <1>1 DEF IndInv, WriterInv

LEMMA RowTypes ==
  ASSUME Typed, NEW w \in Writers
  PROVE  /\ writer[w] \in WriterRow /\ payload[w] \in PayloadRow /\ job[w] \in JobRow
         /\ req[w] \in [Requests -> RequestRow]
         /\ cow[w] \in Content \cup {Absent} /\ object[w] \in Content \cup {Absent}
         /\ writer[w].token \in 0..3 /\ writer[w].reserved \in Nat /\ writer[w].base \in Nat
BY DEF Typed, WriterRow

\* A transaction on the rows of one writer.
LEMMA RowsStep ==
  ASSUME IndInv, NEW w \in Writers, UNCHANGED <<cow, object, lock, task>>,
         Typed', DriveTyped', QuotaInv', Apart(w), KindsKept, PendingKept(w), WriterInv(w)', Viewed(w)
  PROVE  IndInv' /\ Maps
<1>1. \A v \in Writers : WriterInv(v)'
  BY Unpacked, WritersStep
<1>2. ASSUME NEW u \in Tasks PROVE TaskInv(u)'
  <2>1. TaskInv(u) /\ task'[u] = task[u] /\ LocksKept(u)
    BY Unpacked DEF LocksKept
  <2>2. task[u].step \in {"io", "done"} => PendingKept(Of(u))
    BY <2>1 DEF TaskInv, Apart, PendingKept
  <2>3. DiskKept(Of(u))
    BY DEF DiskKept
  <2> QED
    BY <2>1, <2>2, <2>3, TaskFrame
<1>v. Maps
  BY OthersViewed DEF Maps
<1> QED
  BY <1>1, <1>2, <1>v, Packed

\* A step of a task that leaves the disk and what others wait for alone.
LEMMA TaskStep ==
  ASSUME IndInv, NEW t \in Tasks, NEW w \in Writers, UNCHANGED <<cow, object>>,
         \A u \in Tasks \ {t} : task'[u] = task[u] /\ LocksKept(u),
         Typed', DriveTyped', QuotaInv', Apart(w), KindsKept,
         PendingKept(w) \/ payload[w].state = "deleted", WriterInv(w)', TaskInv(t)', Viewed(w)
  PROVE  IndInv' /\ Maps
<1>1. \A v \in Writers : WriterInv(v)'
  BY Unpacked, WritersStep
<1>2. ASSUME NEW u \in Tasks \ {t} PROVE TaskInv(u)'
  <2>1. TaskInv(u) /\ task'[u] = task[u] /\ LocksKept(u)
    BY Unpacked
  <2>2. task[u].step \in {"io", "done"} => PendingKept(Of(u))
    BY <2>1 DEF TaskInv, Apart, PendingKept
  <2>3. DiskKept(Of(u))
    BY DEF DiskKept
  <2> QED
    BY <2>1, <2>2, <2>3, TaskFrame
<1>v. Maps
  BY OthersViewed DEF Maps
<1> QED
  BY <1>1, <1>2, <1>v, Packed

\* A step of the task that holds the lock of its writer.
LEMMA LockedStep ==
  ASSUME IndInv, NEW t \in Tasks, NEW w \in Writers, w = Of(t), task[t].step \in LockedSteps,
         \A u \in Tasks \ {t} : task'[u] = task[u] /\ LocksKept(u),
         Typed', DriveTyped', QuotaInv', Apart(w), KindsKept, WriterInv(w)', TaskInv(t)', Viewed(w)
  PROVE  IndInv' /\ Maps
<1>1. \A v \in Writers : WriterInv(v)'
  BY Unpacked, WritersStep
<1>2. \A v \in Writers \ {w} : PendingKept(v) /\ DiskKept(v)
  BY DEF Apart, PendingKept, DiskKept
<1>3. ASSUME NEW u \in Tasks \ {t} PROVE TaskInv(u)'
  BY <1>2, Unpacked, OthersFrame
<1>v. Maps
  BY OthersViewed DEF Maps
<1> QED
  BY <1>1, <1>3, <1>v, Packed

\* A step that changes no row and no bytes.
LEMMA RowsSame ==
  ASSUME IndInv, UNCHANGED <<rows, cow, object>>, NEW w \in Writers
  PROVE  /\ Apart(w) /\ KindsKept /\ PendingKept(w) /\ WriterInv(w)' /\ DriveTyped' /\ QuotaInv' /\ Viewed(w)
<1>1. Apart(w) /\ KindsKept /\ PendingKept(w)
  BY DEF rows, Apart, KindsKept, PendingKept
<1>2. DriveTyped'
  BY Unpacked DEF rows, DriveTyped
<1>3. QuotaInv'
  BY Unpacked, QuotaFrame DEF rows, ReservedKept
<1>4. WriterInv(w)
  BY Unpacked
<1>5. /\ RowKept(w) /\ DiskKept(w) /\ OpsKept(w) /\ WaitingKept(w) /\ NoneNewWaiting(w)
      /\ DeletionKept(w)
  BY <1>4 DEF rows, WriterInv, RowInv, RequestInv, RowKept, JobKept, DiskKept, OpsKept, WaitingKept,
         NoneNewWaiting, DeletionKept
<1>6. RowInv(w)'
  BY <1>4, <1>5, RowFrame DEF WriterInv
<1>7. RequestInv(w)'
  BY <1>4, <1>5, RequestFrame DEF WriterInv, RowKept, JobKept
<1>8. BytesInv(w)'
  BY <1>4, <1>5, BytesFrame DEF WriterInv, RowKept, JobKept, OpsKept, StagesKept
<1>9. Viewed(w)
  BY <1>5, KeptView DEF OpsKept, StagesKept
<1> QED
  BY <1>1, <1>2, <1>3, <1>6, <1>7, <1>8, <1>9 DEF WriterInv

LEMMA EndsTask ==
  ASSUME Typed, NEW t \in Tasks, Ends(t)
  PROVE  /\ task' \in [Tasks -> Task] /\ lock' \in [Writers -> Tasks \cup {NoTask}]
         /\ TaskInv(t)' /\ \A u \in Tasks \ {t} : task'[u] = task[u] /\ LocksKept(u)
<1>1. Idle \in Task
  BY NfsAssumption DEF Idle, Task
<1>2. task' \in [Tasks -> Task] /\ lock' \in [Writers -> Tasks \cup {NoTask}]
  BY <1>1 DEF Ends, Typed
<1>3. \A u \in Tasks \ {t} : task'[u] = task[u] /\ LocksKept(u)
  BY DEF Ends, Typed, LocksKept
<1>4. task'[t].step = "idle"
  BY DEF Ends, Typed, Idle
<1> QED
  BY <1>2, <1>3, <1>4 DEF TaskInv

Steps == {"idle", "begin", "lock", "rebegin", "io", "done", "claim", "wait", "locked", "deleted", "marked"}

LEMMA GoesTask ==
  ASSUME Typed, NEW t \in Tasks, NEW s \in Steps, Goes(t, s)
  PROVE  /\ task' \in [Tasks -> Task] /\ \A u \in Tasks \ {t} : task'[u] = task[u]
         /\ task'[t].step = s /\ task'[t].w = task[t].w /\ task'[t].n = task[t].n
         /\ task'[t].seen = task[t].seen /\ Of(t)' = Of(t)
<1>1. task[t] \in Task
  BY DEF Typed
<1>2. [task[t] EXCEPT !.step = s] \in Task
  BY <1>1 DEF Task, Steps
<1>3. task' = [task EXCEPT ![t] = [task[t] EXCEPT !.step = s]]
  BY DEF Goes, Typed
<1>4. task' \in [Tasks -> Task] /\ task'[t] = [task[t] EXCEPT !.step = s]
  BY <1>2, <1>3 DEF Typed
<1>5. \A u \in Tasks \ {t} : task'[u] = task[u]
  BY <1>3 DEF Typed
<1> QED
  BY <1>1, <1>4, <1>5 DEF Task, Of

LEMMA SawTask ==
  ASSUME Typed, NEW t \in Tasks, NEW c \in Content, Saw(t, c)
  PROVE  /\ task' \in [Tasks -> Task] /\ \A u \in Tasks \ {t} : task'[u] = task[u]
         /\ task'[t].step = "done" /\ task'[t].w = task[t].w /\ task'[t].n = task[t].n
         /\ task'[t].seen = c /\ Of(t)' = Of(t)
<1>1. task[t] \in Task
  BY DEF Typed
<1>2. [task[t] EXCEPT !.step = "done", !.seen = c] \in Task
  BY <1>1 DEF Task
<1>3. task' = [task EXCEPT ![t] = [task[t] EXCEPT !.step = "done", !.seen = c]]
  BY DEF Saw, Typed
<1>4. task' \in [Tasks -> Task] /\ task'[t] = [task[t] EXCEPT !.step = "done", !.seen = c]
  BY <1>2, <1>3 DEF Typed
<1>5. \A u \in Tasks \ {t} : task'[u] = task[u]
  BY <1>3 DEF Typed
<1> QED
  BY <1>1, <1>4, <1>5 DEF Task, Of

-----------------------------------------------------------------------------
(* The gateway's requests *)

LEMMA ReqUpdate ==
  ASSUME Typed, NEW w \in Writers, NEW n \in Requests, NEW x \in RequestRow,
         req' = [req EXCEPT ![w][n] = x]
  PROVE  /\ req' \in [Writers -> [Requests -> RequestRow]]
         /\ req'[w][n] = x /\ \A m \in Requests \ {n} : req'[w][m] = req[w][m]
         /\ \A v \in Writers \ {w} : req'[v] = req[v]
BY DEF Typed

\* A transaction that changes nothing but a request.
LEMMA RequestStep ==
  ASSUME IndInv, NEW w \in Writers,
         UNCHANGED <<writer, handle, payload, manifest, job, conflict, drive, head, disk, task, faults>>,
         req' \in [Writers -> [Requests -> RequestRow]],
         \A v \in Writers \ {w} : req'[v] = req[v],
         KindsKept, PendingKept(w), StagesKept(w), RequestInv(w)'
  PROVE  IndInv' /\ Maps
<1>1. Typed /\ DriveTyped /\ QuotaInv /\ WriterInv(w)
  BY Unpacked
<1>2. Typed' /\ DriveTyped' /\ UNCHANGED <<cow, object, lock, task>>
  BY <1>1 DEF Typed, DriveTyped, disk
<1>3. QuotaInv'
  BY <1>1, QuotaFrame DEF ReservedKept
<1>4. RowKept(w) /\ DiskKept(w) /\ Apart(w)
  BY <1>1, <1>2 DEF RowKept, JobKept, DiskKept, Apart, WriterInv, RowInv
<1>5. RowInv(w)'
  BY <1>1, <1>4, RowFrame DEF WriterInv
<1>6. BytesInv(w)'
  BY <1>1, <1>4, BytesFrame DEF WriterInv
<1>7. Viewed(w)
  BY <1>4, KeptView
<1> QED
  BY <1>2, <1>3, <1>4, <1>5, <1>6, <1>7, RowsStep DEF WriterInv

\* One request changes, and not in its kind or stage.
LEMMA ReqFrames ==
  ASSUME NEW w \in Writers, NEW n \in Requests, payload' = payload,
         \A m \in Requests \ {n} : req'[w][m] = req[w][m],
         \A v \in Writers \ {w} : req'[v] = req[v],
         req'[w][n].kind = req[w][n].kind, req'[w][n].op = req[w][n].op,
         req'[w][n].receipt = req[w][n].receipt
  PROVE  OpsKept(w) /\ DeletionKept(w) /\ KindsKept /\ PendingKept(w) /\ StagesKept(w)
<1>1. OpsKept(w) /\ DeletionKept(w) /\ StagesKept(w)
  BY DEF OpsKept, DeletionKept, StagesKept
<1>2. KindsKept
  BY DEF KindsKept
<1>3. PendingKept(w)
  BY DEF PendingKept
<1> QED
  BY <1>1, <1>2, <1>3

LEMMA CapabilityExpiresStep ==
  ASSUME IndInv, NEW w \in Writers, NEW n \in Requests, CapabilityExpires(w, n)
  PROVE  IndInv' /\ Maps
<1> DEFINE x == [req[w][n] EXCEPT !.fresh = FALSE]
<1>1. Typed /\ WriterInv(w) /\ req[w][n] \in RequestRow
  BY Unpacked, RowTypes
<1>2. /\ x \in RequestRow /\ x.kind = req[w][n].kind /\ x.op = req[w][n].op
      /\ x.receipt = req[w][n].receipt /\ x.waiting = req[w][n].waiting /\ x.fresh = FALSE
  BY <1>1 DEF RequestRow
<1>3. req' = [req EXCEPT ![w][n] = x]
  BY <1>1 DEF CapabilityExpires, Typed
<1> HIDE DEF x
<1>4. /\ req' \in [Writers -> [Requests -> RequestRow]]
      /\ req'[w][n] = x /\ \A m \in Requests \ {n} : req'[w][m] = req[w][m]
      /\ \A v \in Writers \ {w} : req'[v] = req[v]
  BY <1>1, <1>2, <1>3, ReqUpdate
<1>5. UNCHANGED <<writer, handle, payload, manifest, job, conflict, drive, head, disk, task, faults>>
  BY DEF CapabilityExpires
<1>6. OpsKept(w) /\ DeletionKept(w) /\ KindsKept /\ PendingKept(w) /\ StagesKept(w)
  BY <1>1, <1>2, <1>4, <1>5, ReqFrames
<1>6a. WaitingKept(w) /\ NoneNewWaiting(w)
  <2>1. \A m \in Requests : req[w][m].fresh => req[w][m].waiting
    BY <1>1 DEF WriterInv, RequestInv
  <2> QED
    BY <1>1, <1>2, <1>4, <1>5, <2>1 DEF WaitingKept, NoneNewWaiting
<1>7. RequestInv(w)'
  BY <1>1, <1>5, <1>6, <1>6a, RequestFrame DEF WriterInv
<1> QED
  BY <1>4, <1>5, <1>6, <1>7, RequestStep

LEMMA ReissueStep ==
  ASSUME IndInv, NEW w \in Writers, NEW n \in Requests, Reissue(w, n)
  PROVE  IndInv' /\ Maps
<1> DEFINE x == [req[w][n] EXCEPT !.issue = @ + 1, !.fresh = TRUE]
<1>1. Typed /\ WriterInv(w) /\ req[w][n] \in RequestRow /\ req[w][n].waiting
  BY Unpacked, RowTypes DEF Reissue
<1>2. req[w][n].issue \in 0..MaxIssues /\ req[w][n].issue < MaxIssues /\ req[w][n].issue + 1 \in 0..MaxIssues
  BY <1>1, NfsAssumption DEF Reissue, RequestRow
<1>3. /\ x \in RequestRow /\ x.kind = req[w][n].kind /\ x.op = req[w][n].op
      /\ x.receipt = req[w][n].receipt /\ x.waiting = req[w][n].waiting
  BY <1>1, <1>2 DEF RequestRow
<1>4. req' = [req EXCEPT ![w][n] = x]
  BY <1>1 DEF Reissue, Typed
<1> HIDE DEF x
<1>5. /\ req' \in [Writers -> [Requests -> RequestRow]]
      /\ req'[w][n] = x /\ \A m \in Requests \ {n} : req'[w][m] = req[w][m]
      /\ \A v \in Writers \ {w} : req'[v] = req[v]
  BY <1>1, <1>3, <1>4, ReqUpdate
<1>6. UNCHANGED <<writer, handle, payload, manifest, job, conflict, drive, head, disk, task, faults>>
  BY DEF Reissue
<1>7. OpsKept(w) /\ DeletionKept(w) /\ KindsKept /\ PendingKept(w) /\ StagesKept(w)
  BY <1>1, <1>3, <1>5, <1>6, ReqFrames
<1>7a. WaitingKept(w) /\ NoneNewWaiting(w)
  <2>1. \A m \in Requests : req[w][m].fresh => req[w][m].waiting
    BY <1>1 DEF WriterInv, RequestInv
  <2> QED
    BY <1>1, <1>3, <1>5, <1>6, <2>1 DEF WaitingKept, NoneNewWaiting
<1>8. RequestInv(w)'
  BY <1>1, <1>6, <1>7, <1>7a, RequestFrame DEF WriterInv
<1> QED
  BY <1>5, <1>6, <1>7, <1>8, RequestStep

LEMMA FlushReplyStep ==
  ASSUME IndInv, NEW w \in Writers, NEW n \in Requests, FlushReply(w, n)
  PROVE  IndInv' /\ Maps
<1> DEFINE x == Answered(req[w][n])
<1>1. Typed /\ WriterInv(w) /\ req[w][n] \in RequestRow /\ writer[w].state \in {"open", "flushing"}
  BY Unpacked, RowTypes DEF FlushReply, Admits
<1>2. /\ x \in RequestRow /\ x.kind = req[w][n].kind /\ x.op = req[w][n].op
      /\ x.receipt = req[w][n].receipt /\ x.waiting = FALSE /\ x.fresh = FALSE
  BY <1>1, AnsweredRow
<1>3. req' = [req EXCEPT ![w][n] = x]
  BY <1>1 DEF FlushReply, Typed
<1> HIDE DEF x
<1>4. /\ req' \in [Writers -> [Requests -> RequestRow]]
      /\ req'[w][n] = x /\ \A m \in Requests \ {n} : req'[w][m] = req[w][m]
      /\ \A v \in Writers \ {w} : req'[v] = req[v]
  BY <1>1, <1>2, <1>3, ReqUpdate
<1>5. UNCHANGED <<writer, handle, payload, manifest, job, conflict, drive, head, disk, task, faults>>
  BY DEF FlushReply
<1>6. OpsKept(w) /\ DeletionKept(w) /\ KindsKept /\ PendingKept(w) /\ StagesKept(w)
  BY <1>1, <1>2, <1>4, <1>5, ReqFrames
<1>6a. NoneNewWaiting(w)
  <2>1. \A m \in Requests : req[w][m].fresh => req[w][m].waiting
    BY <1>1 DEF WriterInv, RequestInv
  <2> QED
    BY <1>1, <1>2, <1>4, <2>1 DEF NoneNewWaiting, FlushReply
<1>7. RequestInv(w)'
  BY <1>1, <1>5, <1>6, <1>6a, RequestFrame DEF WriterInv
<1> QED
  BY <1>4, <1>5, <1>6, <1>7, RequestStep

LEMMA PreauthorizeRangeStep ==
  ASSUME IndInv, NEW w \in Writers, NEW n \in Requests, PreauthorizeRange(w, n)
  PROVE  IndInv' /\ Maps
<1> DEFINE x == Authorized(w, req[w][n])
<1>1. /\ Typed /\ WriterInv(w) /\ req[w][n] \in RequestRow /\ writer[w].state = "open"
      /\ \A m \in Requests : ~req[w][m].waiting
      /\ req[w][n].op = "planned" /\ writer[w].token = 1
  BY Unpacked, RowTypes DEF PreauthorizeRange, FenceLive, Admits, NothingUnfinished, WriterInv, RowInv, Active
<1>2. /\ x \in RequestRow /\ x.kind = req[w][n].kind /\ x.op = req[w][n].op
      /\ x.receipt = req[w][n].receipt /\ x.waiting = TRUE
  BY <1>1, AuthorizedRow
<1>3. req' = [req EXCEPT ![w][n] = x]
  BY <1>1 DEF PreauthorizeRange, Typed
<1> HIDE DEF x
<1>4. /\ req' \in [Writers -> [Requests -> RequestRow]]
      /\ req'[w][n] = x /\ \A m \in Requests \ {n} : req'[w][m] = req[w][m]
      /\ \A v \in Writers \ {w} : req'[v] = req[v]
  BY <1>1, <1>2, <1>3, ReqUpdate
<1>5. UNCHANGED <<writer, handle, payload, manifest, job, conflict, drive, head, disk, task, faults>>
  BY DEF PreauthorizeRange
<1>6. OpsKept(w) /\ KindsKept /\ PendingKept(w) /\ StagesKept(w)
  BY <1>1, <1>2, <1>4, <1>5, ReqFrames
<1>7. RequestInv(w)'
  <2>1. RangesApplied(w)' <=> RangesApplied(w)
    BY <1>6, RangesFrame
  <2>2. req[w][n].kind # "none"
    BY <1>1 DEF WriterInv, RequestInv
  <2> QED
    BY <1>1, <1>2, <1>4, <1>5, <1>6, <2>1, <2>2 DEF WriterInv, RequestInv, OpsKept, Alive
<1> QED
  BY <1>4, <1>5, <1>6, <1>7, RequestStep

LEMMA PreauthorizeTerminalStep ==
  ASSUME IndInv, NEW w \in Writers, NEW k \in Kinds, PreauthorizeTerminal(w, k)
  PROVE  IndInv' /\ Maps
<1> DEFINE n == Min(Unused(w))
           y == [NoRequest EXCEPT !.kind = k]
           x == Authorized(w, y)
<1>1. /\ Typed /\ WriterInv(w) /\ k # "range" /\ k # "none" /\ RangesApplied(w) /\ Unused(w) # {}
      /\ \A m \in Requests : ~req[w][m].waiting
      /\ writer[w].state \in Active /\ writer[w].token = 1
  BY Unpacked DEF PreauthorizeTerminal, FenceLive, NothingUnfinished, WriterInv, RowInv, Kinds
<1>2. /\ n \in Requests /\ req[w][n].kind = "none"
      /\ \A m \in Requests : m < n => req[w][m].kind # "none"
  BY <1>1, NextUnused
<1>3. /\ y \in RequestRow /\ y.kind = k /\ y.op = "none" /\ y.receipt = "none"
  BY TerminalRow
<1> HIDE DEF n, y
<1>4. /\ x \in RequestRow /\ x.kind = k /\ x.op = "none" /\ x.receipt = "none" /\ x.waiting = TRUE
  BY <1>1, <1>3, AuthorizedRow
<1>5. req' = [req EXCEPT ![w][n] = x]
  BY DEF PreauthorizeTerminal, n, y
<1> HIDE DEF x
<1>6. /\ req' \in [Writers -> [Requests -> RequestRow]]
      /\ req'[w][n] = x /\ \A m \in Requests \ {n} : req'[w][m] = req[w][m]
      /\ \A v \in Writers \ {w} : req'[v] = req[v]
  BY <1>1, <1>2, <1>4, <1>5, ReqUpdate
<1>7. UNCHANGED <<writer, handle, payload, manifest, job, conflict, drive, head, disk, task, faults>>
  BY DEF PreauthorizeTerminal
<1>8. /\ req[w][n].op = "none" /\ req[w][n].receipt = "none"
      /\ writer[w].state # "none" /\ writer[w].state # "committing"
  BY <1>1, <1>2 DEF WriterInv, RequestInv, Active
<1>9. KindsKept
  BY <1>2, <1>6 DEF KindsKept
<1>10. PendingKept(w) /\ StagesKept(w)
  BY <1>4, <1>6, <1>7, <1>8 DEF PendingKept, StagesKept
<1>11. RequestInv(w)'
  <2>1. RangesApplied(w)'
    BY <1>1, <1>4, <1>6 DEF RangesApplied
  <2>2. \A m \in Requests : n < m => req[w][m].kind = "none"
    BY <1>1, <1>2 DEF WriterInv, RequestInv
  <2>3. \A m \in Requests : req[w][m].kind = "range" => req[w][m].op = "applied"
    BY <1>1 DEF RangesApplied
  <2>4. RequestInv(w)
    BY <1>1 DEF WriterInv
  <2>5. \A m \in Requests :
         LET r == req'[w][m] IN
          /\ r.kind = "none" => r.receipt = "none" /\ ~r.waiting
          /\ r.kind # "range" => r.op = "none"
          /\ r.fresh => r.waiting
          /\ r.receipt = "pending" => r.waiting
          /\ r.kind = "range" /\ payload'[w].state # "deleted" => <<r.receipt, r.op>> \in RangeStages
          /\ r.receipt = "pending" => writer'[w].state \notin {"committing", "committed", "conflicted"}
          /\ r.receipt # "none" /\ r.kind = "abort" => writer'[w].state \notin Alive
          /\ r.receipt = "pending" /\ r.kind = "finalize" => writer'[w].state # "open"
          /\ r.receipt = "cleanup" => payload'[w].state = "deleted"
    BY <2>4, <1>1, <1>4, <1>6, <1>7 DEF RequestInv
  <2>6. \A l, m \in Requests :
          LET r == req'[w] IN
          /\ l < m /\ r[m].kind # "none" => r[l].kind # "none"
          /\ l < m /\ r[l].kind = "range" /\ r[l].op # "applied" => r[m].kind = "none"
          /\ r[l].receipt = "pending" /\ r[m].receipt = "pending" => l = m
          /\ r[l].waiting /\ r[m].waiting => l = m
    BY <2>2, <2>3, <2>4, <1>1, <1>2, <1>4, <1>6 DEF RequestInv
  <2> QED
    BY <2>1, <2>5, <2>6, <1>7, <1>8 DEF RequestInv
<1> QED
  BY <1>6, <1>7, <1>9, <1>10, <1>11, RequestStep

-----------------------------------------------------------------------------
(* Time, the head of the node, and fences *)

LEMMA WriterUpdate ==
  ASSUME Typed, NEW w \in Writers, NEW x \in WriterRow, writer' = [writer EXCEPT ![w] = x]
  PROVE  /\ writer' \in [Writers -> WriterRow] /\ writer'[w] = x
         /\ \A v \in Writers \ {w} : writer'[v] = writer[v]
BY DEF Typed

\* A step on the times of one writer, handles and the head.
LEMMA QuietStep ==
  ASSUME IndInv, NEW w \in Writers, Typed',
         UNCHANGED <<payload, req, job, conflict, drive, cow, object, lock, task>>,
         RowKept(w), \A v \in Writers \ {w} : writer'[v] = writer[v]
  PROVE  IndInv' /\ Maps
<1>1. DriveTyped /\ QuotaInv /\ WriterInv(w)
  BY Unpacked
<1>2. DriveTyped'
  BY <1>1 DEF DriveTyped
<1>3. QuotaInv'
  <2>1. ReservedKept
    BY DEF ReservedKept, RowKept, JobKept
  <2> QED
    BY <1>1, <2>1, QuotaFrame
<1>4. Apart(w) /\ KindsKept /\ PendingKept(w)
  BY DEF Apart, KindsKept, PendingKept
<1>5. /\ DiskKept(w) /\ OpsKept(w) /\ WaitingKept(w) /\ DeletionKept(w) /\ StagesKept(w)
      /\ NoneNewWaiting(w)
  BY <1>1 DEF DiskKept, OpsKept, WaitingKept, DeletionKept, StagesKept, NoneNewWaiting, WriterInv, RequestInv
<1>6. RowInv(w)'
  BY <1>1, <1>5, RowFrame DEF WriterInv
<1>7. RequestInv(w)'
  BY <1>1, <1>5, RequestFrame DEF WriterInv, RowKept, JobKept
<1>8. BytesInv(w)'
  BY <1>1, <1>5, BytesFrame DEF WriterInv, RowKept, JobKept
<1>9. Viewed(w)
  BY <1>5, KeptView
<1> QED
  BY <1>2, <1>3, <1>4, <1>6, <1>7, <1>8, <1>9, RowsStep DEF WriterInv

LEMMA LeaseLapsesStep ==
  ASSUME IndInv, NEW w \in Writers, LeaseLapses(w)
  PROVE  IndInv' /\ Maps
<1> DEFINE x == [writer[w] EXCEPT !.lease = FALSE]
<1>1. Typed /\ writer[w] \in WriterRow
  BY Unpacked, RowTypes
<1>2. /\ x \in WriterRow /\ x.state = writer[w].state /\ x.token = writer[w].token
      /\ x.reserved = writer[w].reserved /\ x.lease = FALSE
  BY <1>1 DEF WriterRow
<1>3. writer' = [writer EXCEPT ![w] = x]
  BY <1>1 DEF LeaseLapses, Typed
<1> HIDE DEF x
<1>4. /\ writer' \in [Writers -> WriterRow] /\ writer'[w] = x
      /\ \A v \in Writers \ {w} : writer'[v] = writer[v]
  BY <1>1, <1>2, <1>3, WriterUpdate
<1>5. UNCHANGED <<handle, payload, manifest, req, job, conflict, drive, head, cow, object, lock, task, faults>>
  BY DEF LeaseLapses, disk
<1>6. Typed'
  BY <1>1, <1>4, <1>5 DEF Typed
<1>7. RowKept(w)
  BY <1>2, <1>4, <1>5 DEF RowKept, JobKept
<1> QED
  BY <1>4, <1>5, <1>6, <1>7, QuietStep

LEMMA ExpiresStep ==
  ASSUME IndInv, NEW w \in Writers, Expires(w)
  PROVE  IndInv' /\ Maps
<1> DEFINE x == [writer[w] EXCEPT !.lease = FALSE, !.live = FALSE]
<1>1. Typed /\ writer[w] \in WriterRow
  BY Unpacked, RowTypes
<1>2. /\ x \in WriterRow /\ x.state = writer[w].state /\ x.token = writer[w].token
      /\ x.reserved = writer[w].reserved /\ x.lease = FALSE
  BY <1>1 DEF WriterRow
<1>3. writer' = [writer EXCEPT ![w] = x]
  BY <1>1 DEF Expires, Typed
<1> HIDE DEF x
<1>4. /\ writer' \in [Writers -> WriterRow] /\ writer'[w] = x
      /\ \A v \in Writers \ {w} : writer'[v] = writer[v]
  BY <1>1, <1>2, <1>3, WriterUpdate
<1>5. UNCHANGED <<handle, payload, manifest, req, job, conflict, drive, head, cow, object, lock, task, faults>>
  BY DEF Expires, disk
<1>6. Typed'
  BY <1>1, <1>4, <1>5 DEF Typed
<1>7. RowKept(w)
  BY <1>2, <1>4, <1>5 DEF RowKept, JobKept
<1> QED
  BY <1>4, <1>5, <1>6, <1>7, QuietStep

LEMMA AuthorityChangesStep ==
  ASSUME IndInv, NEW w \in Writers, AuthorityChanges(w)
  PROVE  IndInv' /\ Maps
<1>1. Typed /\ WriterInv(w)
  BY Unpacked
<1>2. UNCHANGED <<writer, payload, manifest, req, job, conflict, drive, head, cow, object, lock, task, faults>>
  BY DEF AuthorityChanges, disk
<1>3. Typed'
  BY <1>1, <1>2 DEF Typed, AuthorityChanges
<1>4. RowKept(w)
  BY <1>1, <1>2 DEF RowKept, JobKept, WriterInv, RowInv
<1> QED
  BY <1>2, <1>3, <1>4, QuietStep

LEMMA HeadMovesStep ==
  ASSUME IndInv, HeadMoves
  PROVE  IndInv' /\ Maps
<1>1. PICK w \in Writers : writer[w].state = "committing"
  BY DEF HeadMoves
<1>2. Typed /\ WriterInv(w)
  BY Unpacked
<1>3. UNCHANGED <<writer, handle, payload, manifest, req, job, conflict, drive, cow, object, lock, task, faults>>
  BY DEF HeadMoves, disk
<1>4. Typed'
  BY <1>2, <1>3 DEF Typed, HeadMoves
<1>5. RowKept(w)
  BY <1>2, <1>3 DEF RowKept, JobKept, WriterInv, RowInv
<1> QED
  BY <1>3, <1>4, <1>5, QuietStep

\* An active writer is fenced, and its bytes are handed to a cleanup job.
LEMMA FencedInv ==
  ASSUME NEW w \in Writers, WriterInv(w), writer[w].state \in Active,
         \/ writer'[w].state = "aborting" /\ writer'[w].token = writer[w].token
         \/ /\ writer'[w].state = "expired" /\ writer'[w].token = 2
            /\ writer'[w].lease = FALSE,
         job[w].state = "none" => job'[w].state = "pending",
         job[w].state # "none" => job'[w].state = job[w].state,
         payload'[w] = payload[w], conflict'[w] = conflict[w], req'[w] = req[w], DiskKept(w)
  PROVE  WriterInv(w)'
<1>1. OpsKept(w) /\ DeletionKept(w) /\ StagesKept(w) /\ NoneNewWaiting(w)
  BY DEF OpsKept, DeletionKept, StagesKept, NoneNewWaiting, WriterInv, RequestInv
<1>2. RowInv(w)'
  BY DEF WriterInv, RowInv, Active, Alive, DiskKept
<1>3. RequestInv(w)'
  BY <1>1, RequestFrame DEF WriterInv
<1>4. BytesInv(w)'
  BY <1>1, BytesFrame DEF WriterInv, Alive
<1> QED
  BY <1>2, <1>3, <1>4 DEF WriterInv

LEMMA PendingNonceIs ==
  ASSUME NEW w \in Writers
  PROVE  PendingNonce(w) \in 0..MaxRequests
<1>1. Pending(w) # {} => Min(Pending(w)) \in Pending(w)
  BY MinIs, NfsAssumption DEF Pending, Requests
<1> QED
  BY <1>1, NfsAssumption DEF PendingNonce, Pending, Requests

LEMMA ExpireWriterStep ==
  ASSUME IndInv, NEW w \in Writers, ExpireWriter(w),
         handle' \in [Writers -> {"open", "stale", "closed"}],
         UNCHANGED <<payload, manifest, req, conflict, drive, head, cow, object, lock, task, faults>>
  PROVE  IndInv' /\ Maps
<1> DEFINE x == Ended(writer[w], "expired", 2)
           y == Enqueued(w, PendingNonce(w))
<1>1. /\ Typed /\ DriveTyped /\ QuotaInv /\ WriterInv(w) /\ writer[w] \in WriterRow /\ job[w] \in JobRow
      /\ writer[w].state \in Active /\ writer[w].token = 1
  BY Unpacked, RowTypes DEF ExpireWriter, WriterInv, RowInv
<1>2. /\ x \in WriterRow /\ x.state = "expired" /\ x.token = 2 /\ x.lease = FALSE
      /\ x.reserved = writer[w].reserved
  BY <1>1, ExpiredRow
<1>3. /\ y \in JobRow
      /\ job[w].state = "none" => y.state = "pending"
      /\ job[w].state # "none" => y.state = job[w].state
  BY <1>1, PendingNonceIs, EnqueuedRow
<1>4. writer' = [writer EXCEPT ![w] = x] /\ job' = [job EXCEPT ![w] = y]
  BY <1>1, ExpiredRow DEF ExpireWriter, Typed
<1> HIDE DEF x, y
<1>5. /\ writer' \in [Writers -> WriterRow] /\ writer'[w] = x
      /\ \A v \in Writers \ {w} : writer'[v] = writer[v]
  BY <1>1, <1>2, <1>4, WriterUpdate
<1>6. /\ job' \in [Writers -> JobRow] /\ job'[w] = y
      /\ \A v \in Writers \ {w} : job'[v] = job[v]
  BY <1>1, <1>3, <1>4 DEF Typed
<1>7. Typed' /\ DriveTyped'
  BY <1>1, <1>5, <1>6 DEF Typed, DriveTyped
<1>8. QuotaInv'
  <2>1. ReservedKept
    BY <1>2, <1>5 DEF ReservedKept
  <2> QED
    BY <1>1, <2>1, QuotaFrame
<1>9. Apart(w) /\ KindsKept /\ PendingKept(w)
  BY <1>5, <1>6 DEF Apart, KindsKept, PendingKept
<1>10. WriterInv(w)'
  BY <1>1, <1>2, <1>3, <1>5, <1>6, FencedInv DEF DiskKept
<1>11. Viewed(w)
  <2>1. LastApplied(w)' = LastApplied(w)
    BY AppliedFrame DEF StagesKept
  <2>2. payload[w].state # "referenced"
    BY <1>1 DEF WriterInv, RowInv, Active
  <2> QED
    BY <1>1, <1>2, <1>5, <2>1, <2>2, GivenUp DEF WriterInv
<1> QED
  BY <1>7, <1>8, <1>9, <1>10, <1>11, RowsStep

LEMMA CloseHandleStep ==
  ASSUME IndInv, NEW w \in Writers, CloseHandle(w)
  PROVE  IndInv' /\ Maps
<1>1. handle' \in [Writers -> {"open", "stale", "closed"}]
  BY Unpacked DEF Typed, CloseHandle
<1> QED
  BY <1>1, ExpireWriterStep DEF CloseHandle, disk

LEMMA SweepWriterStep ==
  ASSUME IndInv, NEW w \in Writers, SweepWriter(w)
  PROVE  IndInv' /\ Maps
<1>1. handle' \in [Writers -> {"open", "stale", "closed"}]
  BY Unpacked DEF Typed, SweepWriter
<1> QED
  BY <1>1, ExpireWriterStep DEF SweepWriter, disk

LEMMA DropConflictStep ==
  ASSUME IndInv, NEW w \in Writers, NEW as \in {"discarded", "expired"}, DropConflict(w, as)
  PROVE  IndInv' /\ Maps
<1> DEFINE x == Ended(writer[w], "expired", 3)
           y == Enqueued(w, 0)
           z == [payload[w] EXCEPT !.state = "abandoned"]
<1>1. /\ Typed /\ DriveTyped /\ QuotaTyped /\ QuotaInv /\ WriterInv(w)
      /\ writer[w] \in WriterRow /\ job[w] \in JobRow /\ payload[w] \in PayloadRow
      /\ writer[w].state = "conflicted" /\ writer[w].token = 2 /\ payload[w].state = "finalized"
      /\ job[w].state = "none"
  BY Unpacked, RowTypes DEF DropConflict, WriterInv, RowInv
<1>2. /\ x \in WriterRow /\ x.state = "expired" /\ x.token = 3 /\ x.lease = FALSE
      /\ x.reserved = writer[w].reserved
  BY <1>1, ExpiredRow
<1>3. y \in JobRow /\ y.state = "pending"
  BY <1>1, EnqueuedRow, NfsAssumption
<1>4. z \in PayloadRow /\ z.state = "abandoned" /\ z.digest = payload[w].digest
  BY <1>1 DEF PayloadRow
<1>5. /\ writer' = [writer EXCEPT ![w] = x] /\ job' = [job EXCEPT ![w] = y]
      /\ payload' = [payload EXCEPT ![w] = z] /\ conflict' = [conflict EXCEPT ![w] = as]
      /\ drive' = [drive EXCEPT !.reserved = @ - writer[w].reserved]
      /\ UNCHANGED <<handle, manifest, req, head, cow, object, lock, task, faults>>
  BY <1>1, ExpiredRow DEF DropConflict, Typed, disk
<1> HIDE DEF x, y, z
<1>6. /\ writer' \in [Writers -> WriterRow] /\ writer'[w] = x
      /\ \A v \in Writers \ {w} : writer'[v] = writer[v]
  BY <1>1, <1>2, <1>5, WriterUpdate
<1>7. /\ job' \in [Writers -> JobRow] /\ job'[w] = y
      /\ \A v \in Writers \ {w} : job'[v] = job[v]
  BY <1>1, <1>3, <1>5 DEF Typed
<1>8. /\ payload' \in [Writers -> PayloadRow] /\ payload'[w] = z
      /\ \A v \in Writers \ {w} : payload'[v] = payload[v]
  BY <1>1, <1>4, <1>5 DEF Typed
<1>9. /\ conflict' \in [Writers -> {"none", "retained", "copied", "discarded", "expired"}]
      /\ conflict'[w] = as /\ \A v \in Writers \ {w} : conflict'[v] = conflict[v]
  BY <1>1, <1>5 DEF Typed
<1>10. Typed'
  BY <1>1, <1>5, <1>6, <1>7, <1>8, <1>9 DEF Typed
<1>11. QuotaInv' /\ DriveTyped'
  <2>1. ReservedKept
    BY <1>2, <1>6 DEF ReservedKept
  <2> QED
    BY <1>1, <1>4, <1>5, <1>8, <2>1, QuotaRelease DEF Held, Kept, DriveTyped
<1>12. Apart(w) /\ KindsKept /\ PendingKept(w) /\ DiskKept(w)
  BY <1>4, <1>5, <1>6, <1>7, <1>8, <1>9 DEF Apart, KindsKept, PendingKept, DiskKept
<1>13. WriterInv(w)'
  <2>1. OpsKept(w) /\ DeletionKept(w) /\ StagesKept(w) /\ NoneNewWaiting(w)
    BY <1>1, <1>4, <1>5, <1>8 DEF OpsKept, DeletionKept, StagesKept, NoneNewWaiting, WriterInv, RequestInv
  <2>2. RowInv(w)'
    BY <1>2, <1>3, <1>4, <1>6, <1>7, <1>8, <1>9 DEF RowInv, Active, Alive
  <2>3. RequestInv(w)'
    BY <1>1, <1>2, <1>6, <2>1, RequestFrame DEF WriterInv
  <2>4. BytesInv(w)'
    BY <1>1, <1>2, <1>3, <1>4, <1>6, <1>7, <1>8, <1>12, <2>1, BytesFrame DEF WriterInv, Alive
  <2> QED
    BY <2>2, <2>3, <2>4 DEF WriterInv
<1>14. Viewed(w)
  <2>1. conflict[w] = "retained" /\ as # "retained"
    BY DEF DropConflict
  <2>2. StagesKept(w)
    BY <1>5 DEF StagesKept
  <2>3. LastApplied(w)' = LastApplied(w)
    BY <2>2, AppliedFrame
  <2>4. Phase[w] = "retained" /\ Acked[w] = LastApplied(w) /\ Visible[w] = Absent
    BY <1>1, <2>1, PhaseIs DEF Alive
  <2>5. Phase'[w] = "discarded" /\ Acked'[w] = LastApplied(w)' /\ Visible'[w] = Absent
    BY <1>2, <1>4, <1>6, <1>8, <1>9, <2>1, PhaseIsNext DEF Alive
  <2> QED
    BY <2>3, <2>4, <2>5 DEF Viewed
<1> QED
  BY <1>5, <1>10, <1>11, <1>12, <1>13, <1>14, RowsStep

-----------------------------------------------------------------------------
(* Tasks and locks *)

\* A task that ends without changing a row or the bytes.
LEMMA EndsStep ==
  ASSUME IndInv, NEW t \in Tasks, task[t].step # "idle", Ends(t),
         UNCHANGED <<rows, cow, object>>, faults' \in 0..MaxFaults
  PROVE  IndInv' /\ Maps
<1>1. Typed /\ TaskInv(t) /\ Of(t) \in Writers
  BY Unpacked DEF TaskInv
<1>2. /\ task' \in [Tasks -> Task] /\ lock' \in [Writers -> Tasks \cup {NoTask}]
      /\ TaskInv(t)' /\ \A u \in Tasks \ {t} : task'[u] = task[u] /\ LocksKept(u)
  BY <1>1, EndsTask
<1>3. Typed'
  BY <1>1, <1>2 DEF Typed, rows
<1>4. PICK w \in Writers : w = Of(t)
  BY <1>1
<1>5. /\ Apart(w) /\ KindsKept /\ PendingKept(w) /\ WriterInv(w)' /\ DriveTyped' /\ QuotaInv'
      /\ Viewed(w)
  BY RowsSame
<1> QED
  BY <1>2, <1>3, <1>5, TaskStep

LEMMA RefusalsStep ==
  ASSUME IndInv, NEW t \in Tasks,
         BeginEnds(t) \/ CompletionRefused(t) \/ ClaimRefused(t) \/ CleanupRefused(t)
  PROVE  IndInv' /\ Maps
<1>1. task[t].step # "idle" /\ Ends(t) /\ UNCHANGED <<rows, cow, object, faults>>
  BY DEF BeginEnds, CompletionRefused, ClaimRefused, CleanupRefused, AtBegin, Admissions
<1>2. faults' \in 0..MaxFaults
  BY <1>1, Unpacked DEF Typed
<1> QED
  BY <1>1, <1>2, EndsStep

LEMMA CrashStep ==
  ASSUME IndInv, NEW t \in Tasks, Crash(t)
  PROVE  IndInv' /\ Maps
<1>1. faults' \in 0..MaxFaults
  BY Unpacked, NfsAssumption DEF Typed, Crash
<1> QED
  BY <1>1, EndsStep DEF Crash

LEMMA ArriveStep ==
  ASSUME IndInv, NEW t \in IoTasks, NEW w \in Writers, NEW n \in Requests, Arrive(t, w, n)
  PROVE  IndInv' /\ Maps
<1> DEFINE x == [Idle EXCEPT !.step = "begin", !.w = w, !.n = n, !.issue = req[w][n].issue]
<1>1. /\ Typed /\ WriterInv(w) /\ req[w][n] \in RequestRow /\ t \in Tasks
      /\ req[w][n].waiting /\ req[w][n].kind # "none"
  <2>1. Typed /\ WriterInv(w) /\ req[w][n] \in RequestRow
    BY Unpacked, RowTypes
  <2>2. t \in Tasks
    BY DEF Tasks
  <2> QED
    BY <2>1, <2>2 DEF Arrive, WriterInv, RequestInv
<1>2. /\ req[w][n].issue \in 0..MaxIssues /\ n \in 0..MaxRequests /\ 0 \in Nat
  BY <1>1 DEF RequestRow, Requests
<1>3. x \in Task /\ x.step = "begin" /\ x.w = w /\ x.n = n
  BY <1>2 DEF Idle, Task
<1>4. task' = [task EXCEPT ![t] = x] /\ UNCHANGED <<rows, cow, object, lock, faults>>
  BY DEF Arrive, disk
<1> HIDE DEF x
<1>5. task' \in [Tasks -> Task] /\ task'[t] = x /\ \A u \in Tasks \ {t} : task'[u] = task[u] /\ LocksKept(u)
  BY <1>1, <1>3, <1>4 DEF Typed, LocksKept
<1>6. Typed'
  BY <1>1, <1>4, <1>5 DEF Typed, rows
<1>7. TaskInv(t)'
  <2>1. Of(t)' = w /\ Req(t)' = req[w][n] /\ task'[t].step = "begin" /\ task'[t].n = n
    BY <1>3, <1>4, <1>5 DEF Of, Req, rows
  <2> QED
    BY <1>1, <2>1 DEF TaskInv, RequestSteps, LockedSteps
<1>8. /\ Apart(w) /\ KindsKept /\ PendingKept(w) /\ WriterInv(w)' /\ DriveTyped' /\ QuotaInv'
      /\ Viewed(w)
  BY <1>4, RowsSame
<1> QED
  BY <1>1, <1>4, <1>5, <1>6, <1>7, <1>8, TaskStep

LEMMA AcquireLockStep ==
  ASSUME IndInv, NEW t \in Tasks, AcquireLock(t)
  PROVE  IndInv' /\ Maps
<1> DEFINE s == IF task[t].step = "wait" THEN "locked" ELSE "rebegin"
<1>1. Typed /\ TaskInv(t) /\ Of(t) \in Writers /\ task[t].step \in {"lock", "wait"}
  BY Unpacked DEF TaskInv, AcquireLock
<1>2. PICK w \in Writers : w = Of(t)
  BY <1>1
<1>3. lock[w] = NoTask /\ lock' = [lock EXCEPT ![w] = t] /\ UNCHANGED <<rows, cow, object, faults>>
  BY <1>2 DEF AcquireLock
<1>4. Goes(t, s) /\ s \in Steps /\ s \in {"locked", "rebegin"}
  BY <1>1 DEF AcquireLock, Admissions, Steps
<1>5. /\ task' \in [Tasks -> Task] /\ \A u \in Tasks \ {t} : task'[u] = task[u]
      /\ task'[t].step = s /\ task'[t].n = task[t].n /\ Of(t)' = Of(t)
  BY <1>1, <1>4, GoesTask
<1>6. /\ lock' \in [Writers -> Tasks \cup {NoTask}] /\ lock'[w] = t
      /\ \A u \in Tasks \ {t} : LocksKept(u)
  BY <1>1, <1>3, NfsAssumption DEF Typed, LocksKept, Tasks
<1>7. Typed'
  BY <1>1, <1>3, <1>5, <1>6 DEF Typed, rows
<1>8. TaskInv(t)'
  <2>1. req' = req
    BY <1>3 DEF rows
  <2>2. Req(t)' = Req(t)
    BY <2>1, <1>5 DEF Req
  <2> QED
    BY <1>1, <1>2, <1>4, <1>5, <1>6, <2>2 DEF TaskInv, RequestSteps, LockedSteps
<1>9. /\ Apart(w) /\ KindsKept /\ PendingKept(w) /\ WriterInv(w)' /\ DriveTyped' /\ QuotaInv'
      /\ Viewed(w)
  BY <1>3, RowsSame
<1> QED
  BY <1>1, <1>3, <1>5, <1>6, <1>7, <1>8, <1>9, TaskStep

-----------------------------------------------------------------------------
(* Bytes, under the lock *)

LEMMA DiskStep ==
  ASSUME IndInv, NEW t \in Tasks, NEW w \in Writers, w = Of(t), task[t].step \in LockedSteps,
         UNCHANGED <<rows, faults>>, writer[w].state \notin {"none", "committed", "conflicted"},
         cow' \in [Writers -> Content \cup {Absent}], object' \in [Writers -> Content \cup {Absent}],
         \A v \in Writers \ {w} : DiskKept(v),
         lock' \in [Writers -> Tasks \cup {NoTask}], task' \in [Tasks -> Task],
         \A u \in Tasks \ {t} : task'[u] = task[u] /\ LocksKept(u),
         TaskInv(t)', BytesInv(w)'
  PROVE  IndInv' /\ Maps
<1>1. Typed /\ DriveTyped /\ QuotaInv /\ WriterInv(w)
  BY Unpacked
<1>2. Typed' /\ DriveTyped'
  BY <1>1 DEF Typed, DriveTyped, rows
<1>3. QuotaInv'
  BY <1>1, QuotaFrame DEF rows, ReservedKept
<1>4. Apart(w) /\ KindsKept
  BY DEF Apart, DiskKept, KindsKept, rows
<1>5. RowKept(w) /\ OpsKept(w) /\ WaitingKept(w) /\ NoneNewWaiting(w) /\ DeletionKept(w)
  BY <1>1 DEF rows, WriterInv, RowInv, RequestInv, RowKept, JobKept, OpsKept, WaitingKept,
         NoneNewWaiting, DeletionKept
<1>6. RowInv(w)'
  BY <1>1, <1>5, RowFrame DEF WriterInv
<1>7. RequestInv(w)'
  BY <1>1, <1>5, RequestFrame DEF WriterInv, RowKept, JobKept
<1>8. Viewed(w)
  <2>1. payload[w].state # "referenced"
    BY <1>1, RowTypes DEF WriterInv, RowInv, WriterRow, Active, Fenced
  <2> QED
    BY <1>5, <2>1, KeptView DEF OpsKept, StagesKept
<1> QED
  BY <1>2, <1>3, <1>4, <1>6, <1>7, <1>8, LockedStep DEF WriterInv

\* What a task knows when it is about to change the bytes for a request.
LEMMA AtIo ==
  ASSUME IndInv, NEW t \in Tasks, NEW w \in Writers, w = Of(t), task[t].step \in {"io", "done"}
  PROVE  /\ task[t].n \in Requests /\ Req(t) = req[w][task[t].n] /\ Req(t).receipt = "pending"
         /\ Req(t).kind # "none" /\ lock[w] = t
         /\ payload[w].state # "deleted" /\ job[w].state \notin {"physical_deleted", "completed"}
         /\ writer[w].state \notin {"none", "committing", "committed", "conflicted"}
         /\ \A v \in Writers, u \in Tasks \ {t} : lock[v] = u => lock[v] # t
<1>1. TaskInv(t) /\ WriterInv(w)
  BY Unpacked
<1>2. /\ task[t].n \in Requests /\ Req(t) = req[w][task[t].n] /\ Req(t).receipt = "pending"
      /\ Req(t).kind # "none" /\ payload[w].state # "deleted" /\ lock[w] = t
  BY <1>1 DEF TaskInv, RequestSteps, LockedSteps, Req
<1>3. writer[w].state \notin {"none", "committing", "committed", "conflicted"}
  <2>1. PICK n \in Requests : req[w][n].receipt = "pending" /\ req[w][n].kind # "none"
    BY <1>2
  <2> QED
    BY <1>1, <2>1 DEF WriterInv, RequestInv
<1>4. job[w].state \notin {"physical_deleted", "completed"}
  BY <1>1, <1>2 DEF WriterInv, RowInv
<1> QED
  BY <1>2, <1>3, <1>4

LEMMA EnsuredIs ==
  ASSUME NEW c \in Content \cup {Absent}
  PROVE  Ensured(c) \in Content /\ Ensured(c) # Absent /\ Ensured(c) = (IF c # Absent THEN c ELSE Base)
<1>1. \A x \in Content : x # Absent
  BY NfsAssumption DEF Content, Absent, Base, Requests
<1> QED
  BY <1>1 DEF Ensured, Content

\* The bytes are what they were, and an object appears only for a finalize request.
LEMMA BytesSame ==
  ASSUME NEW w \in Writers, BytesInv(w), UNCHANGED <<rows>>, Bytes(w)' = Bytes(w),
         job[w].state \notin {"physical_deleted", "completed"},
         writer[w].state \notin {"committing", "committed", "conflicted"},
         writer[w].state = "open" => object'[w] = object[w]
  PROVE  BytesInv(w)'
<1>1. StagesKept(w) /\ writer' = writer /\ job' = job /\ req' = req
  BY DEF StagesKept, rows
<1>2. LastApplied(w)' = LastApplied(w)
  BY <1>1, AppliedFrame
<1> QED
  BY <1>1, <1>2 DEF BytesInv

LEMMA WriteRangeStep ==
  ASSUME IndInv, NEW t \in Tasks, WriteRange(t)
  PROVE  IndInv' /\ Maps
<1> DEFINE n == task[t].n
<1>1. PICK w \in Writers : w = Of(t)
  BY Unpacked DEF TaskInv, WriteRange
<1>2. Typed /\ WriterInv(w) /\ task[t].step = "io"
  BY Unpacked DEF WriteRange
<1>3. /\ n \in Requests /\ Req(t) = req[w][n] /\ Req(t).receipt = "pending" /\ Req(t).kind = "range"
      /\ lock[w] = t /\ payload[w].state # "deleted" /\ job[w].state \notin {"physical_deleted", "completed"}
      /\ writer[w].state \notin {"none", "committing", "committed", "conflicted"}
  BY <1>1, <1>2, AtIo DEF WriteRange
<1>4. /\ cow' = [cow EXCEPT ![w] = n] /\ Saw(t, n) /\ UNCHANGED <<rows, object, lock, faults>>
  BY <1>1 DEF WriteRange
<1>5. n \in Content /\ n # Absent
  BY <1>3, NfsAssumption DEF Content, Requests, Absent
<1>6. /\ task' \in [Tasks -> Task] /\ \A u \in Tasks \ {t} : task'[u] = task[u]
      /\ task'[t].step = "done" /\ task'[t].n = n /\ Of(t)' = Of(t)
  BY <1>2, <1>4, <1>5, SawTask
<1>7. /\ cow' \in [Writers -> Content \cup {Absent}] /\ object' \in [Writers -> Content \cup {Absent}]
      /\ lock' \in [Writers -> Tasks \cup {NoTask}]
      /\ cow'[w] = n /\ \A v \in Writers \ {w} : DiskKept(v)
  BY <1>2, <1>4, <1>5 DEF Typed, DiskKept
<1>8. /\ req' = req /\ writer' = writer /\ payload' = payload /\ job' = job
      /\ \A u \in Tasks \ {t} : LocksKept(u)
  BY <1>4 DEF rows, LocksKept
<1>9. TaskInv(t)'
  <2>1. Req(t)' = Req(t)
    BY <1>6, <1>8 DEF Req
  <2> QED
    BY <1>1, <1>3, <1>4, <1>6, <1>7, <1>8, <2>1 DEF TaskInv, RequestSteps, LockedSteps
<1>10. BytesInv(w)'
  <2>1. req[w][n].op = "executing"
    BY <1>2, <1>3 DEF WriterInv, RequestInv, RangeStages
  <2>2. writer[w].state \in Alive => writer[w].state = "open"
    BY <1>2, <1>3, <2>1 DEF WriterInv, RequestInv, RangesApplied, Alive
  <2>3. writer[w].state = "open" => object'[w] = Absent /\ Bytes(w)' = n
    BY <1>2, <1>4, <1>5, <1>7 DEF WriterInv, BytesInv, Bytes
  <2>4. \A m \in Requests : req[w][m].op # "io_completed"
    <3> SUFFICES ASSUME NEW m \in Requests, req[w][m].op = "io_completed" PROVE FALSE
      OBVIOUS
    <3>1. m # n /\ req[w][m].kind = "range" /\ req[w][m].op # "applied" /\ req[w][n].op # "applied"
      BY <1>2, <2>1 DEF WriterInv, RequestInv
    <3>2. m < n \/ n < m
      BY <1>3, <3>1 DEF Requests
    <3> QED
      BY <1>2, <1>3, <3>1, <3>2 DEF WriterInv, RequestInv
  <2> QED
    BY <1>3, <1>8, <2>1, <2>2, <2>3, <2>4 DEF BytesInv, Alive
<1> QED
  BY <1>1, <1>2, <1>3, <1>4, <1>6, <1>7, <1>8, <1>9, <1>10, DiskStep DEF LockedSteps

LEMMA ReadManifestStep ==
  ASSUME IndInv, NEW t \in Tasks, ReadManifest(t)
  PROVE  IndInv' /\ Maps
<1>1. PICK w \in Writers : w = Of(t)
  BY Unpacked DEF TaskInv, ReadManifest
<1> DEFINE c == Ensured(cow[w])
<1>2. Typed /\ WriterInv(w) /\ task[t].step = "io" /\ cow[w] \in Content \cup {Absent}
  BY Unpacked, RowTypes DEF ReadManifest
<1>3. /\ task[t].n \in Requests /\ Req(t).receipt = "pending" /\ Req(t).kind = "flush"
      /\ lock[w] = t /\ payload[w].state # "deleted" /\ job[w].state \notin {"physical_deleted", "completed"}
      /\ writer[w].state \notin {"none", "committing", "committed", "conflicted"}
  BY <1>1, <1>2, AtIo DEF ReadManifest
<1>4. /\ cow' = [cow EXCEPT ![w] = c] /\ Saw(t, c) /\ UNCHANGED <<rows, object, lock, faults>>
  BY <1>1 DEF ReadManifest
<1>5. c \in Content /\ c # Absent /\ c = (IF cow[w] # Absent THEN cow[w] ELSE Base)
  BY <1>2, EnsuredIs
<1> HIDE DEF c
<1>6. /\ task' \in [Tasks -> Task] /\ \A u \in Tasks \ {t} : task'[u] = task[u]
      /\ task'[t].step = "done" /\ task'[t].n = task[t].n /\ Of(t)' = Of(t)
  BY <1>2, <1>4, <1>5, SawTask
<1>7. /\ cow' \in [Writers -> Content \cup {Absent}] /\ object' \in [Writers -> Content \cup {Absent}]
      /\ lock' \in [Writers -> Tasks \cup {NoTask}]
      /\ cow'[w] = c /\ \A v \in Writers \ {w} : DiskKept(v)
  BY <1>2, <1>4, <1>5 DEF Typed, DiskKept
<1>8. /\ req' = req /\ payload' = payload /\ \A u \in Tasks \ {t} : LocksKept(u)
  BY <1>4 DEF rows, LocksKept
<1>9. TaskInv(t)'
  <2>1. Req(t)' = Req(t)
    BY <1>6, <1>8 DEF Req
  <2> QED
    BY <1>1, <1>3, <1>4, <1>6, <1>7, <1>8, <2>1 DEF TaskInv, RequestSteps, LockedSteps
<1>10. BytesInv(w)'
  <2>1. Bytes(w)' = Bytes(w)
    BY <1>4, <1>5, <1>7 DEF Bytes
  <2> QED
    BY <1>2, <1>3, <1>4, <2>1, BytesSame DEF WriterInv
<1> QED
  BY <1>1, <1>2, <1>3, <1>4, <1>6, <1>7, <1>8, <1>9, <1>10, DiskStep DEF LockedSteps

LEMMA PublishCowStep ==
  ASSUME IndInv, NEW t \in Tasks, PublishCow(t)
  PROVE  IndInv' /\ Maps
<1>1. PICK w \in Writers : w = Of(t)
  BY Unpacked DEF TaskInv, PublishCow
<1> DEFINE c == Ensured(cow[w])
<1>2. Typed /\ WriterInv(w) /\ TaskInv(t) /\ task[t].step = "io" /\ cow[w] \in Content \cup {Absent}
  BY Unpacked, RowTypes DEF PublishCow
<1>3. /\ task[t].n \in Requests /\ Req(t).receipt = "pending" /\ Req(t).kind = "finalize"
      /\ lock[w] = t /\ payload[w].state # "deleted" /\ job[w].state \notin {"physical_deleted", "completed"}
      /\ writer[w].state \notin {"none", "committing", "committed", "conflicted"}
      /\ Req(t) = req[w][task[t].n]
  BY <1>1, <1>2, AtIo DEF PublishCow
<1>4. writer[w].state # "open"
  BY <1>2, <1>3 DEF WriterInv, RequestInv
<1>5. c \in Content /\ c # Absent /\ c = (IF cow[w] # Absent THEN cow[w] ELSE Base)
  BY <1>2, EnsuredIs
<1>6. CASE object[w] = Absent
  <2>1. /\ object' = [object EXCEPT ![w] = c] /\ cow' = [cow EXCEPT ![w] = Absent]
        /\ Saw(t, c) /\ UNCHANGED <<rows, lock, faults>>
    BY <1>1, <1>6 DEF PublishCow
  <2> HIDE DEF c
  <2>2. /\ task' \in [Tasks -> Task] /\ \A u \in Tasks \ {t} : task'[u] = task[u]
        /\ task'[t].step = "done" /\ task'[t].n = task[t].n /\ Of(t)' = Of(t) /\ task'[t].seen = c
    BY <1>2, <1>5, <2>1, SawTask
  <2>3. /\ cow' \in [Writers -> Content \cup {Absent}] /\ object' \in [Writers -> Content \cup {Absent}]
        /\ lock' \in [Writers -> Tasks \cup {NoTask}]
        /\ object'[w] = c /\ \A v \in Writers \ {w} : DiskKept(v)
    BY <1>2, <1>5, <2>1 DEF Typed, DiskKept
  <2>4. /\ req' = req /\ payload' = payload /\ \A u \in Tasks \ {t} : LocksKept(u)
    BY <2>1 DEF rows, LocksKept
  <2>5. TaskInv(t)'
    <3>1. Req(t)' = Req(t)
      BY <2>2, <2>4 DEF Req
    <3> QED
      BY <1>1, <1>3, <1>5, <2>1, <2>2, <2>3, <2>4, <3>1 DEF TaskInv, RequestSteps, LockedSteps
  <2>6. BytesInv(w)'
    <3>1. Bytes(w)' = Bytes(w)
      BY <1>5, <1>6, <2>3 DEF Bytes
    <3> QED
      BY <1>2, <1>3, <1>4, <2>1, <3>1, BytesSame DEF WriterInv
  <2> QED
    BY <1>1, <1>2, <1>3, <2>1, <2>2, <2>3, <2>4, <2>5, <2>6, DiskStep DEF LockedSteps
<1>7. CASE object[w] # Absent
  <2>1. cow' = [cow EXCEPT ![w] = c] /\ Ends(t) /\ UNCHANGED <<rows, object, faults>>
    BY <1>1, <1>7 DEF PublishCow
  <2> HIDE DEF c
  <2>2. /\ task' \in [Tasks -> Task] /\ lock' \in [Writers -> Tasks \cup {NoTask}]
        /\ TaskInv(t)' /\ \A u \in Tasks \ {t} : task'[u] = task[u] /\ LocksKept(u)
    BY <1>2, <2>1, EndsTask
  <2>3. /\ cow' \in [Writers -> Content \cup {Absent}] /\ object' \in [Writers -> Content \cup {Absent}]
        /\ \A v \in Writers \ {w} : DiskKept(v)
    BY <1>2, <1>5, <2>1 DEF Typed, DiskKept
  <2>4. BytesInv(w)'
    <3>1. Bytes(w)' = Bytes(w)
      BY <1>7, <2>1 DEF Bytes
    <3> QED
      BY <1>2, <1>3, <1>4, <2>1, <3>1, BytesSame DEF WriterInv
  <2> QED
    BY <1>1, <1>2, <1>3, <2>1, <2>2, <2>3, <2>4, DiskStep DEF LockedSteps
<1> QED
  BY <1>6, <1>7

LEMMA AbortCowStep ==
  ASSUME IndInv, NEW t \in Tasks, AbortCow(t)
  PROVE  IndInv' /\ Maps
<1>1. PICK w \in Writers : w = Of(t)
  BY Unpacked DEF TaskInv, AbortCow
<1>2. Typed /\ WriterInv(w) /\ task[t].step = "io"
  BY Unpacked DEF AbortCow
<1>3. /\ task[t].n \in Requests /\ Req(t).receipt = "pending" /\ Req(t).kind = "abort"
      /\ lock[w] = t /\ payload[w].state # "deleted" /\ job[w].state \notin {"physical_deleted", "completed"}
      /\ writer[w].state \notin {"none", "committing", "committed", "conflicted"}
      /\ Req(t) = req[w][task[t].n]
  BY <1>1, <1>2, AtIo DEF AbortCow
<1>4. /\ cow' = [cow EXCEPT ![w] = Absent] /\ Goes(t, "done") /\ UNCHANGED <<rows, object, lock, faults>>
  BY <1>1 DEF AbortCow
<1>5. /\ task' \in [Tasks -> Task] /\ \A u \in Tasks \ {t} : task'[u] = task[u]
      /\ task'[t].step = "done" /\ task'[t].n = task[t].n /\ Of(t)' = Of(t)
  <2>1. "done" \in Steps
    BY DEF Steps
  <2> QED
    BY <1>2, <1>4, <2>1, GoesTask
<1>6. /\ cow' \in [Writers -> Content \cup {Absent}] /\ object' \in [Writers -> Content \cup {Absent}]
      /\ lock' \in [Writers -> Tasks \cup {NoTask}] /\ \A v \in Writers \ {w} : DiskKept(v)
  BY <1>2, <1>4 DEF Typed, DiskKept
<1>7. /\ req' = req /\ payload' = payload /\ writer' = writer /\ job' = job
      /\ \A u \in Tasks \ {t} : LocksKept(u)
  BY <1>4 DEF rows, LocksKept
<1>8. TaskInv(t)'
  <2>1. Req(t)' = Req(t)
    BY <1>5, <1>7 DEF Req
  <2> QED
    BY <1>1, <1>3, <1>4, <1>5, <1>7, <2>1 DEF TaskInv, RequestSteps, LockedSteps
<1>9. BytesInv(w)'
  <2>1. writer[w].state \notin Alive
    BY <1>2, <1>3 DEF WriterInv, RequestInv
  <2> QED
    BY <1>3, <1>7, <2>1 DEF BytesInv, Alive
<1> QED
  BY <1>1, <1>2, <1>3, <1>4, <1>5, <1>6, <1>7, <1>8, <1>9, DiskStep DEF LockedSteps

LEMMA DeleteStagingStep ==
  ASSUME IndInv, NEW t \in Tasks, DeleteStaging(t)
  PROVE  IndInv' /\ Maps
<1>1. PICK w \in Writers : w = Of(t)
  BY Unpacked DEF TaskInv, DeleteStaging
<1>2. Typed /\ WriterInv(w) /\ TaskInv(t) /\ task[t].step = "locked" /\ job[w].state # "none"
  BY <1>1, Unpacked DEF DeleteStaging, HoldsLease
<1>3. writer[w].state \notin {"none", "committed", "conflicted"} \cup Alive
  BY <1>2 DEF WriterInv, RowInv
<1>4. /\ cow' = [cow EXCEPT ![w] = Absent] /\ object' = [object EXCEPT ![w] = Absent]
      /\ Goes(t, "deleted") /\ UNCHANGED <<rows, lock, faults>>
  BY <1>1 DEF DeleteStaging
<1>5. /\ task' \in [Tasks -> Task] /\ \A u \in Tasks \ {t} : task'[u] = task[u]
      /\ task'[t].step = "deleted" /\ Of(t)' = Of(t)
  <2>1. "deleted" \in Steps
    BY DEF Steps
  <2> QED
    BY <1>2, <1>4, <2>1, GoesTask
<1>6. /\ cow' \in [Writers -> Content \cup {Absent}] /\ object' \in [Writers -> Content \cup {Absent}]
      /\ cow'[w] = Absent /\ object'[w] = Absent
      /\ lock' \in [Writers -> Tasks \cup {NoTask}] /\ \A v \in Writers \ {w} : DiskKept(v)
  BY <1>2, <1>4 DEF Typed, DiskKept
<1>7. writer' = writer /\ job' = job /\ \A u \in Tasks \ {t} : LocksKept(u)
  BY <1>4 DEF rows, LocksKept
<1>8. TaskInv(t)'
  BY <1>1, <1>2, <1>4, <1>5, <1>6 DEF TaskInv, RequestSteps, LockedSteps
<1>9. BytesInv(w)'
  BY <1>3, <1>6, <1>7 DEF BytesInv, Alive
<1> QED
  BY <1>1, <1>2, <1>3, <1>4, <1>5, <1>6, <1>7, <1>8, <1>9, DiskStep DEF LockedSteps

-----------------------------------------------------------------------------
(* Cleanup jobs *)

LEMMA ClaimedRow ==
  ASSUME NEW w \in Writers, NEW t \in Tasks, job[w] \in JobRow, Unfinished(w)
  PROVE  /\ Claimed(w, Owner(t)) \in JobRow /\ Claimed(w, Owner(t)).token \in Nat
         /\ Claimed(w, Owner(t)).state # "none"
         /\ Claimed(w, Owner(t)).state \in {"physical_deleted", "completed"}
              <=> job[w].state \in {"physical_deleted", "completed"}
<1> DEFINE x == [job[w] EXCEPT !.state = IF @ = "physical_deleted" THEN @ ELSE "leased",
                               !.owner = Owner(t), !.lease = TRUE, !.token = @ + 1]
<1>1. Owner(t) \in Owners \cup {NoWriter}
  BY DEF Owner, Owners, Tasks
<1>2. job[w].token \in Nat /\ job[w].token + 1 \in Nat
  BY DEF JobRow
<1>3. x \in JobRow /\ x.state = IF job[w].state = "physical_deleted" THEN job[w].state ELSE "leased"
  BY <1>1, <1>2 DEF JobRow
<1> HIDE DEF x
<1>4. Claimed(w, Owner(t)) = IF LeasedTo(w, Owner(t)) THEN job[w] ELSE x
  BY DEF Claimed, x
<1>5. Claimed(w, Owner(t)) \in JobRow
  BY <1>3, <1>4
<1>6. Claimed(w, Owner(t)).token \in Nat
  BY <1>5 DEF JobRow
<1>7. CASE LeasedTo(w, Owner(t))
  BY <1>4, <1>5, <1>6, <1>7 DEF Unfinished
<1>8. CASE ~LeasedTo(w, Owner(t))
  BY <1>3, <1>4, <1>5, <1>6, <1>8 DEF Unfinished
<1> QED
  BY <1>7, <1>8

LEMMA JobFrame ==
  ASSUME IndInv, NEW w \in Writers, JobKept(w), \A v \in Writers \ {w} : job'[v] = job[v],
         UNCHANGED <<writer, payload, req, conflict, drive, cow, object>>
  PROVE  /\ Apart(w) /\ KindsKept /\ PendingKept(w) /\ WriterInv(w)' /\ DriveTyped' /\ QuotaInv' /\ Viewed(w)
<1>1. Apart(w) /\ KindsKept /\ PendingKept(w)
  BY DEF Apart, KindsKept, PendingKept
<1>2. DriveTyped'
  BY Unpacked DEF DriveTyped
<1>3. QuotaInv'
  BY Unpacked, QuotaFrame DEF ReservedKept
<1>4. WriterInv(w)
  BY Unpacked
<1>5. /\ RowKept(w) /\ DiskKept(w) /\ OpsKept(w) /\ WaitingKept(w) /\ NoneNewWaiting(w)
      /\ DeletionKept(w) /\ StagesKept(w)
  BY <1>4 DEF WriterInv, RowInv, RequestInv, RowKept, DiskKept, OpsKept, WaitingKept,
         NoneNewWaiting, DeletionKept, StagesKept
<1>6. RowInv(w)'
  BY <1>4, <1>5, RowFrame DEF WriterInv
<1>7. RequestInv(w)'
  BY <1>4, <1>5, RequestFrame DEF WriterInv
<1>8. BytesInv(w)'
  BY <1>4, <1>5, BytesFrame DEF WriterInv, JobKept
<1>9. Viewed(w)
  BY <1>5, KeptView
<1> QED
  BY <1>1, <1>2, <1>3, <1>6, <1>7, <1>8, <1>9 DEF WriterInv

LEMMA ClaimStep ==
  ASSUME IndInv, NEW t \in Tasks, NEW w \in Writers, Unfinished(w), TakesJob(t, w),
         UNCHANGED <<writer, handle, payload, manifest, req, conflict, drive, head, disk, faults>>
  PROVE  IndInv' /\ Maps
<1> DEFINE y == Claimed(w, Owner(t))
           x == [Idle EXCEPT !.step = "wait", !.w = w, !.token = y.token]
<1>1. Typed /\ job[w] \in JobRow
  BY Unpacked, RowTypes
<1>2. /\ y \in JobRow /\ y.token \in Nat /\ y.state # "none"
      /\ y.state \in {"physical_deleted", "completed"} <=> job[w].state \in {"physical_deleted", "completed"}
  BY <1>1, ClaimedRow
<1>3. job' = [job EXCEPT ![w] = y] /\ task' = [task EXCEPT ![t] = x]
  BY DEF TakesJob
<1> HIDE DEF y
<1>4. x \in Task /\ x.step = "wait" /\ x.w = w
  <2>1. 0 \in 0..MaxRequests /\ 0 \in 0..MaxIssues
    BY NfsAssumption
  <2> QED
    BY <1>2, <2>1 DEF Idle, Task
<1> HIDE DEF x
<1>5. /\ job' \in [Writers -> JobRow] /\ job'[w] = y /\ \A v \in Writers \ {w} : job'[v] = job[v]
      /\ task' \in [Tasks -> Task] /\ task'[t] = x /\ \A u \in Tasks \ {t} : task'[u] = task[u]
  BY <1>1, <1>2, <1>3, <1>4 DEF Typed
<1>6. Typed' /\ UNCHANGED <<cow, object, lock>>
  BY <1>1, <1>5 DEF Typed, disk
<1>7. JobKept(w)
  BY <1>2, <1>5 DEF JobKept, Unfinished
<1>8. TaskInv(t)'
  BY <1>4, <1>5 DEF TaskInv, Of, RequestSteps, LockedSteps
<1>9. \A u \in Tasks \ {t} : LocksKept(u)
  BY <1>6 DEF LocksKept
<1>10. /\ Apart(w) /\ KindsKept /\ PendingKept(w) /\ WriterInv(w)' /\ DriveTyped' /\ QuotaInv'
      /\ Viewed(w)
  BY <1>5, <1>6, <1>7, JobFrame
<1> QED
  BY <1>5, <1>6, <1>8, <1>9, <1>10, TaskStep

LEMMA ClaimOwnFenceStep ==
  ASSUME IndInv, NEW t \in Tasks, ClaimOwnFence(t)
  PROVE  IndInv' /\ Maps
<1>1. PICK w \in Writers : w = Of(t)
  BY Unpacked DEF TaskInv, ClaimOwnFence
<1> QED
  BY <1>1, ClaimStep DEF ClaimOwnFence, Claimable

LEMMA ClaimNextStep ==
  ASSUME IndInv, NEW t \in Sweepers, NEW w \in Writers, ClaimNext(t, w)
  PROVE  IndInv' /\ Maps
<1>1. t \in Tasks
  BY DEF Tasks
<1> QED
  BY <1>1, ClaimStep DEF ClaimNext, Claimable

LEMMA CleanupLeaseLapsesStep ==
  ASSUME IndInv, NEW w \in Writers, CleanupLeaseLapses(w)
  PROVE  IndInv' /\ Maps
<1> DEFINE y == [job[w] EXCEPT !.lease = FALSE]
<1>1. Typed /\ job[w] \in JobRow
  BY Unpacked, RowTypes
<1>2. y \in JobRow /\ y.state = job[w].state
  BY <1>1 DEF JobRow
<1>3. job' = [job EXCEPT ![w] = y]
  BY <1>1 DEF CleanupLeaseLapses, Typed
<1> HIDE DEF y
<1>4. job' \in [Writers -> JobRow] /\ job'[w] = y /\ \A v \in Writers \ {w} : job'[v] = job[v]
  BY <1>1, <1>2, <1>3 DEF Typed
<1>5. faults' \in 0..MaxFaults
  BY <1>1, NfsAssumption DEF CleanupLeaseLapses, Typed
<1>6. UNCHANGED <<writer, handle, payload, manifest, req, conflict, drive, head, cow, object, lock, task>>
  BY DEF CleanupLeaseLapses, disk
<1>7. Typed'
  BY <1>1, <1>4, <1>5, <1>6 DEF Typed
<1>8. JobKept(w)
  BY <1>2, <1>4 DEF JobKept
<1>9. /\ Apart(w) /\ KindsKept /\ PendingKept(w) /\ WriterInv(w)' /\ DriveTyped' /\ QuotaInv'
      /\ Viewed(w)
  BY <1>4, <1>6, <1>8, JobFrame
<1> QED
  BY <1>6, <1>7, <1>9, RowsStep

LEMMA CompleteCleanupStep ==
  ASSUME IndInv, NEW t \in Tasks, CompleteCleanup(t)
  PROVE  IndInv' /\ Maps
<1>1. PICK w \in Writers : w = Of(t)
  BY Unpacked DEF TaskInv, CompleteCleanup
<1> DEFINE y == [job[w] EXCEPT !.state = "completed", !.lease = FALSE]
           x(n) == [req[w][n] EXCEPT !.receipt = "cleanup"]
           r == [n \in Requests |-> IF n = job[w].source THEN x(n) ELSE req[w][n]]
<1>2. /\ Typed /\ DriveTyped /\ QuotaInv /\ WriterInv(w) /\ job[w] \in JobRow
      /\ req[w] \in [Requests -> RequestRow]
      /\ job[w].state = "physical_deleted" /\ SourceClosable(w)
  BY <1>1, Unpacked, RowTypes DEF CompleteCleanup
<1>3. y \in JobRow /\ y.state = "completed"
  BY <1>2 DEF JobRow
<1>4. /\ req' = [req EXCEPT ![w] = r] /\ job' = [job EXCEPT ![w] = y] /\ Ends(t)
      /\ UNCHANGED <<writer, handle, payload, manifest, conflict, drive, head, cow, object, faults>>
  BY <1>1, <1>2 DEF CompleteCleanup, Typed
<1>5. \A n \in Requests :
        /\ x(n) \in RequestRow /\ x(n).kind = req[w][n].kind /\ x(n).op = req[w][n].op
        /\ x(n).waiting = req[w][n].waiting /\ x(n).fresh = req[w][n].fresh /\ x(n).receipt = "cleanup"
  BY <1>2 DEF RequestRow
<1> HIDE DEF x, y
<1>6. r \in [Requests -> RequestRow]
  BY <1>2, <1>5
<1>7. \A n \in Requests :
        /\ r[n].kind = req[w][n].kind /\ r[n].op = req[w][n].op
        /\ r[n].waiting = req[w][n].waiting /\ r[n].fresh = req[w][n].fresh
        /\ r[n].receipt = IF n = job[w].source THEN "cleanup" ELSE req[w][n].receipt
  BY <1>5
<1>8. \A n \in Requests : n = job[w].source => req[w][n].receipt \in {"pending", "cleanup"}
  BY <1>2, NfsAssumption DEF SourceClosable, Requests
<1> HIDE DEF r
<1>9. /\ req' \in [Writers -> [Requests -> RequestRow]] /\ req'[w] = r
      /\ \A v \in Writers \ {w} : req'[v] = req[v]
      /\ job' \in [Writers -> JobRow] /\ job'[w] = y /\ \A v \in Writers \ {w} : job'[v] = job[v]
  BY <1>2, <1>3, <1>4, <1>6 DEF Typed
<1>10. /\ task' \in [Tasks -> Task] /\ lock' \in [Writers -> Tasks \cup {NoTask}]
       /\ TaskInv(t)' /\ \A u \in Tasks \ {t} : task'[u] = task[u] /\ LocksKept(u)
  BY <1>2, <1>4, EndsTask
<1>11. Typed' /\ DriveTyped'
  BY <1>2, <1>4, <1>9, <1>10 DEF Typed, DriveTyped
<1>12. QuotaInv'
  BY <1>2, <1>4, QuotaFrame DEF ReservedKept
<1>13. Apart(w)
  BY <1>4, <1>9 DEF Apart
<1>14. KindsKept
  BY <1>7, <1>9 DEF KindsKept
<1>15. payload[w].state = "deleted" /\ writer[w].state \in {"aborting", "aborted", "expired"}
  <2>1. payload[w].state = "deleted" /\ writer[w].state \notin {"none", "committed", "conflicted"} \cup Alive
    BY <1>2 DEF WriterInv, RowInv
  <2> QED
    BY <1>2, <2>1, RowTypes DEF WriterRow, Active, Fenced, Alive
<1>16. WriterInv(w)'
  <2>1. RowKept(w) /\ DiskKept(w) /\ StagesKept(w)
    BY <1>2, <1>3, <1>4, <1>7, <1>9 DEF RowKept, JobKept, DiskKept, StagesKept, WriterInv, RowInv
  <2>2. RowInv(w)'
    BY <1>2, <2>1, RowFrame DEF WriterInv
  <2>3. BytesInv(w)'
    BY <1>2, <1>4, <2>1, BytesFrame DEF WriterInv
  <2>4. RequestInv(w)'
    <3>1. RangesApplied(w)' <=> RangesApplied(w)
      BY <1>7, <1>9 DEF RangesApplied
    <3> QED
      BY <1>2, <1>4, <1>7, <1>8, <1>9, <1>15, <3>1 DEF WriterInv, RequestInv, Alive
  <2> QED
    BY <2>2, <2>3, <2>4 DEF WriterInv
<1>17. Viewed(w)
  <2>1. RowKept(w) /\ DiskKept(w) /\ StagesKept(w)
    BY <1>2, <1>3, <1>4, <1>7, <1>9 DEF RowKept, JobKept, DiskKept, StagesKept, WriterInv, RowInv
  <2> QED
    BY <2>1, KeptView
<1> QED
  BY <1>4, <1>10, <1>11, <1>12, <1>13, <1>14, <1>15, <1>16, <1>17, TaskStep

-----------------------------------------------------------------------------
(* Writes, replies and publication *)

\* The last acknowledged write is one of the applied ranges and none is later.
LEMMA AppliedIs ==
  ASSUME NEW w \in Writers
  PROVE  /\ LastApplied(w) = Base \/ \E n \in Requests :
              /\ req[w][n].kind = "range" /\ req[w][n].op = "applied" /\ LastApplied(w) = n
         /\ LastApplied(w) \in Content
         /\ \A n \in Requests : req[w][n].kind = "range" /\ req[w][n].op = "applied" => n <= LastApplied(w)
<1> DEFINE S == {Base} \cup {n \in Requests : req[w][n].kind = "range" /\ req[w][n].op = "applied"}
<1>1. S \in SUBSET (0..MaxRequests) /\ S # {}
  BY NfsAssumption DEF Base, Requests
<1>2. Max(S) \in S /\ \A y \in S : y <= Max(S)
  BY <1>1, NfsAssumption, MaxIs
<1>3. LastApplied(w) = Max(S)
  BY DEF LastApplied
<1> QED
  BY <1>2, <1>3 DEF Content

\* The same of the state after a step.
LEMMA AppliedNext ==
  ASSUME NEW w \in Writers
  PROVE  /\ LastApplied(w)' = Base \/ \E n \in Requests :
              /\ req'[w][n].kind = "range" /\ req'[w][n].op = "applied" /\ LastApplied(w)' = n
         /\ LastApplied(w)' \in Content
         /\ \A n \in Requests : req'[w][n].kind = "range" /\ req'[w][n].op = "applied" => n <= LastApplied(w)'
<1> DEFINE S == {Base} \cup {n \in Requests : req'[w][n].kind = "range" /\ req'[w][n].op = "applied"}
<1>1. S \in SUBSET (0..MaxRequests) /\ S # {}
  BY NfsAssumption DEF Base, Requests
<1>2. Max(S) \in S /\ \A y \in S : y <= Max(S)
  BY <1>1, NfsAssumption, MaxIs
<1>3. LastApplied(w)' = Max(S)
  BY DEF LastApplied
<1> QED
  BY <1>2, <1>3 DEF Content

LEMMA StartWriteStep ==
  ASSUME IndInv, NEW w \in Writers, StartWrite(w)
  PROVE  IndInv' /\ Maps
<1> DEFINE x == [state |-> "open", token |-> 1, lease |-> TRUE, live |-> TRUE, reserved |-> 1, base |-> head]
           z == [payload[w] EXCEPT !.state = "staging"]
<1>1. /\ Typed /\ DriveTyped /\ QuotaTyped /\ QuotaInv /\ WriterInv(w) /\ payload[w] \in PayloadRow
      /\ writer[w].state = "none" /\ head \in Nat
  BY Unpacked, RowTypes DEF StartWrite, Typed
<1>2. /\ writer[w].reserved = 0 /\ payload[w].state = "none" /\ cow[w] = Absent /\ object[w] = Absent
      /\ conflict[w] = "none" /\ job[w].state = "none"
      /\ \A n \in Requests : req[w][n].kind = "none"
  BY <1>1 DEF WriterInv, RowInv, RequestInv
<1>3. /\ x \in WriterRow /\ x.state = "open" /\ x.token = 1 /\ x.reserved = 1
  BY <1>1 DEF WriterRow, Active
<1>4. z \in PayloadRow /\ z.state = "staging" /\ z.digest = payload[w].digest
  BY <1>1 DEF PayloadRow
<1>5. /\ writer' = [writer EXCEPT ![w] = x] /\ payload' = [payload EXCEPT ![w] = z]
      /\ drive' = [drive EXCEPT !.reserved = @ + 1] /\ drive.used + drive.reserved + 1 <= Quota
      /\ UNCHANGED <<handle, manifest, req, job, conflict, head, cow, object, lock, task, faults>>
  BY <1>1 DEF StartWrite, Typed, disk
<1> HIDE DEF x, z
<1>6. /\ writer' \in [Writers -> WriterRow] /\ writer'[w] = x
      /\ \A v \in Writers \ {w} : writer'[v] = writer[v]
  BY <1>1, <1>3, <1>5, WriterUpdate
<1>7. /\ payload' \in [Writers -> PayloadRow] /\ payload'[w] = z
      /\ \A v \in Writers \ {w} : payload'[v] = payload[v]
  BY <1>1, <1>4, <1>5 DEF Typed
<1>8. Typed'
  BY <1>1, <1>5, <1>6, <1>7 DEF Typed
<1>9. QuotaInv' /\ DriveTyped'
  <2>1. writer'[w].reserved = writer[w].reserved + 1
    BY <1>2, <1>3, <1>6
  <2> QED
    BY <1>1, <1>2, <1>4, <1>5, <1>6, <1>7, <2>1, QuotaGrow DEF DriveTyped
<1>10. Apart(w) /\ KindsKept /\ PendingKept(w) /\ DiskKept(w)
  BY <1>4, <1>5, <1>6, <1>7 DEF Apart, KindsKept, PendingKept, DiskKept
<1>11. WriterInv(w)'
  <2>1. RowInv(w)'
    BY <1>2, <1>3, <1>4, <1>5, <1>6, <1>7 DEF RowInv, Active, Alive
  <2>2. RequestInv(w)'
    BY <1>1, <1>2, <1>3, <1>5, <1>6 DEF WriterInv, RequestInv, Alive
  <2>3. BytesInv(w)'
    <3>1. LastApplied(w)' = Base
      BY <1>2, <1>5, AppliedNext
    <3>2. Bytes(w)' = Base
      BY <1>2, <1>5 DEF Bytes
    <3>3. \A n \in Requests : req'[w][n].op # "io_completed"
      BY <1>1, <1>2, <1>5 DEF WriterInv, RequestInv
    <3> QED
      BY <1>2, <1>3, <1>5, <1>6, <3>1, <3>2, <3>3 DEF BytesInv
  <2> QED
    BY <2>1, <2>2, <2>3 DEF WriterInv
<1>12. Viewed(w)
  <2>1. StagesKept(w)
    BY <1>5 DEF StagesKept
  <2>2. LastApplied(w)' = LastApplied(w)
    BY <2>1, AppliedFrame
  <2>3. Phase[w] = "none" /\ Acked[w] = LastApplied(w) /\ Visible[w] = Absent
    BY <1>1, <1>2, PhaseIs
  <2>4. Phase'[w] = "staged" /\ Acked'[w] = LastApplied(w)' /\ Visible'[w] = Absent
    BY <1>3, <1>4, <1>6, <1>7, PhaseIsNext DEF Alive
  <2> QED
    BY <2>2, <2>3, <2>4 DEF Viewed
<1> QED
  BY <1>5, <1>8, <1>9, <1>10, <1>11, <1>12, RowsStep

LEMMA PlanRangeStep ==
  ASSUME IndInv, NEW w \in Writers, PlanRange(w)
  PROVE  IndInv' /\ Maps
<1> DEFINE n == Min(Unused(w))
           q == Renewed(writer[w])
           x == [q EXCEPT !.reserved = writer[w].reserved + 1]
           z == [NoRequest EXCEPT !.kind = "range", !.op = "planned"]
<1>1. /\ Typed /\ DriveTyped /\ QuotaTyped /\ QuotaInv /\ WriterInv(w) /\ writer[w] \in WriterRow
      /\ writer[w].state = "open" /\ payload[w].state = "staging" /\ RangesApplied(w)
      /\ Pending(w) = {} /\ Unused(w) # {}
  BY Unpacked, RowTypes DEF PlanRange
<1>2. /\ n \in Requests /\ req[w][n].kind = "none"
      /\ \A m \in Requests : m < n => req[w][m].kind # "none"
  BY <1>1, NextUnused
<1>3. /\ x \in WriterRow /\ x.state = "open" /\ x.token = writer[w].token
      /\ x.reserved = writer[w].reserved + 1
  <2>1. q \in WriterRow /\ q.state = "open" /\ q.token = writer[w].token /\ q.reserved = writer[w].reserved
    BY <1>1, RenewedRow
  <2>2. writer[w].reserved + 1 \in Nat
    BY <1>1 DEF WriterRow
  <2> HIDE DEF q
  <2> QED
    BY <2>1, <2>2 DEF WriterRow
<1>4. /\ z \in RequestRow /\ z.kind = "range" /\ z.op = "planned"
      /\ z.receipt = "none" /\ z.waiting = FALSE /\ z.fresh = FALSE
  BY PlannedRow
<1>5. /\ writer' = [writer EXCEPT ![w] = x] /\ req' = [req EXCEPT ![w][n] = z]
      /\ drive' = [drive EXCEPT !.reserved = @ + 1] /\ drive.used + drive.reserved + 1 <= Quota
      /\ UNCHANGED <<handle, payload, manifest, job, conflict, head, cow, object, lock, task, faults>>
  <2>1. writer' = [writer EXCEPT ![w] = x]
    BY DEF PlanRange
  <2> HIDE DEF x
  <2> QED
    BY <1>1, <2>1 DEF PlanRange, disk
<1> HIDE DEF n, x, z
<1>6. /\ writer' \in [Writers -> WriterRow] /\ writer'[w] = x
      /\ \A v \in Writers \ {w} : writer'[v] = writer[v]
  BY <1>1, <1>3, <1>5, WriterUpdate
<1>7. /\ req' \in [Writers -> [Requests -> RequestRow]]
      /\ req'[w][n] = z /\ \A m \in Requests \ {n} : req'[w][m] = req[w][m]
      /\ \A v \in Writers \ {w} : req'[v] = req[v]
  BY <1>1, <1>2, <1>4, <1>5, ReqUpdate
<1>8. Typed'
  BY <1>1, <1>5, <1>6, <1>7 DEF Typed
<1>9. QuotaInv' /\ DriveTyped'
  BY <1>1, <1>3, <1>5, <1>6, QuotaGrow DEF DriveTyped
<1>10. req[w][n].op = "none" /\ req[w][n].receipt = "none" /\ \A m \in Requests : req[w][m].receipt # "pending"
  BY <1>1, <1>2 DEF WriterInv, RequestInv, Pending
<1>11. Apart(w) /\ DiskKept(w)
  BY <1>5, <1>6, <1>7 DEF Apart, DiskKept
<1>12. KindsKept
  BY <1>2, <1>7 DEF KindsKept
<1>13. PendingKept(w) /\ StagesKept(w)
  BY <1>4, <1>5, <1>7, <1>10 DEF PendingKept, StagesKept
<1>14. WriterInv(w)'
  <2>1. RowInv(w)'
    BY <1>1, <1>3, <1>5, <1>6 DEF WriterInv, RowInv, Active, Alive
  <2>2. \A m \in Requests : n < m => req[w][m].kind = "none"
    BY <1>1, <1>2 DEF WriterInv, RequestInv
  <2>3. \A m \in Requests : req[w][m].kind = "range" => req[w][m].op = "applied"
    BY <1>1 DEF RangesApplied
  <2>4. RequestInv(w)
    BY <1>1 DEF WriterInv
  <2>5. \A m \in Requests :
         LET r == req'[w][m] IN
          /\ r.kind = "none" => r.receipt = "none" /\ ~r.waiting
          /\ r.kind # "range" => r.op = "none"
          /\ r.fresh => r.waiting
          /\ r.receipt # "pending"
          /\ r.kind = "range" /\ payload'[w].state # "deleted" => <<r.receipt, r.op>> \in RangeStages
          /\ r.receipt # "none" /\ r.kind = "abort" => writer'[w].state \notin Alive
          /\ r.receipt = "cleanup" => payload'[w].state = "deleted"
    BY <2>4, <1>1, <1>3, <1>4, <1>5, <1>6, <1>7, <1>10 DEF RequestInv, RangeStages
  <2>6. \A l, m \in Requests :
          LET r == req'[w] IN
          /\ l < m /\ r[m].kind # "none" => r[l].kind # "none"
          /\ l < m /\ r[l].kind = "range" /\ r[l].op # "applied" => r[m].kind = "none"
          /\ r[l].waiting /\ r[m].waiting => l = m
    BY <2>2, <2>3, <2>4, <1>1, <1>2, <1>4, <1>7 DEF RequestInv
  <2>7. RequestInv(w)'
    BY <2>5, <2>6, <1>3, <1>6 DEF RequestInv
  <2>8. BytesInv(w)'
    BY <1>1, <1>3, <1>5, <1>6, <1>11, <1>13, BytesFrame DEF WriterInv, Alive
  <2> QED
    BY <2>1, <2>7, <2>8 DEF WriterInv
<1>15. Viewed(w)
  <2>1. LastApplied(w)' = LastApplied(w)
    BY <1>13, AppliedFrame
  <2> QED
    BY <1>1, <1>3, <1>5, <1>6, <2>1, SameView DEF Viewed
<1> QED
  BY <1>5, <1>8, <1>9, <1>11, <1>12, <1>13, <1>14, <1>15, RowsStep

LEMMA ApplyExtentStep ==
  ASSUME IndInv, NEW w \in Writers, NEW n \in Requests, ApplyExtent(w, n)
  PROVE  IndInv' /\ Maps /\ LastApplied(w)' = n /\ LastApplied(w)' > LastApplied(w)
<1> DEFINE x == Renewed(writer[w])
           y == Answered(req[w][n])
           z == [y EXCEPT !.op = "applied"]
<1>1. /\ Typed /\ DriveTyped /\ QuotaInv /\ WriterInv(w) /\ writer[w] \in WriterRow
      /\ req[w][n] \in RequestRow /\ writer[w].state = "open"
      /\ req[w][n].op = "io_completed" /\ req[w][n].receipt = "done" /\ req[w][n].waiting
  BY Unpacked, RowTypes DEF ApplyExtent
<1>2. x \in WriterRow /\ x.state = "open" /\ x.token = writer[w].token /\ x.reserved = writer[w].reserved
  BY <1>1, RenewedRow
<1>3. /\ y \in RequestRow /\ y.kind = req[w][n].kind /\ y.receipt = "done"
      /\ y.waiting = FALSE /\ y.fresh = FALSE
  BY <1>1, AnsweredRow
<1> HIDE DEF y
<1>4. /\ z \in RequestRow /\ z.kind = req[w][n].kind /\ z.receipt = "done" /\ z.op = "applied"
      /\ z.waiting = FALSE /\ z.fresh = FALSE
  BY <1>3 DEF RequestRow
<1>5. /\ writer' = [writer EXCEPT ![w] = x] /\ req' = [req EXCEPT ![w][n] = z]
      /\ UNCHANGED <<handle, payload, manifest, job, conflict, drive, head, cow, object, lock, task, faults>>
  BY <1>1 DEF ApplyExtent, Typed, disk, y
<1> HIDE DEF x, z
<1>6. /\ writer' \in [Writers -> WriterRow] /\ writer'[w] = x
      /\ \A v \in Writers \ {w} : writer'[v] = writer[v]
  BY <1>1, <1>2, <1>5, WriterUpdate
<1>7. /\ req' \in [Writers -> [Requests -> RequestRow]]
      /\ req'[w][n] = z /\ \A m \in Requests \ {n} : req'[w][m] = req[w][m]
      /\ \A v \in Writers \ {w} : req'[v] = req[v]
  BY <1>1, <1>4, <1>5, ReqUpdate
<1>8. Typed' /\ DriveTyped'
  BY <1>1, <1>5, <1>6, <1>7 DEF Typed, DriveTyped
<1>9. QuotaInv'
  <2>1. ReservedKept
    BY <1>2, <1>6 DEF ReservedKept
  <2> QED
    BY <1>1, <1>5, <2>1, QuotaFrame
<1>10. Apart(w) /\ DiskKept(w)
  BY <1>5, <1>6, <1>7 DEF Apart, DiskKept
<1>11. KindsKept
  BY <1>4, <1>7 DEF KindsKept
<1>12. PendingKept(w)
  BY <1>1, <1>5, <1>7 DEF PendingKept
\* The range is the last one: nothing behind it was planned.
<1>13. req[w][n].kind = "range" /\ \A m \in Requests : n < m => req[w][m].kind = "none"
  BY <1>1 DEF WriterInv, RequestInv
<1>14. \A m \in Requests \ {n} : req[w][m].kind = "range" => m < n /\ req[w][m].op = "applied"
  <2> SUFFICES ASSUME NEW m \in Requests \ {n}, req[w][m].kind = "range"
               PROVE  m < n /\ req[w][m].op = "applied"
    OBVIOUS
  <2>1. m < n
    BY <1>13, NfsAssumption DEF Requests
  <2>2. req[w][m].op = "applied"
    BY <1>1, <1>13, <2>1 DEF WriterInv, RequestInv
  <2> QED
    BY <2>1, <2>2
<1>15. LastApplied(w)' = n /\ LastApplied(w)' > LastApplied(w)
  <2>1. LastApplied(w)' = n
    <3>1. n <= LastApplied(w)'
      BY <1>4, <1>7, <1>13, AppliedNext
    <3>2. LastApplied(w)' \in Nat /\ n \in Nat /\ n > 0
      BY AppliedNext, NfsAssumption DEF Content, Base, Requests
    <3>3. LastApplied(w)' <= n
      BY <1>7, <1>14, <3>2, AppliedNext DEF Base
    <3> QED
      BY <3>1, <3>2, <3>3
  <2>2. LastApplied(w) < n
    <3>1. n \in Nat /\ n > 0
      BY NfsAssumption DEF Requests
    <3>2. LastApplied(w) = Base \/ \E m \in Requests \ {n} : LastApplied(w) = m /\ req[w][m].kind = "range"
      BY <1>1, AppliedIs
    <3> QED
      BY <1>14, <3>1, <3>2 DEF Base
  <2> QED
    BY <2>1, <2>2
<1>16. WriterInv(w)'
  <2>1. RowInv(w)'
    BY <1>1, <1>2, <1>5, <1>6 DEF WriterInv, RowInv, Active, Alive
  <2>2. RangesApplied(w)'
    BY <1>4, <1>7, <1>14 DEF RangesApplied
  <2>3. RequestInv(w)
    BY <1>1 DEF WriterInv
  <2>4. RequestInv(w)'
    BY <2>2, <2>3, <1>1, <1>2, <1>4, <1>5, <1>6, <1>7, <1>13 DEF RequestInv, RangeStages
  <2>5. Bytes(w)' = n
    BY <1>1, <1>5 DEF WriterInv, BytesInv, Bytes, Alive
  <2>6. \A m \in Requests : req'[w][m].op # "io_completed"
    BY <1>4, <1>7, <1>14, <2>3 DEF RequestInv
  <2>7. BytesInv(w)'
    BY <1>1, <1>2, <1>5, <1>6, <1>15, <2>5, <2>6 DEF WriterInv, BytesInv, Alive
  <2> QED
    BY <2>1, <2>4, <2>7 DEF WriterInv
<1>17. Viewed(w)
  <2>1. Phase[w] = "staged" /\ Acked[w] = LastApplied(w)
    BY <1>1, PhaseIs DEF Alive
  <2>2. Phase'[w] = "staged" /\ Acked'[w] = LastApplied(w)'
    BY <1>2, <1>6, PhaseIsNext DEF Alive
  <2>3. Visible'[w] = Visible[w]
    BY <1>5, PhaseIs, PhaseIsNext
  <2> QED
    BY <1>15, <2>1, <2>2, <2>3, AppliedNext DEF Viewed
<1>18. IndInv' /\ Maps
  BY <1>5, <1>8, <1>9, <1>10, <1>11, <1>12, <1>16, <1>17, RowsStep
<1> QED
  BY <1>15, <1>18

LEMMA EndedRows ==
  ASSUME NEW r \in WriterRow, r.token = 1
  PROVE  /\ \A s \in {"committed", "aborted"} :
              LET q == Ended(r, s, r.token)
              IN  /\ q \in WriterRow /\ q.state = s /\ q.token = 1
                  /\ q.lease = FALSE /\ q.reserved = r.reserved
         /\ LET q == Ended(r, "conflicted", r.token + 1)
            IN  /\ q \in WriterRow /\ q.state = "conflicted" /\ q.token = 2
                /\ q.lease = FALSE /\ q.reserved = r.reserved
<1>1. 1 \in 0..3 /\ 2 \in 0..3 /\ r.token + 1 = 2
  OBVIOUS
<1>2. /\ "committed" \in Active \cup Fenced \cup {"none", "committed"}
      /\ "aborted" \in Active \cup Fenced \cup {"none", "committed"}
      /\ "conflicted" \in Active \cup Fenced \cup {"none", "committed"}
  BY DEF Fenced
<1>3. ASSUME NEW s \in {"committed", "aborted"}
      PROVE  LET q == Ended(r, s, r.token)
             IN  /\ q \in WriterRow /\ q.state = s /\ q.token = 1
                 /\ q.lease = FALSE /\ q.reserved = r.reserved
  BY <1>1, <1>2 DEF Ended, WriterRow
<1>4. LET q == Ended(r, "conflicted", r.token + 1)
      IN  /\ q \in WriterRow /\ q.state = "conflicted" /\ q.token = 2
          /\ q.lease = FALSE /\ q.reserved = r.reserved
  BY <1>1, <1>2 DEF Ended, WriterRow
<1> QED
  BY <1>3, <1>4

LEMMA CommitWriteStep ==
  ASSUME IndInv, NEW w \in Writers, CommitWrite(w)
  PROVE  IndInv' /\ Maps
<1>1. PICK n \in Requests :
        /\ req[w][n].kind = "finalize" /\ req[w][n].waiting /\ req[w][n].receipt = "done"
        /\ req' = [req EXCEPT ![w][n] = Answered(@)]
  BY DEF CommitWrite
<1> DEFINE z == Answered(req[w][n])
           y == [payload[w] EXCEPT !.state = "referenced"]
<1>2. /\ Typed /\ DriveTyped /\ QuotaTyped /\ QuotaInv /\ WriterInv(w) /\ writer[w] \in WriterRow
      /\ payload[w] \in PayloadRow /\ req[w][n] \in RequestRow
      /\ writer[w].state = "committing" /\ payload[w].state = "finalized"
  BY Unpacked, RowTypes DEF CommitWrite
<1>3. writer[w].token = 1 /\ conflict[w] = "none" /\ job[w].state = "none"
  BY <1>2 DEF WriterInv, RowInv, Active, Alive
<1>4. /\ z \in RequestRow /\ z.kind = req[w][n].kind /\ z.op = req[w][n].op
      /\ z.receipt = req[w][n].receipt /\ z.waiting = FALSE /\ z.fresh = FALSE
  BY <1>2, AnsweredRow
<1>5. /\ req' = [req EXCEPT ![w][n] = z]
      /\ UNCHANGED <<manifest, job, cow, object, lock, task, faults>>
  BY <1>1, <1>2 DEF CommitWrite, Typed, disk
<1>6. y \in PayloadRow /\ y.state = "referenced" /\ y.digest = payload[w].digest
  BY <1>2 DEF PayloadRow
<1> HIDE DEF y, z
<1>7. /\ req' \in [Writers -> [Requests -> RequestRow]]
      /\ req'[w][n] = z /\ \A m \in Requests \ {n} : req'[w][m] = req[w][m]
      /\ \A v \in Writers \ {w} : req'[v] = req[v]
  BY <1>2, <1>4, <1>5, ReqUpdate
<1>8. OpsKept(w) /\ StagesKept(w) /\ KindsKept /\ DiskKept(w)
  <2>1. OpsKept(w) /\ StagesKept(w)
    BY <1>4, <1>7 DEF OpsKept, StagesKept
  <2>2. KindsKept
    BY <1>4, <1>7 DEF KindsKept
  <2> QED
    BY <1>5, <2>1, <2>2 DEF DiskKept
<1>9. NoneNewWaiting(w)
  <2>1. \A m \in Requests : req[w][m].fresh => req[w][m].waiting
    BY <1>2 DEF WriterInv, RequestInv
  <2> QED
    BY <1>1, <1>4, <1>7, <2>1 DEF NoneNewWaiting
<1>10. CASE HeadAsExpected(w)
  <2> DEFINE x == Ended(writer[w], "committed", writer[w].token)
  <2>1. x \in WriterRow /\ x.state = "committed" /\ x.token = 1 /\ x.lease = FALSE /\ x.reserved = writer[w].reserved
    BY <1>2, <1>3, EndedRows
  <2>2. /\ writer' = [writer EXCEPT ![w] = x] /\ payload' = [payload EXCEPT ![w] = y]
        /\ drive' = [used |-> drive.used + writer[w].reserved, reserved |-> drive.reserved - writer[w].reserved]
        /\ handle' \in [Writers -> {"open", "stale", "closed"}] /\ head' \in Nat /\ conflict' = conflict
    BY <1>2, <1>10 DEF CommitWrite, Publishes, Typed, y
  <2> HIDE DEF x
  <2>3. /\ writer' \in [Writers -> WriterRow] /\ writer'[w] = x
        /\ \A v \in Writers \ {w} : writer'[v] = writer[v]
    BY <1>2, <2>1, <2>2, WriterUpdate
  <2>4. /\ payload' \in [Writers -> PayloadRow] /\ payload'[w] = y
        /\ \A v \in Writers \ {w} : payload'[v] = payload[v]
    BY <1>2, <1>6, <2>2 DEF Typed
  <2>5. Typed'
    BY <1>2, <1>5, <1>7, <2>2, <2>3, <2>4 DEF Typed
  <2>6. QuotaInv' /\ DriveTyped'
    <3>1. ReservedKept
      BY <2>1, <2>3 DEF ReservedKept
    <3> QED
      BY <1>2, <1>6, <2>2, <2>4, <3>1, QuotaPublish DEF Held, DriveTyped
  <2>7. Apart(w) /\ PendingKept(w) /\ DeletionKept(w)
    BY <1>2, <1>5, <1>6, <1>7, <1>8, <2>2, <2>3, <2>4 DEF Apart, PendingKept, DeletionKept, OpsKept
  <2>8. RowInv(w)'
    BY <1>3, <1>5, <1>6, <2>1, <2>2, <2>3, <2>4 DEF RowInv, Active, Alive
  <2>9. RequestInv(w)'
    BY <1>2, <1>8, <1>9, <2>1, <2>3, <2>7, RequestFrame DEF WriterInv
  <2>10. BytesInv(w)'
    BY <1>2, <1>5, <1>6, <1>8, <2>1, <2>3, <2>4, BytesFrame DEF WriterInv, Alive
  <2>11. Viewed(w)
    <3>1. LastApplied(w)' = LastApplied(w)
      BY <1>8, AppliedFrame
    <3>2. Phase[w] = "staged" /\ Acked[w] = LastApplied(w) /\ Visible[w] = Absent
      BY <1>2, PhaseIs DEF Alive
    <3>3. Phase'[w] = "published" /\ Acked'[w] = LastApplied(w)' /\ Visible'[w] = LastApplied(w)
      BY <1>2, <1>5, <1>6, <2>1, <2>3, <2>4, PhaseIsNext DEF Alive, WriterInv, BytesInv
    <3> QED
      BY <3>1, <3>2, <3>3 DEF Viewed
  <2> QED
    BY <1>5, <1>8, <2>5, <2>6, <2>7, <2>8, <2>9, <2>10, <2>11, RowsStep DEF WriterInv
<1>11. CASE ~HeadAsExpected(w)
  <2> DEFINE x == Ended(writer[w], "conflicted", writer[w].token + 1)
  <2>1. x \in WriterRow /\ x.state = "conflicted" /\ x.token = 2 /\ x.lease = FALSE /\ x.reserved = writer[w].reserved
    BY <1>2, <1>3, EndedRows
  <2>2. /\ writer' = [writer EXCEPT ![w] = x] /\ conflict' = [conflict EXCEPT ![w] = "retained"]
        /\ UNCHANGED <<handle, payload, drive, head>>
    BY <1>2, <1>11 DEF CommitWrite, Typed
  <2> HIDE DEF x
  <2>3. /\ writer' \in [Writers -> WriterRow] /\ writer'[w] = x
        /\ \A v \in Writers \ {w} : writer'[v] = writer[v]
    BY <1>2, <2>1, <2>2, WriterUpdate
  <2>4. /\ conflict' \in [Writers -> {"none", "retained", "copied", "discarded", "expired"}]
        /\ conflict'[w] = "retained" /\ \A v \in Writers \ {w} : conflict'[v] = conflict[v]
    BY <1>2, <2>2 DEF Typed
  <2>5. Typed' /\ DriveTyped'
    BY <1>2, <1>5, <1>7, <2>2, <2>3, <2>4 DEF Typed, DriveTyped
  <2>6. QuotaInv'
    <3>1. ReservedKept
      BY <2>1, <2>3 DEF ReservedKept
    <3> QED
      BY <1>2, <2>2, <3>1, QuotaFrame
  <2>7. Apart(w) /\ PendingKept(w) /\ DeletionKept(w)
    BY <1>5, <1>7, <1>8, <2>2, <2>3, <2>4 DEF Apart, PendingKept, DeletionKept, OpsKept
  <2>8. RowInv(w)'
    BY <1>2, <1>3, <1>5, <2>1, <2>2, <2>3, <2>4 DEF RowInv, Active, Alive
  <2>9. RequestInv(w)'
    BY <1>2, <1>8, <1>9, <2>1, <2>3, <2>7, RequestFrame DEF WriterInv
  <2>10. BytesInv(w)'
    BY <1>2, <1>5, <1>8, <2>1, <2>2, <2>3, BytesFrame DEF WriterInv, Alive
  <2>11. Viewed(w)
    <3>1. LastApplied(w)' = LastApplied(w)
      BY <1>8, AppliedFrame
    <3>2. Phase[w] = "staged" /\ Acked[w] = LastApplied(w) /\ Visible[w] = Absent
      BY <1>2, PhaseIs DEF Alive
    <3>3. Phase'[w] = "retained" /\ Acked'[w] = LastApplied(w)' /\ Visible'[w] = Absent
      BY <1>2, <2>1, <2>2, <2>3, <2>4, PhaseIsNext DEF Alive
    <3> QED
      BY <3>1, <3>2, <3>3 DEF Viewed
  <2> QED
    BY <1>5, <1>8, <2>5, <2>6, <2>7, <2>8, <2>9, <2>10, <2>11, RowsStep DEF WriterInv
<1> QED
  BY <1>10, <1>11

LEMMA CopyConflictStep ==
  ASSUME IndInv, NEW w \in Writers, CopyConflict(w)
  PROVE  IndInv' /\ Maps
<1> DEFINE y == [payload[w] EXCEPT !.state = "referenced"]
<1>1. /\ Typed /\ DriveTyped /\ QuotaTyped /\ QuotaInv /\ WriterInv(w) /\ payload[w] \in PayloadRow
      /\ writer[w].state = "conflicted" /\ payload[w].state = "finalized" /\ conflict[w] = "retained"
  BY Unpacked, RowTypes DEF CopyConflict
<1>2. y \in PayloadRow /\ y.state = "referenced" /\ y.digest = payload[w].digest
  BY <1>1 DEF PayloadRow
<1>3. /\ payload' = [payload EXCEPT ![w] = y] /\ conflict' = [conflict EXCEPT ![w] = "copied"]
      /\ drive' = [used |-> drive.used + writer[w].reserved, reserved |-> drive.reserved - writer[w].reserved]
      /\ UNCHANGED <<writer, handle, manifest, req, job, head, cow, object, lock, task, faults>>
  BY <1>1 DEF CopyConflict, Publishes, Typed, disk
<1> HIDE DEF y
<1>4. /\ payload' \in [Writers -> PayloadRow] /\ payload'[w] = y
      /\ \A v \in Writers \ {w} : payload'[v] = payload[v]
  BY <1>1, <1>2, <1>3 DEF Typed
<1>5. /\ conflict' \in [Writers -> {"none", "retained", "copied", "discarded", "expired"}]
      /\ conflict'[w] = "copied" /\ \A v \in Writers \ {w} : conflict'[v] = conflict[v]
  BY <1>1, <1>3 DEF Typed
<1>6. Typed'
  BY <1>1, <1>3, <1>4, <1>5 DEF Typed
<1>7. QuotaInv' /\ DriveTyped'
  <2>1. ReservedKept
    BY <1>3 DEF ReservedKept
  <2> QED
    BY <1>1, <1>2, <1>3, <1>4, <2>1, QuotaPublish DEF Held, DriveTyped
<1>8. Apart(w) /\ KindsKept /\ PendingKept(w) /\ DiskKept(w)
  BY <1>2, <1>3, <1>4, <1>5 DEF Apart, KindsKept, PendingKept, DiskKept
<1>9. OpsKept(w) /\ DeletionKept(w) /\ StagesKept(w) /\ NoneNewWaiting(w)
  BY <1>1, <1>2, <1>3, <1>4 DEF OpsKept, DeletionKept, StagesKept, NoneNewWaiting, WriterInv, RequestInv
<1>10. RowInv(w)'
  BY <1>1, <1>2, <1>3, <1>4, <1>5 DEF WriterInv, RowInv, Active, Alive
<1>11. RequestInv(w)'
  BY <1>1, <1>3, <1>9, RequestFrame DEF WriterInv
<1>12. BytesInv(w)'
  BY <1>1, <1>2, <1>3, <1>4, <1>8, <1>9, BytesFrame DEF WriterInv, Alive
<1>13. Viewed(w)
  <2>1. LastApplied(w)' = LastApplied(w)
    BY <1>9, AppliedFrame
  <2>2. Phase[w] = "retained" /\ Acked[w] = LastApplied(w)
    BY <1>1, PhaseIs DEF Alive
  <2>3. object[w] = LastApplied(w)
    BY <1>1 DEF WriterInv, BytesInv
  <2>4. Phase'[w] = "published" /\ Acked'[w] = LastApplied(w)' /\ Visible'[w] = object[w]
    BY <1>1, <1>2, <1>3, <1>4, PhaseIsNext DEF Alive
  <2> QED
    BY <2>1, <2>2, <2>3, <2>4 DEF Viewed
<1> QED
  BY <1>3, <1>6, <1>7, <1>8, <1>10, <1>11, <1>12, <1>13, RowsStep DEF WriterInv

-----------------------------------------------------------------------------
(* Admission *)

\* A task at its admission, before the lock or under it.
LEMMA AtAdmission ==
  ASSUME IndInv, NEW t \in Tasks, NEW w \in Writers, w = Of(t), AtBegin(t)
  PROVE  /\ task[t].n \in Requests /\ Req(t) = req[w][task[t].n] /\ Req(t).kind # "none"
         /\ task[t].step \in {"begin", "rebegin"} /\ (task[t].step = "rebegin" => lock[w] = t)
BY Unpacked DEF TaskInv, AtBegin, Admissions, RequestSteps, LockedSteps, Req

\* A live lease is the lease of an active writer, whose payload is there.
LEMMA LiveFence ==
  ASSUME NEW w \in Writers, NEW k, WriterInv(w), FenceLive(w, k)
  PROVE  writer[w].state \in Active /\ payload[w].state \in {"staging", "finalized"} /\ Admits(w, k)
<1>1. writer[w].state \in Active /\ Admits(w, k)
  BY DEF FenceLive, WriterInv, RowInv
<1> QED
  BY <1>1 DEF WriterInv, RowInv, Active

LEMMA BeginRetriesStep ==
  ASSUME IndInv, NEW t \in Tasks, BeginExecutes(t), Req(t).receipt = "pending"
  PROVE  IndInv' /\ Maps
<1>0. AtBegin(t) /\ RetryAdmitted(t) /\ Goes(t, AfterAdmission(t))
  BY DEF BeginExecutes
<1>1. PICK w \in Writers : w = Of(t)
  BY <1>0, Unpacked DEF TaskInv, AtBegin, Admissions
<1>2. /\ Typed /\ WriterInv(w) /\ TaskInv(t)
      /\ task[t].n \in Requests /\ Req(t) = req[w][task[t].n] /\ Req(t).kind # "none"
      /\ task[t].step \in {"begin", "rebegin"} /\ (task[t].step = "rebegin" => lock[w] = t)
  BY <1>0, <1>1, AtAdmission, Unpacked
<1>3. payload[w].state # "deleted"
  BY <1>0, <1>1, <1>2, LiveFence DEF RetryAdmitted
<1>4. PICK s \in Steps : s = AfterAdmission(t) /\ s \in {"lock", "io"} /\ (s = "io" => task[t].step = "rebegin")
  BY <1>2 DEF AfterAdmission, Steps
<1>5. /\ task' \in [Tasks -> Task] /\ \A u \in Tasks \ {t} : task'[u] = task[u]
      /\ task'[t].step = s /\ task'[t].n = task[t].n /\ Of(t)' = Of(t)
  BY <1>0, <1>2, <1>4, GoesTask
<1>6. UNCHANGED <<rows, cow, object, lock, faults>>
  BY DEF BeginExecutes, rows, disk
<1>7. Typed' /\ \A u \in Tasks \ {t} : LocksKept(u)
  BY <1>2, <1>5, <1>6 DEF Typed, rows, LocksKept
<1>8. TaskInv(t)'
  <2>1. Req(t)' = Req(t)
    BY <1>5, <1>6 DEF Req, rows
  <2> QED
    BY <1>1, <1>2, <1>3, <1>4, <1>5, <1>6, <2>1 DEF TaskInv, RequestSteps, LockedSteps, rows
<1>9. /\ Apart(w) /\ KindsKept /\ PendingKept(w) /\ WriterInv(w)' /\ DriveTyped' /\ QuotaInv'
      /\ Viewed(w)
  BY <1>6, RowsSame
<1> QED
  BY <1>5, <1>6, <1>7, <1>8, <1>9, TaskStep

\* The receipt and the operation of a request, which are set together.
Receipts == {"none", "pending", "done", "cleanup"}
Ops == {"none", "planned", "executing", "io_completed", "applied", "cancelled"}
Marked(r, receipt, op) == [r EXCEPT !.receipt = receipt, !.op = op]
MarksRequest(w, n, receipt, op) == req' = [req EXCEPT ![w][n].receipt = receipt, ![w][n].op = op]

LEMMA MarkedRow ==
  ASSUME NEW r \in RequestRow, NEW receipt \in Receipts, NEW op \in Ops
  PROVE  /\ Marked(r, receipt, op) \in RequestRow /\ Marked(r, receipt, op).kind = r.kind
         /\ Marked(r, receipt, op).receipt = receipt /\ Marked(r, receipt, op).op = op
         /\ Marked(r, receipt, op).waiting = r.waiting /\ Marked(r, receipt, op).fresh = r.fresh
BY DEF Marked, RequestRow, Receipts, Ops

LEMMA MarkedUpdate ==
  ASSUME Typed, NEW w \in Writers, NEW n \in Requests, NEW receipt, NEW op,
         Marked(req[w][n], receipt, op) \in RequestRow,
         MarksRequest(w, n, receipt, op)
  PROVE  /\ req' \in [Writers -> [Requests -> RequestRow]]
         /\ req'[w][n] = Marked(req[w][n], receipt, op)
         /\ \A m \in Requests \ {n} : req'[w][m] = req[w][m]
         /\ \A v \in Writers \ {w} : req'[v] = req[v]
<1>1. req \in [Writers -> [Requests -> RequestRow]] /\ req[w][n] \in RequestRow
  BY DEF Typed
<1>2. /\ DOMAIN req' = Writers /\ \A v \in Writers \ {w} : req'[v] = req[v]
      /\ req'[w] = [req[w] EXCEPT ![n].receipt = receipt, ![n].op = op]
  BY <1>1 DEF MarksRequest
<1>3. req'[w] = [req[w] EXCEPT ![n] = Marked(req[w][n], receipt, op)]
  BY <1>1, <1>2 DEF Marked, RequestRow
<1>4. req'[w] \in [Requests -> RequestRow]
  BY <1>1, <1>3
<1>5. req' = [v \in Writers |-> req'[v]]
  BY <1>1 DEF MarksRequest
<1>6. req' \in [Writers -> [Requests -> RequestRow]]
  BY <1>1, <1>2, <1>4, <1>5
<1> QED
  <2>1. req'[w][n] = Marked(req[w][n], receipt, op)
    BY <1>1, <1>3
  <2>2. \A m \in Requests \ {n} : req'[w][m] = req[w][m]
    BY <1>1, <1>3
  <2> QED
    BY <1>2, <1>6, <2>1, <2>2

LEMMA BeginAdmitsStep ==
  ASSUME IndInv, NEW t \in Tasks, BeginExecutes(t), Req(t).receipt = "none"
  PROVE  IndInv' /\ Maps
<1>0. AtBegin(t) /\ FirstAdmitted(t) /\ Goes(t, AfterAdmission(t))
  BY DEF BeginExecutes
<1>1. PICK w \in Writers : w = Of(t)
  BY <1>0, Unpacked DEF TaskInv, AtBegin, Admissions
<1>2. /\ Typed /\ DriveTyped /\ QuotaInv /\ WriterInv(w) /\ TaskInv(t)
      /\ task[t].n \in Requests /\ Req(t) = req[w][task[t].n] /\ Req(t).kind # "none"
      /\ task[t].step \in {"begin", "rebegin"} /\ (task[t].step = "rebegin" => lock[w] = t)
  BY <1>0, <1>1, AtAdmission, Unpacked
<1>3. PICK n \in Requests : n = task[t].n
  BY <1>2
<1> DEFINE k == req[w][n].kind
           x == IF k = "abort" THEN [Renewed(writer[w]) EXCEPT !.state = "aborting"] ELSE writer[w]
<1>4. /\ writer[w] \in WriterRow /\ req[w][n] \in RequestRow
      /\ req[w][n].receipt = "none" /\ req[w][n].fresh /\ k # "none"
      /\ FenceLive(w, k) /\ \A m \in Requests : req[w][m].receipt # "pending"
      /\ IF k = "range" THEN req[w][n].op = "planned" ELSE RangesApplied(w)
  BY <1>0, <1>1, <1>2, <1>3, RowTypes DEF FirstAdmitted, Pending
<1>5. writer[w].state \in Active /\ payload[w].state \in {"staging", "finalized"} /\ Admits(w, k)
  BY <1>2, <1>4, LiveFence
<1>6. req[w][n].waiting /\ writer[w].state # "committing"
  BY <1>2, <1>4 DEF WriterInv, RequestInv
<1>7. /\ x \in WriterRow /\ x.token = writer[w].token /\ x.reserved = writer[w].reserved
      /\ x.state = IF k = "abort" THEN "aborting" ELSE writer[w].state
      /\ k # "abort" => x = writer[w]
  <2>1. CASE k # "abort"
    BY <1>4, <2>1 DEF WriterRow
  <2>2. CASE k = "abort"
    <3>1. "aborting" \in Active /\ x = [Renewed(writer[w]) EXCEPT !.state = "aborting"]
      BY <2>2 DEF Active
    <3> QED
      BY <1>4, <2>2, <3>1, RenewedStateRow
  <2> QED
    BY <2>1, <2>2
<1>a. PICK c \in Receipts : c = "pending"
  BY DEF Receipts
<1>b. PICK o \in Ops : o = IF req[w][n].op = "planned" THEN "executing" ELSE req[w][n].op
  BY <1>4 DEF Ops, RequestRow
<1> DEFINE z == Marked(req[w][n], c, o)
<1>8. /\ z \in RequestRow /\ z.kind = k /\ z.waiting = req[w][n].waiting /\ z.fresh = req[w][n].fresh
      /\ z.receipt = "pending" /\ z.op = IF req[w][n].op = "planned" THEN "executing" ELSE req[w][n].op
  <2>1. PICK r \in RequestRow : r = req[w][n]
    BY <1>4
  <2> HIDE DEF x
  <2>2. /\ Marked(r, c, o) \in RequestRow /\ Marked(r, c, o).kind = r.kind
        /\ Marked(r, c, o).waiting = r.waiting /\ Marked(r, c, o).fresh = r.fresh
        /\ Marked(r, c, o).receipt = c /\ Marked(r, c, o).op = o
    BY MarkedRow
  <2> QED
    BY <2>1, <2>2, <1>a, <1>b
<1>9. /\ writer' = [writer EXCEPT ![w] = x]
      /\ MarksRequest(w, n, c, o)
  <2>1. Req(t).kind = k
    BY <1>2, <1>3
  <2>2. writer' = [writer EXCEPT ![w] = x]
    BY <1>1, <1>2, <2>1 DEF BeginExecutes, Typed
  <2>3. MarksRequest(w, n, c, o)
    BY <1>1, <1>3, <1>a, <1>b DEF BeginExecutes, MarksRequest
  <2> QED
    BY <2>2, <2>3
<1> HIDE DEF x
<1>10. /\ writer' \in [Writers -> WriterRow] /\ writer'[w] = x
       /\ \A v \in Writers \ {w} : writer'[v] = writer[v]
  BY <1>2, <1>7, <1>9, WriterUpdate
<1>11. /\ req' \in [Writers -> [Requests -> RequestRow]]
       /\ req'[w][n] = z /\ \A m \in Requests \ {n} : req'[w][m] = req[w][m]
       /\ \A v \in Writers \ {w} : req'[v] = req[v]
  BY <1>2, <1>8, <1>9, MarkedUpdate
<1> HIDE DEF z
<1>12. PICK s \in Steps : s = AfterAdmission(t) /\ s \in {"lock", "io"} /\ (s = "io" => task[t].step = "rebegin")
  BY <1>2 DEF AfterAdmission, Steps
<1>13. /\ task' \in [Tasks -> Task] /\ \A u \in Tasks \ {t} : task'[u] = task[u]
       /\ task'[t].step = s /\ task'[t].n = task[t].n /\ Of(t)' = Of(t)
  BY <1>0, <1>2, <1>12, GoesTask
<1>14. UNCHANGED <<handle, payload, manifest, job, conflict, drive, head, cow, object, lock, faults>>
  BY DEF BeginExecutes, disk
<1>15. Typed' /\ DriveTyped' /\ \A u \in Tasks \ {t} : LocksKept(u)
  BY <1>2, <1>10, <1>11, <1>13, <1>14 DEF Typed, DriveTyped, LocksKept
<1>16. QuotaInv'
  <2>1. ReservedKept
    BY <1>7, <1>10 DEF ReservedKept
  <2> QED
    BY <1>2, <1>14, <2>1, QuotaFrame
<1>17. Apart(w) /\ DiskKept(w)
  BY <1>10, <1>11, <1>14 DEF Apart, DiskKept
<1>18. KindsKept
  BY <1>8, <1>11 DEF KindsKept
<1>19. PendingKept(w)
  BY <1>8, <1>11, <1>14 DEF PendingKept
<1>20. TaskInv(t)'
  <2>1. Req(t)' = z
    BY <1>1, <1>3, <1>11, <1>13 DEF Req
  <2> QED
    BY <1>1, <1>2, <1>4, <1>5, <1>8, <1>12, <1>13, <1>14, <2>1 DEF TaskInv, RequestSteps, LockedSteps
<1>21. RowInv(w)'
  <2>1. CASE k # "abort"
    <3>1. RowKept(w)
      BY <1>5, <1>7, <1>10, <1>14, <2>1 DEF RowKept, JobKept
    <3> QED
      BY <1>2, <1>17, <3>1, RowFrame DEF WriterInv
  <2>2. CASE k = "abort"
    BY <1>2, <1>5, <1>7, <1>10, <1>14, <2>2 DEF WriterInv, RowInv, Active, Alive
  <2> QED
    BY <2>1, <2>2
<1>22. RequestInv(w)'
  <2>1. RangesApplied(w)' <=> RangesApplied(w)
    BY <1>4, <1>8, <1>11 DEF RangesApplied
  <2>2. RequestInv(w)
    BY <1>2 DEF WriterInv
  <2>3. /\ x.state \notin {"none", "committing", "committed", "conflicted"}
        /\ k = "finalize" => x.state # "open"
        /\ k = "range" => x.state = "open"
        /\ x.state = writer[w].state \/ x.state = "aborting"
    BY <1>5, <1>6, <1>7 DEF Admits, Active
  <2>4. \A m \in Requests :
         LET r == req'[w][m] IN
          /\ r.kind = "none" => r.receipt = "none" /\ ~r.waiting
          /\ r.kind # "range" => r.op = "none"
          /\ r.fresh => r.waiting
          /\ r.receipt = "pending" => r.waiting
          /\ r.kind = "range" /\ payload'[w].state # "deleted" => <<r.receipt, r.op>> \in RangeStages
          /\ r.receipt = "pending" => m = n
          /\ r.receipt # "none" /\ r.kind = "abort" => x.state \notin Alive
          /\ r.receipt = "pending" /\ r.kind = "finalize" => x.state # "open"
          /\ r.receipt = "cleanup" => payload'[w].state = "deleted"
    <3> SUFFICES ASSUME NEW m \in Requests
                 PROVE  LET r == req'[w][m] IN
          /\ r.kind = "none" => r.receipt = "none" /\ ~r.waiting
          /\ r.kind # "range" => r.op = "none"
          /\ r.fresh => r.waiting
          /\ r.receipt = "pending" => r.waiting
          /\ r.kind = "range" /\ payload'[w].state # "deleted" => <<r.receipt, r.op>> \in RangeStages
          /\ r.receipt = "pending" => m = n
          /\ r.receipt # "none" /\ r.kind = "abort" => x.state \notin Alive
          /\ r.receipt = "pending" /\ r.kind = "finalize" => x.state # "open"
          /\ r.receipt = "cleanup" => payload'[w].state = "deleted"
      OBVIOUS
    <3>1. CASE m # n
      BY <1>4, <1>11, <1>14, <2>2, <2>3, <3>1 DEF RequestInv, Alive
    <3>2. CASE m = n
      BY <1>4, <1>6, <1>7, <1>8, <1>11, <2>2, <2>3, <3>2 DEF RequestInv, RangeStages, Alive
    <3> QED
      BY <3>1, <3>2
  <2>5. \A l, m \in Requests :
          LET r == req'[w] IN
          /\ l < m /\ r[m].kind # "none" => r[l].kind # "none"
          /\ l < m /\ r[l].kind = "range" /\ r[l].op # "applied" => r[m].kind = "none"
          /\ r[l].waiting /\ r[m].waiting => l = m
    BY <1>4, <1>8, <1>11, <2>2 DEF RequestInv
  <2>6. req'[w][n].kind # "range" => RangesApplied(w)'
    BY <1>4, <1>8, <1>11, <2>1
  <2>7. x.state = "flushing" => RangesApplied(w)'
    BY <2>1, <2>2, <2>3 DEF RequestInv
  <2> QED
    BY <1>10, <2>3, <2>4, <2>5, <2>6, <2>7 DEF RequestInv
<1>23. BytesInv(w)'
  <2>1. LastApplied(w)' = LastApplied(w)
    <3>1. {m \in Requests : req'[w][m].kind = "range" /\ req'[w][m].op = "applied"}
            = {m \in Requests : req[w][m].kind = "range" /\ req[w][m].op = "applied"}
      BY <1>8, <1>11
    <3> QED
      BY <3>1 DEF LastApplied
  <2>2. Bytes(w)' = Bytes(w)
    BY <1>14 DEF Bytes
  <2>3. \A m \in Requests : /\ req'[w][m].op = "io_completed" => req[w][m].op = "io_completed"
                            /\ req[w][m].op \in {"executing", "io_completed"} =>
                                 req'[w][m].op \in {"executing", "io_completed"}
    BY <1>8, <1>11
  <2>4. /\ writer'[w].state \in Alive => writer[w].state \in Alive
        /\ writer'[w].state = "open" => writer[w].state = "open"
        /\ writer'[w].state \notin {"committing", "committed", "conflicted"}
    BY <1>5, <1>6, <1>7, <1>10 DEF Alive, Active
  <2> QED
    BY <1>2, <1>14, <2>1, <2>2, <2>3, <2>4 DEF WriterInv, BytesInv
<1>24. Viewed(w)
  <2>1. LastApplied(w)' = LastApplied(w)
    <3>1. {m \in Requests : req'[w][m].kind = "range" /\ req'[w][m].op = "applied"}
            = {m \in Requests : req[w][m].kind = "range" /\ req[w][m].op = "applied"}
      BY <1>8, <1>11
    <3> QED
      BY <3>1 DEF LastApplied
  <2>2. CASE k = "abort"
    BY <1>2, <1>5, <1>7, <1>10, <1>14, <2>1, <2>2, GivenUp DEF WriterInv
  <2>3. CASE k # "abort"
    BY <1>7, <1>10, <1>14, <2>1, <2>3, SameView DEF Viewed
  <2> QED
    BY <2>2, <2>3
<1> QED
  BY <1>13, <1>14, <1>15, <1>16, <1>17, <1>18, <1>19, <1>20, <1>21, <1>22, <1>23, <1>24, TaskStep DEF WriterInv

LEMMA BeginExecutesStep ==
  ASSUME IndInv, NEW t \in Tasks, BeginExecutes(t)
  PROVE  IndInv' /\ Maps
<1>1. Req(t).receipt \in {"pending", "none"}
  BY DEF BeginExecutes
<1> QED
  BY <1>1, BeginRetriesStep, BeginAdmitsStep

LEMMA BeginFencesStep ==
  ASSUME IndInv, NEW t \in Tasks, BeginFences(t)
  PROVE  IndInv' /\ Maps
<1>0. AtBegin(t) /\ Goes(t, "claim") /\ Req(t).receipt = "pending" /\ RetryFenced(t)
  BY DEF BeginFences
<1>1. PICK w \in Writers : w = Of(t)
  BY <1>0, Unpacked DEF TaskInv, AtBegin, Admissions
<1>2. /\ Typed /\ DriveTyped /\ QuotaInv /\ WriterInv(w) /\ TaskInv(t)
      /\ task[t].n \in Requests /\ Req(t) = req[w][task[t].n] /\ Req(t).kind # "none"
  BY <1>0, <1>1, AtAdmission, Unpacked
<1>3. PICK n \in Requests : n = task[t].n
  BY <1>2
<1> DEFINE x == [writer[w] EXCEPT !.state = IF @ \in Active THEN "aborting" ELSE @]
           y == Enqueued(w, n)
<1>4. /\ writer[w] \in WriterRow /\ job[w] \in JobRow /\ req[w][n] \in RequestRow
      /\ req[w][n].receipt = "pending" /\ req[w][n].token = writer[w].token
      /\ writer[w].state \in Active \cup Fenced
  BY <1>0, <1>1, <1>2, <1>3, RowTypes DEF BeginFences, RetryFenced
\* The token of a request is that of its writer before it was given up.
<1>5. writer[w].state \in Active \cup {"aborted"}
  <2>1. req[w][n].token # 2 /\ req[w][n].token # 3
    BY <1>4 DEF RequestRow
  <2>2. writer[w].state \notin {"expired", "conflicted"}
    BY <1>2, <1>4, <2>1 DEF WriterInv, RowInv
  <2> QED
    BY <1>4, <2>2 DEF Active, Fenced
<1>6. /\ x \in WriterRow /\ x.token = writer[w].token /\ x.reserved = writer[w].reserved
      /\ x.lease = writer[w].lease
      /\ writer[w].state \in Active => x.state = "aborting"
      /\ writer[w].state = "aborted" => x.state = "aborted"
  BY <1>4 DEF WriterRow, Active, Fenced
<1>7. /\ y \in JobRow
      /\ job[w].state = "none" => y.state = "pending"
      /\ job[w].state # "none" => y.state = job[w].state
  <2>1. n \in 0..MaxRequests
    BY NfsAssumption DEF Requests
  <2> QED
    BY <1>4, <2>1, EnqueuedRow
<1>8. /\ writer' = [writer EXCEPT ![w] = x] /\ job' = [job EXCEPT ![w] = y]
      /\ lock' = [lock EXCEPT ![w] = IF lock[w] = t THEN NoTask ELSE lock[w]]
      /\ UNCHANGED <<handle, payload, manifest, req, conflict, drive, head, cow, object, faults>>
  BY <1>1, <1>2, <1>3 DEF BeginFences, Typed
<1> HIDE DEF x, y
<1>9. /\ writer' \in [Writers -> WriterRow] /\ writer'[w] = x
      /\ \A v \in Writers \ {w} : writer'[v] = writer[v]
  BY <1>2, <1>6, <1>8, WriterUpdate
<1>10. /\ job' \in [Writers -> JobRow] /\ job'[w] = y
       /\ \A v \in Writers \ {w} : job'[v] = job[v]
  BY <1>2, <1>7, <1>8 DEF Typed
<1>11. /\ lock' \in [Writers -> Tasks \cup {NoTask}]
       /\ \A u \in Tasks \ {t} : LocksKept(u)
  BY <1>2, <1>8 DEF Typed, LocksKept
<1>12. /\ task' \in [Tasks -> Task] /\ \A u \in Tasks \ {t} : task'[u] = task[u]
       /\ task'[t].step = "claim" /\ task'[t].n = task[t].n /\ Of(t)' = Of(t)
  <2>1. "claim" \in Steps
    BY DEF Steps
  <2> QED
    BY <1>0, <1>2, <2>1, GoesTask
<1>13. Typed' /\ DriveTyped'
  BY <1>2, <1>8, <1>9, <1>10, <1>11, <1>12 DEF Typed, DriveTyped
<1>14. QuotaInv'
  <2>1. ReservedKept
    BY <1>6, <1>9 DEF ReservedKept
  <2> QED
    BY <1>2, <1>8, <2>1, QuotaFrame
<1>15. Apart(w) /\ KindsKept /\ PendingKept(w) /\ DiskKept(w)
  BY <1>8, <1>9, <1>10 DEF Apart, KindsKept, PendingKept, DiskKept
<1>16. TaskInv(t)'
  <2>1. Req(t)' = Req(t)
    BY <1>8, <1>12 DEF Req
  <2> QED
    BY <1>1, <1>2, <1>12, <2>1 DEF TaskInv, RequestSteps, LockedSteps
<1>17. WriterInv(w)'
  <2>1. CASE writer[w].state \in Active
    BY <1>2, <1>6, <1>7, <1>8, <1>9, <1>10, <1>15, <2>1, FencedInv
  <2>2. CASE writer[w].state = "aborted"
    <3>1. job[w].state # "none" /\ ~writer[w].lease
      BY <1>2, <2>2 DEF WriterInv, RowInv, Active
    <3>2. RowKept(w)
      BY <1>6, <1>7, <1>8, <1>9, <1>10, <2>2, <3>1 DEF RowKept, JobKept
    <3>3. /\ OpsKept(w) /\ WaitingKept(w) /\ NoneNewWaiting(w) /\ DeletionKept(w) /\ StagesKept(w)
      BY <1>2, <1>8 DEF OpsKept, WaitingKept, NoneNewWaiting, DeletionKept, StagesKept, WriterInv, RequestInv
    <3>4. RowInv(w)'
      BY <1>2, <1>15, <3>2, RowFrame DEF WriterInv
    <3>5. RequestInv(w)'
      BY <1>2, <3>2, <3>3, RequestFrame DEF WriterInv, RowKept
    <3>6. BytesInv(w)'
      BY <1>2, <1>15, <3>2, <3>3, BytesFrame DEF WriterInv, RowKept, JobKept
    <3> QED
      BY <3>4, <3>5, <3>6 DEF WriterInv
  <2> QED
    BY <1>5, <2>1, <2>2
<1>18. Viewed(w)
  <2>1. LastApplied(w)' = LastApplied(w)
    BY <1>8, AppliedFrame DEF StagesKept
  <2>2. CASE writer[w].state \in Active
    <3>1. payload[w].state # "referenced"
      BY <1>2, <2>2 DEF WriterInv, RowInv, Active
    <3> QED
      BY <1>2, <1>6, <1>8, <1>9, <2>1, <2>2, <3>1, GivenUp DEF WriterInv
  <2>3. CASE writer[w].state = "aborted"
    BY <1>6, <1>8, <1>9, <2>1, <2>3, SameView DEF Viewed
  <2> QED
    BY <1>5, <2>2, <2>3
<1> QED
  BY <1>8, <1>11, <1>12, <1>13, <1>14, <1>15, <1>16, <1>17, <1>18, TaskStep

-----------------------------------------------------------------------------
(* Completion *)

\* The request that is completed is the one that is pending, and the lock is let go.
LEMMA CompletionIs ==
  ASSUME IndInv, NEW t \in Tasks, NEW w \in Writers, w = Of(t), NEW n \in Requests, n = task[t].n,
         CompleteOperation(t)
  PROVE  /\ Typed /\ WriterInv(w) /\ TaskInv(t) /\ task[t].step = "done"
         /\ req[w][n] \in RequestRow /\ req[w][n].receipt = "pending" /\ req[w][n].waiting
         /\ req[w][n].kind # "none"
         /\ req' \in [Writers -> [Requests -> RequestRow]]
         /\ req'[w][n].kind = req[w][n].kind /\ req'[w][n].receipt = "done"
         /\ req'[w][n].waiting = req[w][n].waiting /\ req'[w][n].fresh = req[w][n].fresh
         /\ req'[w][n].op = IF req[w][n].op = "executing" THEN "io_completed" ELSE req[w][n].op
         /\ \A m \in Requests \ {n} : req'[w][m] = req[w][m]
         /\ \A v \in Writers \ {w} : req'[v] = req[v]
         /\ task' \in [Tasks -> Task] /\ lock' \in [Writers -> Tasks \cup {NoTask}]
         /\ TaskInv(t)' /\ \A u \in Tasks \ {t} : task'[u] = task[u] /\ LocksKept(u)
<1>1. /\ Typed /\ WriterInv(w) /\ TaskInv(t) /\ task[t].step = "done" /\ Ends(t)
      /\ req[w][n] \in RequestRow
  BY Unpacked, RowTypes DEF CompleteOperation
<1>2. Req(t) = req[w][n] /\ req[w][n].receipt = "pending" /\ req[w][n].kind # "none"
  BY AtIo, <1>1
<1>3. req[w][n].waiting
  BY <1>1, <1>2 DEF WriterInv, RequestInv
<1>4. PICK c \in Receipts : c = "done"
  BY DEF Receipts
<1>5. PICK o \in Ops : o = IF req[w][n].op = "executing" THEN "io_completed" ELSE req[w][n].op
  BY <1>1 DEF Ops, RequestRow
<1>6. PICK r \in RequestRow : r = req[w][n]
  BY <1>1
<1>7. /\ Marked(r, c, o) \in RequestRow /\ Marked(r, c, o).kind = r.kind
      /\ Marked(r, c, o).waiting = r.waiting /\ Marked(r, c, o).fresh = r.fresh
      /\ Marked(r, c, o).receipt = c /\ Marked(r, c, o).op = o
  BY MarkedRow
<1>8. MarksRequest(w, n, c, o)
  BY <1>4, <1>5 DEF CompleteOperation, MarksRequest
<1>9. /\ req' \in [Writers -> [Requests -> RequestRow]]
      /\ req'[w][n] = Marked(req[w][n], c, o)
      /\ \A m \in Requests \ {n} : req'[w][m] = req[w][m]
      /\ \A v \in Writers \ {w} : req'[v] = req[v]
  BY <1>1, <1>6, <1>7, <1>8, MarkedUpdate
<1>10. /\ task' \in [Tasks -> Task] /\ lock' \in [Writers -> Tasks \cup {NoTask}]
       /\ TaskInv(t)' /\ \A u \in Tasks \ {t} : task'[u] = task[u] /\ LocksKept(u)
  BY <1>1, EndsTask
<1>11. /\ req'[w][n].kind = req[w][n].kind /\ req'[w][n].receipt = "done"
       /\ req'[w][n].waiting = req[w][n].waiting /\ req'[w][n].fresh = req[w][n].fresh
       /\ req'[w][n].op = IF req[w][n].op = "executing" THEN "io_completed" ELSE req[w][n].op
  BY <1>4, <1>5, <1>6, <1>7, <1>9
<1> QED
  BY <1>1, <1>2, <1>3, <1>9, <1>10, <1>11

\* What the completion of each kind of request does to the state of its writer.
FinishesAs(w, kind) ==
  \/ kind = "range" /\ writer'[w].state = writer[w].state
  \/ /\ kind = "flush" /\ writer[w].state \in {"open", "flushing"}
     /\ writer'[w].state = "flushing"
  \/ kind = "finalize" /\ writer[w].state = "flushing" /\ writer'[w].state = "committing"
  \/ kind = "abort" /\ writer[w].state = "aborting" /\ writer'[w].state = "aborted"

LEMMA CompletedRequests ==
  ASSUME IndInv, NEW t \in Tasks, NEW w \in Writers, w = Of(t), NEW n \in Requests, n = task[t].n,
         CompleteOperation(t), DeletionKept(w), FinishesAs(w, req[w][n].kind)
  PROVE  RequestInv(w)' /\ LastApplied(w)' = LastApplied(w) /\ KindsKept
<1> DEFINE z == req'[w][n]
<1>1. /\ RequestInv(w) /\ req[w][n].receipt = "pending" /\ req[w][n].waiting
      /\ z.kind = req[w][n].kind /\ z.receipt = "done" /\ req[w][n].kind # "none"
      /\ z.waiting = req[w][n].waiting /\ z.fresh = req[w][n].fresh
      /\ z.op = IF req[w][n].op = "executing" THEN "io_completed" ELSE req[w][n].op
      /\ \A m \in Requests \ {n} : req'[w][m] = req[w][m]
      /\ \A v \in Writers \ {w} : req'[v] = req[v]
  BY CompletionIs DEF WriterInv
<1>2. KindsKept
  BY <1>1 DEF KindsKept
<1>3. RangesApplied(w)' <=> RangesApplied(w)
  BY <1>1 DEF RangesApplied
<1>4. LastApplied(w)' = LastApplied(w)
  <2>1. {m \in Requests : req'[w][m].kind = "range" /\ req'[w][m].op = "applied"}
          = {m \in Requests : req[w][m].kind = "range" /\ req[w][m].op = "applied"}
    BY <1>1
  <2> QED
    BY <2>1 DEF LastApplied
<1>5. /\ writer[w].state \notin {"none", "committing", "committed", "conflicted"}
      /\ writer'[w].state \in Alive => writer[w].state \in Alive
      /\ writer'[w].state = "open" => writer[w].state = "open"
      /\ req[w][n].kind # "range" => RangesApplied(w)
      /\ writer'[w].state \in {"flushing", "committing"} => RangesApplied(w)
      /\ writer'[w].state \notin {"none", "committed", "conflicted"}
      /\ req[w][n].kind = "abort" => writer'[w].state \notin Alive
  <2>1. /\ writer[w].state \notin {"none", "committing", "committed", "conflicted"}
        /\ req[w][n].kind # "range" => RangesApplied(w)
        /\ writer[w].state = "flushing" => RangesApplied(w)
    BY <1>1 DEF RequestInv
  <2>2. CASE req[w][n].kind = "range" /\ writer'[w].state = writer[w].state
    BY <2>1, <2>2
  <2>3. CASE /\ req[w][n].kind = "flush" /\ writer[w].state \in {"open", "flushing"}
             /\ writer'[w].state = "flushing"
    BY <2>1, <2>3 DEF Alive
  <2>4. CASE /\ req[w][n].kind = "finalize" /\ writer[w].state = "flushing"
             /\ writer'[w].state = "committing"
    BY <2>1, <2>4 DEF Alive
  <2>5. CASE /\ req[w][n].kind = "abort" /\ writer'[w].state = "aborted"
    BY <2>1, <2>5 DEF Alive
  <2> QED
    BY <2>2, <2>3, <2>4, <2>5 DEF FinishesAs
<1>6. ASSUME NEW m \in Requests
      PROVE  LET r == req'[w][m] IN
             /\ r.kind = "none" => r.receipt = "none" /\ ~r.waiting
             /\ r.kind # "range" => r.op = "none"
             /\ r.fresh => r.waiting
             /\ r.receipt # "pending"
             /\ r.kind = "range" /\ payload'[w].state # "deleted" => <<r.receipt, r.op>> \in RangeStages
             /\ r.receipt # "none" /\ r.kind = "abort" => writer'[w].state \notin Alive
             /\ r.receipt = "cleanup" => payload'[w].state = "deleted"
  <2>1. CASE m # n
    <3>1. req'[w][m] = req[w][m] /\ req[w][m].receipt # "pending"
      BY <1>1, <2>1 DEF RequestInv
    <3>2. LET r == req[w][m] IN
          /\ r.kind = "none" => r.receipt = "none" /\ ~r.waiting
          /\ r.kind # "range" => r.op = "none"
          /\ r.fresh => r.waiting
          /\ r.kind = "range" /\ payload[w].state # "deleted" => <<r.receipt, r.op>> \in RangeStages
          /\ r.receipt # "none" /\ r.kind = "abort" => writer[w].state \notin Alive
          /\ r.receipt = "cleanup" => payload[w].state = "deleted"
      BY <1>1 DEF RequestInv
    <3> QED
      BY <1>5, <3>1, <3>2 DEF DeletionKept
  <2>2. CASE m = n
    <3>1. req[w][n].kind = "range" /\ payload'[w].state # "deleted" => req[w][n].op = "executing"
      BY <1>1 DEF RequestInv, RangeStages, DeletionKept
    <3>2. req[w][n].kind # "range" => req[w][n].op = "none"
      BY <1>1 DEF RequestInv
    <3> QED
      BY <1>1, <1>5, <2>2, <3>1, <3>2 DEF RangeStages
  <2> QED
    BY <2>1, <2>2
<1>7. \A l, m \in Requests :
        LET r == req'[w] IN
        /\ l < m /\ r[m].kind # "none" => r[l].kind # "none"
        /\ l < m /\ r[l].kind = "range" /\ r[l].op # "applied" => r[m].kind = "none"
        /\ r[l].waiting /\ r[m].waiting => l = m
  <2>1. ASSUME NEW m \in Requests
        PROVE  /\ req'[w][m].kind = req[w][m].kind
               /\ req'[w][m].waiting = req[w][m].waiting
               /\ req'[w][m].op = "applied" <=> req[w][m].op = "applied"
    <3>1. CASE m = n
      <4>1. z.op = "applied" <=> req[w][n].op = "applied"
        BY <1>1
      <4> QED
        BY <1>1, <3>1, <4>1
    <3>2. CASE m # n
      <4>1. req'[w][m] = req[w][m]
        BY <1>1, <3>2
      <4> QED
        BY <4>1
    <3> QED
      BY <3>1, <3>2
  <2>2. \A l, m \in Requests :
          LET r == req[w] IN
          /\ l < m /\ r[m].kind # "none" => r[l].kind # "none"
          /\ l < m /\ r[l].kind = "range" /\ r[l].op # "applied" => r[m].kind = "none"
          /\ r[l].waiting /\ r[m].waiting => l = m
    BY <1>1 DEF RequestInv
  <2> QED
    <3> SUFFICES ASSUME NEW l \in Requests, NEW m \in Requests
                 PROVE  LET r == req'[w] IN
                        /\ l < m /\ r[m].kind # "none" => r[l].kind # "none"
                        /\ l < m /\ r[l].kind = "range" /\ r[l].op # "applied" => r[m].kind = "none"
                        /\ r[l].waiting /\ r[m].waiting => l = m
      OBVIOUS
    <3> QED
      BY <2>1, <2>2
<1>8. writer'[w].state = "committing" => \E m \in Requests : req'[w][m].waiting /\ req'[w][m].receipt = "done"
  BY <1>1
<1>9. RequestInv(w)'
  BY <1>3, <1>5, <1>6, <1>7, <1>8 DEF RequestInv
<1> QED
  BY <1>2, <1>4, <1>9

LEMMA CompletionStep ==
  ASSUME IndInv, NEW t \in Tasks, NEW w \in Writers, w = Of(t), NEW n \in Requests, n = task[t].n,
         CompleteOperation(t), DeletionKept(w), FinishesAs(w, req[w][n].kind),
         writer' \in [Writers -> WriterRow], payload' \in [Writers -> PayloadRow],
         manifest' \in [Writers -> Content \cup {Absent}], job' \in [Writers -> JobRow],
         \A v \in Writers \ {w} : /\ writer'[v] = writer[v] /\ payload'[v] = payload[v]
                                  /\ job'[v] = job[v],
         DriveTyped', QuotaInv', RowInv(w)', BytesInv(w)', Viewed(w)
  PROVE  IndInv' /\ Maps
<1>1. /\ Typed /\ task[t].step \in LockedSteps
      /\ req' \in [Writers -> [Requests -> RequestRow]] /\ \A v \in Writers \ {w} : req'[v] = req[v]
      /\ task' \in [Tasks -> Task] /\ lock' \in [Writers -> Tasks \cup {NoTask}]
      /\ TaskInv(t)' /\ \A u \in Tasks \ {t} : task'[u] = task[u] /\ LocksKept(u)
  BY CompletionIs DEF LockedSteps
<1>2. UNCHANGED <<handle, conflict, head, cow, object, faults>>
  BY DEF CompleteOperation
<1>3. Typed'
  BY <1>1, <1>2 DEF Typed
<1>4. Apart(w)
  BY <1>1, <1>2 DEF Apart
<1>5. KindsKept /\ WriterInv(w)'
  BY CompletedRequests DEF WriterInv
<1> QED
  BY <1>1, <1>3, <1>4, <1>5, LockedStep

\* The rows before a completion, and what the invariants say of them.
LEMMA CompletionFrom ==
  ASSUME IndInv, NEW t \in Tasks, NEW w \in Writers, w = Of(t), NEW n \in Requests, n = task[t].n,
         CompleteOperation(t)
  PROVE  /\ Typed /\ DriveTyped /\ QuotaTyped /\ QuotaInv /\ RowInv(w) /\ RequestInv(w) /\ BytesInv(w)
         /\ TaskInv(t) /\ task[t].step = "done" /\ Req(t) = req[w][n] /\ Finishable(t)
         /\ writer[w] \in WriterRow /\ payload[w] \in PayloadRow /\ job[w] \in JobRow
         /\ req[w][n].receipt = "pending" /\ payload[w].state # "deleted"
         /\ job[w].state \notin {"physical_deleted", "completed"}
         /\ UNCHANGED <<handle, conflict, head, cow, object, faults>>
<1>1. Typed /\ DriveTyped /\ QuotaTyped /\ QuotaInv /\ WriterInv(w) /\ TaskInv(t)
  BY Unpacked
<1>2. /\ task[t].step = "done" /\ Finishable(t)
      /\ UNCHANGED <<handle, conflict, head, cow, object, faults>>
  BY DEF CompleteOperation
<1>3. /\ Req(t) = req[w][n] /\ req[w][n].receipt = "pending" /\ payload[w].state # "deleted"
      /\ job[w].state \notin {"physical_deleted", "completed"}
  BY <1>2, AtIo
<1>4. writer[w] \in WriterRow /\ payload[w] \in PayloadRow /\ job[w] \in JobRow
  BY <1>1, RowTypes
<1> QED
  BY <1>1, <1>2, <1>3, <1>4 DEF WriterInv

LEMMA FinishRangeStep ==
  ASSUME IndInv, NEW t \in Tasks, NEW w \in Writers, w = Of(t), NEW n \in Requests, n = task[t].n,
         CompleteOperation(t), FinishRange(t)
  PROVE  IndInv' /\ Maps
<1>1. /\ Typed /\ DriveTyped /\ QuotaInv /\ RowInv(w) /\ RequestInv(w) /\ BytesInv(w)
      /\ TaskInv(t) /\ task[t].step = "done" /\ Req(t) = req[w][n]
      /\ req[w][n].receipt = "pending" /\ payload[w].state # "deleted"
      /\ UNCHANGED <<handle, conflict, head, cow, object, faults>>
  BY CompletionFrom
<1>2. req[w][n].kind = "range" /\ UNCHANGED <<writer, payload, manifest, job, drive>>
  BY <1>1 DEF FinishRange
<1>3. DeletionKept(w) /\ FinishesAs(w, req[w][n].kind)
  BY <1>2 DEF DeletionKept, FinishesAs
<1>4. LastApplied(w)' = LastApplied(w)
  BY <1>3, CompletedRequests
<1>5. RowKept(w) /\ DiskKept(w)
  BY <1>1, <1>2 DEF RowKept, JobKept, DiskKept, RowInv
<1>6. RowInv(w)'
  BY <1>1, <1>5, RowFrame
<1>7. req[w][n].op = "executing"
  BY <1>1, <1>2 DEF RequestInv, RangeStages
\* A range is executed under an open writer only, whose bytes are in the tree.
<1>8. writer[w].state \in Alive => writer[w].state = "open" /\ Bytes(w) = n
  <2> SUFFICES ASSUME writer[w].state \in Alive PROVE writer[w].state = "open" /\ Bytes(w) = n
    OBVIOUS
  <2>1. ~RangesApplied(w)
    BY <1>2, <1>7 DEF RangesApplied
  <2>2. writer[w].state = "open" /\ object[w] = Absent
    BY <1>1, <2>1 DEF RequestInv, BytesInv, Alive
  <2>3. cow[w] = n
    BY <1>1, <1>2 DEF TaskInv
  <2>4. n # Absent
    BY NfsAssumption DEF Requests, Absent
  <2> QED
    BY <2>2, <2>3, <2>4 DEF Bytes
<1>9. \A m \in Requests \ {n} : req[w][m].op \notin {"executing", "io_completed"}
  <2> SUFFICES ASSUME NEW m \in Requests \ {n}, req[w][m].op \in {"executing", "io_completed"}
               PROVE  FALSE
    OBVIOUS
  <2>1. req[w][m].kind = "range" /\ req[w][n].kind = "range"
    BY <1>1, <1>2 DEF RequestInv
  <2>2. m < n \/ n < m
    BY NfsAssumption DEF Requests
  <2> QED
    BY <1>1, <1>7, <2>1, <2>2 DEF RequestInv
<1>10. BytesInv(w)'
  <2>1. Bytes(w)' = Bytes(w)
    BY <1>1 DEF Bytes
  <2>2. /\ req'[w][n].op = "io_completed"
        /\ \A m \in Requests \ {n} : req'[w][m].op \notin {"executing", "io_completed"}
    BY <1>7, <1>9, CompletionIs
  <2> QED
    BY <1>1, <1>2, <1>4, <1>8, <2>1, <2>2 DEF BytesInv, Alive
<1>11. QuotaInv' /\ DriveTyped'
  BY <1>1, <1>2, QuotaFrame DEF ReservedKept, DriveTyped
<1>12. /\ writer' \in [Writers -> WriterRow] /\ payload' \in [Writers -> PayloadRow]
       /\ manifest' \in [Writers -> Content \cup {Absent}] /\ job' \in [Writers -> JobRow]
       /\ \A v \in Writers \ {w} : /\ writer'[v] = writer[v] /\ payload'[v] = payload[v]
                                   /\ job'[v] = job[v]
  BY <1>1, <1>2 DEF Typed
<1>13. Viewed(w)
  BY <1>1, <1>2, <1>4, SameView DEF Viewed
<1> QED
  BY <1>3, <1>6, <1>10, <1>11, <1>12, <1>13, CompletionStep

LEMMA FinishFlushStep ==
  ASSUME IndInv, NEW t \in Tasks, NEW w \in Writers, w = Of(t), NEW n \in Requests, n = task[t].n,
         CompleteOperation(t), FinishFlush(t)
  PROVE  IndInv' /\ Maps
<1> DEFINE x == [Renewed(writer[w]) EXCEPT !.state = "flushing"]
<1>1. /\ Typed /\ DriveTyped /\ QuotaInv /\ RowInv(w) /\ RequestInv(w) /\ BytesInv(w)
      /\ Req(t) = req[w][n] /\ Finishable(t) /\ writer[w] \in WriterRow
      /\ UNCHANGED <<handle, conflict, head, cow, object, faults>>
  BY CompletionFrom
<1>2. req[w][n].kind = "flush" /\ UNCHANGED <<payload, job, drive>>
  BY <1>1 DEF FinishFlush
<1>3. writer[w].state \in {"open", "flushing"}
  BY <1>1, <1>2 DEF Finishable
<1>4. /\ x \in WriterRow /\ x.state = "flushing" /\ x.token = writer[w].token
      /\ x.reserved = writer[w].reserved
  <2>1. "flushing" \in Active
    BY DEF Active
  <2> QED
    BY <1>1, <2>1, RenewedStateRow
<1>5. writer' = [writer EXCEPT ![w] = x] /\ manifest' = [manifest EXCEPT ![w] = task[t].seen]
  BY <1>1 DEF FinishFlush, Typed
<1> HIDE DEF x
<1>6. /\ writer' \in [Writers -> WriterRow] /\ writer'[w] = x
      /\ \A v \in Writers \ {w} : writer'[v] = writer[v]
  BY <1>1, <1>4, <1>5, WriterUpdate
<1>7. manifest' \in [Writers -> Content \cup {Absent}]
  <2>1. task[t].seen \in Content \cup {Absent}
    BY <1>1 DEF Typed, Task
  <2> QED
    BY <1>1, <1>5, <2>1 DEF Typed
<1>8. DeletionKept(w) /\ FinishesAs(w, req[w][n].kind)
  BY <1>2, <1>3, <1>4, <1>6 DEF DeletionKept, FinishesAs
<1>9. RowInv(w)'
  BY <1>1, <1>2, <1>3, <1>4, <1>6 DEF RowInv, Active, Alive
<1>10. BytesInv(w)'
  <2>1. req[w][n].op = "none"
    BY <1>1, <1>2 DEF RequestInv
  <2>2. StagesKept(w)
    BY <2>1, CompletionIs DEF StagesKept
  <2>3. DiskKept(w)
    BY <1>1 DEF DiskKept
  <2> QED
    BY <1>1, <1>2, <1>3, <1>4, <1>6, <2>2, <2>3, BytesFrame DEF Alive
<1>11. QuotaInv' /\ DriveTyped'
  <2>1. ReservedKept
    BY <1>4, <1>6 DEF ReservedKept
  <2> QED
    BY <1>1, <1>2, <2>1, QuotaFrame DEF DriveTyped
<1>12. /\ payload' \in [Writers -> PayloadRow] /\ job' \in [Writers -> JobRow]
       /\ \A v \in Writers \ {w} : /\ writer'[v] = writer[v] /\ payload'[v] = payload[v]
                                   /\ job'[v] = job[v]
  BY <1>1, <1>2, <1>6 DEF Typed
<1>13. Viewed(w)
  <2>1. LastApplied(w)' = LastApplied(w)
    BY <1>8, CompletedRequests
  <2> QED
    BY <1>1, <1>2, <1>3, <1>4, <1>6, <2>1, SameView DEF Viewed, Alive
<1> QED
  BY <1>6, <1>7, <1>8, <1>9, <1>10, <1>11, <1>12, <1>13, CompletionStep

LEMMA FinishFinalizeStep ==
  ASSUME IndInv, NEW t \in Tasks, NEW w \in Writers, w = Of(t), NEW n \in Requests, n = task[t].n,
         CompleteOperation(t), FinishFinalize(t)
  PROVE  IndInv' /\ Maps
<1> DEFINE x == [Renewed(writer[w]) EXCEPT !.state = "committing"]
           y == [state |-> "finalized", digest |-> task[t].seen]
<1>1. /\ Typed /\ DriveTyped /\ QuotaInv /\ RowInv(w) /\ RequestInv(w) /\ BytesInv(w)
      /\ TaskInv(t) /\ task[t].step = "done"
      /\ Req(t) = req[w][n] /\ Finishable(t) /\ writer[w] \in WriterRow
      /\ UNCHANGED <<handle, conflict, head, cow, object, faults>>
  BY CompletionFrom
<1>2. req[w][n].kind = "finalize" /\ UNCHANGED <<manifest, job, drive>>
  BY <1>1 DEF FinishFinalize
<1>3. writer[w].state = "flushing" /\ payload[w].state = "staging"
  BY <1>1, <1>2 DEF Finishable
<1>4. /\ x \in WriterRow /\ x.state = "committing" /\ x.token = writer[w].token
      /\ x.reserved = writer[w].reserved
  <2>1. "committing" \in Active
    BY DEF Active
  <2> QED
    BY <1>1, <2>1, RenewedStateRow
<1>5. y \in PayloadRow /\ y.state = "finalized" /\ y.digest = task[t].seen
  <2>1. task[t].seen \in Content \cup {Absent}
    BY <1>1 DEF Typed, Task
  <2> QED
    BY <2>1 DEF PayloadRow
<1>6. writer' = [writer EXCEPT ![w] = x] /\ payload' = [payload EXCEPT ![w] = y]
  BY <1>1 DEF FinishFinalize, Typed
<1> HIDE DEF x, y
<1>7. /\ writer' \in [Writers -> WriterRow] /\ writer'[w] = x
      /\ \A v \in Writers \ {w} : writer'[v] = writer[v]
  BY <1>1, <1>4, <1>6, WriterUpdate
<1>8. /\ payload' \in [Writers -> PayloadRow] /\ payload'[w] = y
      /\ \A v \in Writers \ {w} : payload'[v] = payload[v]
  BY <1>1, <1>5, <1>6 DEF Typed
<1>9. DeletionKept(w) /\ FinishesAs(w, req[w][n].kind)
  BY <1>2, <1>3, <1>4, <1>5, <1>7, <1>8 DEF DeletionKept, FinishesAs
<1>10. RowInv(w)'
  BY <1>1, <1>2, <1>3, <1>4, <1>5, <1>7, <1>8 DEF RowInv, Active, Alive
\* The object that was published is the tree that the last applied write is in.
<1>11. object[w] = task[t].seen /\ object[w] = LastApplied(w) /\ Bytes(w) = LastApplied(w)
  <2>1. object[w] = task[t].seen /\ object[w] # Absent
    BY <1>1, <1>2 DEF TaskInv
  <2>2. RangesApplied(w)
    BY <1>1, <1>3 DEF RequestInv
  <2>3. \A m \in Requests : req[w][m].op \notin {"executing", "io_completed"}
    BY <1>1, <2>2 DEF RequestInv, RangesApplied
  <2>4. Bytes(w) = LastApplied(w)
    BY <1>1, <1>3, <2>3 DEF BytesInv, Alive
  <2> QED
    BY <2>1, <2>4 DEF Bytes
<1>12. BytesInv(w)'
  <2>1. LastApplied(w)' = LastApplied(w)
    BY <1>9, CompletedRequests
  <2>2. Bytes(w)' = Bytes(w)
    BY <1>1 DEF Bytes
  <2>3. \A m \in Requests : req'[w][m].op # "io_completed"
    <3>1. RangesApplied(w) /\ req[w][n].op = "none"
      BY <1>1, <1>2, <1>3 DEF RequestInv
    <3>2. \A m \in Requests : req[w][m].op \notin {"executing", "io_completed"}
      BY <1>1, <3>1 DEF RequestInv, RangesApplied
    <3> QED
      BY <3>1, <3>2, CompletionIs
  <2> QED
    BY <1>1, <1>2, <1>3, <1>4, <1>5, <1>7, <1>8, <1>11, <2>1, <2>2, <2>3 DEF BytesInv, Alive
<1>13. QuotaInv' /\ DriveTyped'
  <2>1. ReservedKept
    BY <1>4, <1>7 DEF ReservedKept
  <2>2. \A v \in Writers : /\ payload'[v].state \in Held <=> payload[v].state \in Held
                           /\ payload'[v].state = "referenced" <=> payload[v].state = "referenced"
    BY <1>3, <1>5, <1>8 DEF Held
  <2> QED
    BY <1>1, <1>2, <2>1, <2>2, QuotaFrame DEF DriveTyped
<1>14. /\ manifest' \in [Writers -> Content \cup {Absent}] /\ job' \in [Writers -> JobRow]
       /\ \A v \in Writers \ {w} : /\ writer'[v] = writer[v] /\ payload'[v] = payload[v]
                                   /\ job'[v] = job[v]
  BY <1>1, <1>2, <1>7, <1>8 DEF Typed
<1>15. Viewed(w)
  <2>1. LastApplied(w)' = LastApplied(w)
    BY <1>9, CompletedRequests
  <2> QED
    BY <1>1, <1>3, <1>4, <1>5, <1>7, <1>8, <2>1, SameView DEF Viewed, Alive
<1> QED
  BY <1>7, <1>8, <1>9, <1>10, <1>12, <1>13, <1>14, <1>15, CompletionStep

LEMMA FinishAbortStep ==
  ASSUME IndInv, NEW t \in Tasks, NEW w \in Writers, w = Of(t), NEW n \in Requests, n = task[t].n,
         CompleteOperation(t), FinishAbort(t)
  PROVE  IndInv' /\ Maps
<1> DEFINE x == Ended(writer[w], "aborted", writer[w].token)
           y == [payload[w] EXCEPT !.state = "abandoned"]
           z == Enqueued(w, 0)
<1>1. /\ Typed /\ DriveTyped /\ QuotaTyped /\ QuotaInv /\ RowInv(w) /\ RequestInv(w) /\ BytesInv(w)
      /\ Req(t) = req[w][n] /\ Finishable(t)
      /\ writer[w] \in WriterRow /\ payload[w] \in PayloadRow /\ job[w] \in JobRow
      /\ job[w].state \notin {"physical_deleted", "completed"}
      /\ UNCHANGED <<handle, conflict, head, cow, object, faults>>
  BY CompletionFrom
<1>2. req[w][n].kind = "abort" /\ UNCHANGED manifest
  BY <1>1 DEF FinishAbort
<1>3. /\ writer[w].state = "aborting" /\ payload[w].state \in {"staging", "finalized"}
      /\ writer[w].token = 1
  BY <1>1, <1>2 DEF Finishable, RowInv, Active
<1>4. /\ x \in WriterRow /\ x.state = "aborted" /\ x.token = 1 /\ x.lease = FALSE
      /\ x.reserved = writer[w].reserved
  BY <1>1, <1>3, EndedRows
<1>5. y \in PayloadRow /\ y.state = "abandoned"
  BY <1>1 DEF PayloadRow
<1>6. /\ z \in JobRow
      /\ job[w].state = "none" => z.state = "pending"
      /\ job[w].state # "none" => z.state = job[w].state
  <2>1. 0 \in 0..MaxRequests
    BY NfsAssumption
  <2> QED
    BY <1>1, <2>1, EnqueuedRow
<1>7. /\ writer' = [writer EXCEPT ![w] = x] /\ payload' = [payload EXCEPT ![w] = y]
      /\ job' = [job EXCEPT ![w] = z]
      /\ drive' = [drive EXCEPT !.reserved = @ - writer[w].reserved]
  BY <1>1 DEF FinishAbort, Typed
<1> HIDE DEF x, y, z
<1>8. /\ writer' \in [Writers -> WriterRow] /\ writer'[w] = x
      /\ \A v \in Writers \ {w} : writer'[v] = writer[v]
  BY <1>1, <1>4, <1>7, WriterUpdate
<1>9. /\ payload' \in [Writers -> PayloadRow] /\ payload'[w] = y
      /\ \A v \in Writers \ {w} : payload'[v] = payload[v]
      /\ job' \in [Writers -> JobRow] /\ job'[w] = z
      /\ \A v \in Writers \ {w} : job'[v] = job[v]
      /\ manifest' \in [Writers -> Content \cup {Absent}]
  BY <1>1, <1>2, <1>5, <1>6, <1>7 DEF Typed
<1>10. DeletionKept(w) /\ FinishesAs(w, req[w][n].kind)
  BY <1>2, <1>3, <1>4, <1>5, <1>8, <1>9 DEF DeletionKept, FinishesAs
<1>11. z.state \notin {"none", "physical_deleted", "completed"}
  BY <1>1, <1>6
<1>12. RowInv(w)'
  BY <1>1, <1>3, <1>4, <1>5, <1>8, <1>9, <1>11 DEF RowInv, Active, Alive
<1>13. BytesInv(w)'
  BY <1>4, <1>8, <1>9, <1>11 DEF BytesInv, Alive
<1>14. QuotaInv' /\ DriveTyped'
  <2>1. ReservedKept
    BY <1>4, <1>8 DEF ReservedKept
  <2>2. payload[w].state \in Held /\ payload'[w].state \notin Held \cup Kept
    BY <1>3, <1>5, <1>9 DEF Held, Kept
  <2> QED
    BY <1>1, <1>7, <1>9, <2>1, <2>2, QuotaRelease DEF DriveTyped
<1>15. Viewed(w)
  <2>1. LastApplied(w)' = LastApplied(w)
    BY <1>10, CompletedRequests
  <2> QED
    BY <1>1, <1>3, <1>4, <1>5, <1>8, <1>9, <2>1, SameView DEF Viewed, Alive
<1> QED
  BY <1>8, <1>9, <1>10, <1>12, <1>13, <1>14, <1>15, CompletionStep

LEMMA CompleteOperationStep ==
  ASSUME IndInv, NEW t \in Tasks, CompleteOperation(t)
  PROVE  IndInv' /\ Maps
<1>1. /\ TaskInv(t) /\ task[t].step = "done"
      /\ FinishRange(t) \/ FinishFlush(t) \/ FinishFinalize(t) \/ FinishAbort(t)
  BY Unpacked DEF CompleteOperation
<1>2. PICK w \in Writers : w = Of(t)
  BY <1>1 DEF TaskInv
<1>3. PICK n \in Requests : n = task[t].n
  BY <1>1 DEF TaskInv, RequestSteps
<1> QED
  BY <1>1, <1>2, <1>3, FinishRangeStep, FinishFlushStep, FinishFinalizeStep, FinishAbortStep

-----------------------------------------------------------------------------
(* The deletion is recorded *)

\* What the task leaves behind in its own row and in the lock.
LEMMA MarkedTask ==
  ASSUME IndInv, NEW t \in Tasks, NEW w \in Writers, w = Of(t), MarkPhysicalDeleted(t)
  PROVE  /\ Typed /\ WriterInv(w) /\ task[t].step \in LockedSteps
         /\ cow[w] = Absent /\ object[w] = Absent
         /\ task' \in [Tasks -> Task] /\ lock' \in [Writers -> Tasks \cup {NoTask}]
         /\ TaskInv(t)' /\ \A u \in Tasks \ {t} : task'[u] = task[u] /\ LocksKept(u)
         /\ UNCHANGED <<handle, manifest, conflict, head, cow, object, faults>>
<1>1. Typed /\ WriterInv(w) /\ TaskInv(t)
  BY Unpacked
<1>2. /\ task[t].step = "deleted" /\ Goes(t, "marked") /\ lock' = [lock EXCEPT ![w] = NoTask]
      /\ UNCHANGED <<handle, manifest, conflict, head, cow, object, faults>>
  BY DEF MarkPhysicalDeleted
<1>3. task[t].step \in LockedSteps /\ cow[w] = Absent /\ object[w] = Absent /\ lock[w] = t
  BY <1>1, <1>2 DEF TaskInv, LockedSteps
<1>4. /\ task' \in [Tasks -> Task] /\ \A u \in Tasks \ {t} : task'[u] = task[u]
      /\ task'[t].step = "marked" /\ Of(t)' = Of(t)
  <2>1. "marked" \in Steps
    BY DEF Steps
  <2> QED
    BY <1>1, <1>2, <2>1, GoesTask
<1>5. lock' \in [Writers -> Tasks \cup {NoTask}] /\ \A u \in Tasks \ {t} : LocksKept(u)
  BY <1>1, <1>2, <1>3 DEF Typed, LocksKept
<1>6. TaskInv(t)'
  BY <1>4 DEF TaskInv, RequestSteps, LockedSteps
<1> QED
  BY <1>1, <1>2, <1>3, <1>4, <1>5, <1>6

LEMMA MarkAgainStep ==
  ASSUME IndInv, NEW t \in Tasks, NEW w \in Writers, w = Of(t), MarkPhysicalDeleted(t),
         job[w].state = "physical_deleted"
  PROVE  IndInv' /\ Maps
<1>1. /\ Typed /\ task[t].step \in LockedSteps
      /\ task' \in [Tasks -> Task] /\ lock' \in [Writers -> Tasks \cup {NoTask}]
      /\ TaskInv(t)' /\ \A u \in Tasks \ {t} : task'[u] = task[u] /\ LocksKept(u)
  BY MarkedTask
<1>2. UNCHANGED <<rows, cow, object, faults>>
  BY DEF MarkPhysicalDeleted, rows
<1>3. Typed'
  BY <1>1, <1>2 DEF Typed, rows
<1>4. /\ Apart(w) /\ KindsKept /\ PendingKept(w) /\ WriterInv(w)' /\ DriveTyped' /\ QuotaInv'
      /\ Viewed(w)
  BY <1>2, RowsSame
<1> QED
  BY <1>1, <1>3, <1>4, LockedStep

LEMMA MarkFirstStep ==
  ASSUME IndInv, NEW t \in Tasks, NEW w \in Writers, w = Of(t), MarkPhysicalDeleted(t),
         job[w].state = "leased"
  PROVE  IndInv' /\ Maps
<1> DEFINE x == IF writer[w].state = "aborting" THEN Ended(writer[w], "aborted", writer[w].token)
                ELSE writer[w]
           y == [payload[w] EXCEPT !.state = "deleted"]
           z == [job[w] EXCEPT !.state = "physical_deleted"]
           q(n) == [req[w][n] EXCEPT !.op = IF @ \in {"planned", "executing", "io_completed"}
                                            THEN "cancelled" ELSE @]
           r == [n \in Requests |-> q(n)]
<1>1. /\ Typed /\ WriterInv(w) /\ task[t].step \in LockedSteps
      /\ cow[w] = Absent /\ object[w] = Absent
      /\ task' \in [Tasks -> Task] /\ lock' \in [Writers -> Tasks \cup {NoTask}]
      /\ TaskInv(t)' /\ \A u \in Tasks \ {t} : task'[u] = task[u] /\ LocksKept(u)
      /\ UNCHANGED <<handle, manifest, conflict, head, cow, object, faults>>
  BY MarkedTask
<1>2. DriveTyped /\ QuotaTyped /\ QuotaInv /\ CleanupAuthority(w)
  BY Unpacked DEF MarkPhysicalDeleted
<1>3. /\ writer[w] \in WriterRow /\ payload[w] \in PayloadRow /\ job[w] \in JobRow
      /\ req[w] \in [Requests -> RequestRow]
  BY <1>1, RowTypes
<1>4. /\ writer[w].state \in {"aborting", "aborted", "expired"}
      /\ payload[w].state \in {"staging", "finalized", "abandoned"}
  <2>1. writer[w].state \in Fenced /\ payload[w].state \in {"staging", "finalized", "abandoned", "deleted"}
    BY <1>2 DEF CleanupAuthority
  <2> QED
    BY <1>1, <2>1 DEF WriterInv, RowInv, Fenced
<1>5. /\ x \in WriterRow /\ x.state \in {"aborted", "expired"} /\ x.token = writer[w].token
      /\ x.state = IF writer[w].state = "aborting" THEN "aborted" ELSE writer[w].state
      /\ x.reserved = writer[w].reserved /\ ~x.lease
  <2>1. CASE writer[w].state = "aborting"
    <3>1. writer[w].token = 1
      BY <1>1, <2>1 DEF WriterInv, RowInv, Active
    <3> DEFINE e == Ended(writer[w], "aborted", writer[w].token)
    <3>2. e \in WriterRow /\ e.state = "aborted" /\ e.token = 1 /\ e.lease = FALSE /\ e.reserved = writer[w].reserved
      BY <1>3, <3>1, EndedRows
    <3> HIDE DEF e
    <3>3. x = e
      BY <2>1 DEF e
    <3> QED
      BY <2>1, <3>1, <3>2, <3>3
  <2>2. CASE writer[w].state # "aborting"
    <3>1. x = writer[w]
      BY <2>2
    <3>2. ~writer[w].lease
      BY <1>1, <1>4, <2>2 DEF WriterInv, RowInv, Active
    <3> QED
      BY <1>3, <1>4, <2>2, <3>1, <3>2
  <2> QED
    BY <2>1, <2>2
<1>6. y \in PayloadRow /\ y.state = "deleted" /\ z \in JobRow /\ z.state = "physical_deleted"
  BY <1>3 DEF PayloadRow, JobRow
<1>7. /\ writer' = [writer EXCEPT ![w] = x] /\ payload' = [payload EXCEPT ![w] = y]
      /\ job' = [job EXCEPT ![w] = z] /\ req' = [req EXCEPT ![w] = r]
  BY <1>1 DEF MarkPhysicalDeleted, Typed
<1>8. \A n \in Requests :
        /\ q(n) \in RequestRow /\ q(n).kind = req[w][n].kind /\ q(n).receipt = req[w][n].receipt
        /\ q(n).waiting = req[w][n].waiting /\ q(n).fresh = req[w][n].fresh
        /\ q(n).op = IF req[w][n].op \in {"planned", "executing", "io_completed"}
                     THEN "cancelled" ELSE req[w][n].op
  BY <1>3 DEF RequestRow
<1> HIDE DEF x, y, z, q
<1>9. /\ r \in [Requests -> RequestRow]
      /\ \A n \in Requests :
           /\ r[n].kind = req[w][n].kind /\ r[n].receipt = req[w][n].receipt
           /\ r[n].waiting = req[w][n].waiting /\ r[n].fresh = req[w][n].fresh
           /\ r[n].op = IF req[w][n].op \in {"planned", "executing", "io_completed"}
                        THEN "cancelled" ELSE req[w][n].op
  BY <1>8
<1> HIDE DEF r
<1>10. /\ writer' \in [Writers -> WriterRow] /\ writer'[w] = x
       /\ \A v \in Writers \ {w} : writer'[v] = writer[v]
  BY <1>1, <1>5, <1>7, WriterUpdate
<1>11. /\ payload' \in [Writers -> PayloadRow] /\ payload'[w] = y
       /\ \A v \in Writers \ {w} : payload'[v] = payload[v]
       /\ job' \in [Writers -> JobRow] /\ job'[w] = z
       /\ \A v \in Writers \ {w} : job'[v] = job[v]
  BY <1>1, <1>6, <1>7 DEF Typed
<1>12. /\ req' \in [Writers -> [Requests -> RequestRow]] /\ req'[w] = r
       /\ \A v \in Writers \ {w} : req'[v] = req[v]
  BY <1>1, <1>7, <1>9 DEF Typed
<1>13. Typed' /\ Apart(w)
  BY <1>1, <1>10, <1>11, <1>12 DEF Typed, Apart
<1>14. KindsKept
  BY <1>9, <1>12 DEF KindsKept
<1>15. QuotaInv' /\ DriveTyped'
  <2>1. ReservedKept
    BY <1>5, <1>10 DEF ReservedKept
  <2>2. drive' = [drive EXCEPT !.reserved = IF HoldsReservation(w) THEN @ - writer[w].reserved ELSE @]
    BY DEF MarkPhysicalDeleted
  <2>3. payload'[w].state \notin Held \cup Kept
    BY <1>6, <1>11 DEF Held, Kept
  <2>4. CASE HoldsReservation(w)
    <3>1. payload[w].state \in Held
      BY <2>4 DEF HoldsReservation, Held
    <3> QED
      BY <1>2, <1>11, <2>1, <2>2, <2>3, <2>4, <3>1, QuotaRelease DEF DriveTyped
  <2>5. CASE ~HoldsReservation(w)
    <3>1. drive' = drive
      BY <1>2, <2>2, <2>5 DEF DriveTyped
    <3>2. payload[w].state = "abandoned"
      BY <1>1, <1>4, <2>5 DEF HoldsReservation, WriterInv, RowInv
    <3>3. \A v \in Writers : /\ payload'[v].state \in Held <=> payload[v].state \in Held
                             /\ payload'[v].state = "referenced" <=> payload[v].state = "referenced"
      BY <1>6, <1>11, <3>2 DEF Held
    <3> QED
      BY <1>2, <2>1, <3>1, <3>3, QuotaFrame DEF DriveTyped
  <2> QED
    BY <2>4, <2>5
<1>16. RowInv(w)'
  BY <1>1, <1>4, <1>5, <1>6, <1>10, <1>11 DEF WriterInv, RowInv, Active, Alive
<1>17. RequestInv(w)'
  <2>1. RangesApplied(w)' <=> RangesApplied(w)
    BY <1>9, <1>12 DEF RangesApplied
  <2>2. RequestInv(w)
    BY <1>1 DEF WriterInv
  <2>3. ASSUME NEW m \in Requests
        PROVE  LET k == req'[w][m] IN
               /\ k.kind = "none" => k.receipt = "none" /\ ~k.waiting
               /\ k.kind # "range" => k.op = "none"
               /\ k.fresh => k.waiting
               /\ k.receipt = "pending" => k.waiting
               /\ k.receipt = "pending" /\ k.kind # "range" => RangesApplied(w)
    <3>1. LET k == req[w][m] IN
          /\ k.kind = "none" => k.receipt = "none" /\ ~k.waiting
          /\ k.kind # "range" => k.op = "none"
          /\ k.fresh => k.waiting
          /\ k.receipt = "pending" => k.waiting
          /\ k.receipt = "pending" /\ k.kind # "range" => RangesApplied(w)
      BY <2>2 DEF RequestInv
    <3> QED
      BY <1>9, <1>12, <3>1
  <2>4. \A l, m \in Requests :
          LET k == req'[w] IN
          /\ l < m /\ k[m].kind # "none" => k[l].kind # "none"
          /\ l < m /\ k[l].kind = "range" /\ k[l].op # "applied" => k[m].kind = "none"
          /\ k[l].receipt = "pending" /\ k[m].receipt = "pending" => l = m
          /\ k[l].waiting /\ k[m].waiting => l = m
    BY <1>9, <1>12, <2>2 DEF RequestInv
  <2>5. /\ payload'[w].state = "deleted" /\ writer'[w].state \in {"aborted", "expired"}
        /\ writer'[w].state \notin Alive
    BY <1>5, <1>6, <1>10, <1>11 DEF Alive
  <2> QED
    BY <2>1, <2>3, <2>4, <2>5 DEF RequestInv
<1>18. BytesInv(w)'
  BY <1>1, <1>5, <1>10 DEF BytesInv, Alive
<1>19. Viewed(w)
  <2>1. LastApplied(w)' = LastApplied(w)
    <3>1. {n \in Requests : req'[w][n].kind = "range" /\ req'[w][n].op = "applied"}
            = {n \in Requests : req[w][n].kind = "range" /\ req[w][n].op = "applied"}
      BY <1>9, <1>12
    <3> QED
      BY <3>1 DEF LastApplied
  <2> QED
    BY <1>1, <1>4, <1>5, <1>6, <1>10, <1>11, <2>1, SameView DEF Viewed, Alive
<1> QED
  BY <1>1, <1>13, <1>14, <1>15, <1>16, <1>17, <1>18, <1>19, LockedStep DEF WriterInv

LEMMA MarkPhysicalDeletedStep ==
  ASSUME IndInv, NEW t \in Tasks, MarkPhysicalDeleted(t)
  PROVE  IndInv' /\ Maps
<1>1. PICK w \in Writers : w = Of(t)
  BY Unpacked DEF TaskInv, MarkPhysicalDeleted
<1>2. job[w].state = "leased" \/ job[w].state = "physical_deleted"
  BY <1>1 DEF MarkPhysicalDeleted
<1> QED
  BY <1>1, <1>2, MarkAgainStep, MarkFirstStep

-----------------------------------------------------------------------------
(* The invariant *)

LEMMA InitLemma == Init => IndInv
<1> SUFFICES ASSUME Init PROVE IndInv
  OBVIOUS
<1>1. 0 \in 0..MaxIssues /\ 0 \in 0..1 /\ 0 \in 0..MaxRequests /\ 0 \in 0..MaxFaults /\ 0 \in 0..3
  BY NfsAssumption
<1>2. NoRequest \in RequestRow /\ NoJob \in JobRow /\ Idle \in Task
  BY <1>1 DEF NoRequest, RequestRow, NoJob, JobRow, Idle, Task
<1>3. [state |-> "none", token |-> 0, lease |-> FALSE, live |-> FALSE, reserved |-> 0, base |-> 0] \in WriterRow
  BY <1>1 DEF WriterRow
<1>4. [state |-> "none", digest |-> Absent] \in PayloadRow
  BY DEF PayloadRow
<1>5. Typed
  BY <1>1, <1>2, <1>3, <1>4 DEF Init, Typed
<1>6. TypeOK
  BY <1>5, TypedIs DEF Init
<1>7. ASSUME NEW w \in Writers PROVE RowInv(w) /\ RequestInv(w) /\ BytesInv(w)
  <2>1. /\ writer[w].state = "none" /\ writer[w].token = 0 /\ writer[w].reserved = 0 /\ ~writer[w].lease
        /\ payload[w].state = "none" /\ job[w].state = "none" /\ conflict[w] = "none"
        /\ cow[w] = Absent /\ object[w] = Absent
        /\ \A n \in Requests : req[w][n] = NoRequest
    BY DEF Init, NoJob
  <2>2. RowInv(w)
    BY <2>1 DEF RowInv, Active, Alive
  <2>3. RequestInv(w)
    BY <2>1 DEF RequestInv, NoRequest
  <2>4. BytesInv(w)
    BY <2>1 DEF BytesInv, Alive
  <2> QED
    BY <2>2, <2>3, <2>4
<1>8. ASSUME NEW t \in Tasks PROVE TaskInv(t)
  BY DEF Init, Idle, TaskInv
<1>9. QuotaInv
  <2>1. \A v \in Writers : payload[v].state = "none"
    BY DEF Init
  <2>2. Units({"staging", "finalized"}) = {} /\ Units({"referenced"}) = {}
    BY <2>1 DEF Units
  <2>3. drive.reserved = 0 /\ drive.used = 0
    BY DEF Init
  <2> QED
    BY <2>2, <2>3, FS_EmptySet, NfsAssumption DEF QuotaInv, QuotaExact
<1> QED
  BY <1>6, <1>7, <1>8, <1>9 DEF IndInv

LEMMA GatewayLemma ==
  ASSUME IndInv, NEW w \in Writers, GatewayStep(w)
  PROVE  IndInv' /\ Maps
BY StartWriteStep, PlanRangeStep, CommitWriteStep, CopyConflictStep, CloseHandleStep,
   PreauthorizeRangeStep, ReissueStep, ApplyExtentStep, FlushReplyStep, PreauthorizeTerminalStep,
   DropConflictStep
   DEF GatewayStep

LEMMA WorkerLemma ==
  ASSUME IndInv, NEW t \in Tasks, IoStep(t) \/ CleanupStep(t) \/ Crash(t)
  PROVE  IndInv' /\ Maps
<1>1. CASE IoStep(t)
  BY <1>1, BeginExecutesStep, BeginFencesStep, RefusalsStep, AcquireLockStep, WriteRangeStep,
     ReadManifestStep, PublishCowStep, AbortCowStep, CompleteOperationStep
     DEF IoStep
<1>2. CASE CleanupStep(t)
  BY <1>2, ClaimOwnFenceStep, RefusalsStep, DeleteStagingStep, MarkPhysicalDeletedStep,
     CompleteCleanupStep
     DEF CleanupStep
<1> QED
  BY <1>1, <1>2, CrashStep

LEMMA StutterLemma ==
  ASSUME IndInv, UNCHANGED vars
  PROVE  IndInv'
<1>1. UNCHANGED <<rows, cow, object, lock, task, faults>>
  BY DEF vars, disk
<1>2. Typed' /\ DriveTyped' /\ QuotaInv'
  <2>1. Typed /\ DriveTyped /\ QuotaInv
    BY Unpacked
  <2>2. QuotaInv'
    BY <1>1, <2>1, QuotaFrame DEF rows, ReservedKept
  <2> QED
    BY <1>1, <2>1, <2>2 DEF rows, Typed, DriveTyped
<1>3. \A w \in Writers : WriterInv(w)'
  BY <1>1, RowsSame
<1>4. ASSUME NEW u \in Tasks PROVE TaskInv(u)'
  BY <1>1, Unpacked, TaskFrame DEF rows, KindsKept, LocksKept, PendingKept, DiskKept
<1> QED
  BY <1>2, <1>3, <1>4, Packed

LEMMA StepLemma ==
  ASSUME IndInv, Next
  PROVE  IndInv' /\ Maps
<1>1. CASE HeadMoves
  BY <1>1, HeadMovesStep
<1>2. ASSUME NEW w \in Writers, GatewayStep(w) PROVE IndInv' /\ Maps
  BY <1>2, GatewayLemma
<1>3. ASSUME NEW w \in Writers, TimePasses(w) PROVE IndInv' /\ Maps
  BY <1>3, LeaseLapsesStep, ExpiresStep, AuthorityChangesStep, CapabilityExpiresStep DEF TimePasses
<1>4. ASSUME NEW w \in Writers, SweepWriter(w) PROVE IndInv' /\ Maps
  BY <1>4, SweepWriterStep
<1>5. ASSUME NEW w \in Writers, CleanupLeaseLapses(w) PROVE IndInv' /\ Maps
  BY <1>5, CleanupLeaseLapsesStep
<1>6. ASSUME NEW t \in IoTasks, NEW w \in Writers, NEW n \in Requests, Arrive(t, w, n)
      PROVE  IndInv' /\ Maps
  BY <1>6, ArriveStep DEF Tasks
<1>7. ASSUME NEW t \in Sweepers, NEW w \in Writers, ClaimNext(t, w) PROVE IndInv' /\ Maps
  BY <1>7, ClaimNextStep DEF Tasks
<1>8. ASSUME NEW t \in Tasks, IoStep(t) \/ CleanupStep(t) \/ Crash(t) PROVE IndInv' /\ Maps
  BY <1>8, WorkerLemma
<1> QED
  BY <1>1, <1>2, <1>3, <1>4, <1>5, <1>6, <1>7, <1>8 DEF Next

LEMMA NextLemma == IndInv /\ [Next]_vars => IndInv'
BY StepLemma, StutterLemma

\* The rows, requests, tasks and bytes of write sessions go together as IndInv says, for
\* any number of writers, requests, tasks, crashes and retries.
THEOREM NfsInductive == Spec => []IndInv
<1> QED
  BY InitLemma, NextLemma, PTL DEF Spec

\* Every row, task and byte of the model has its type in every state the program reaches.
THEOREM NfsTypeOK == Spec => []TypeOK
<1>1. IndInv => TypeOK
  BY DEF IndInv
<1> QED
  BY <1>1, NfsInductive, PTL

\* A write that apply_nfs_write_extent acknowledged is in the bytes until its writer is
\* given up, whatever is retried, repeated, fenced or cut short by a crash.
THEOREM NfsAckedWritesKept == Spec => []AckedWritesKept
<1>1. IndInv => AckedWritesKept
  <2> SUFFICES ASSUME IndInv, NEW w \in Writers, writer[w].state \in Alive
               PROVE  \/ Bytes(w) = LastApplied(w)
                      \/ Bytes(w) \in {n \in Requests : req[w][n].op \in {"executing", "io_completed"}}
    BY DEF AckedWritesKept, Alive
  <2> QED
    BY DEF IndInv, BytesInv
<1> QED
  BY <1>1, NfsInductive, PTL

\* After mark_nfs_staging_cleanup_physical_deleted no late request, retry or second
\* cleanup brings a byte of the session back.
THEOREM NfsDeletedStaysDeleted == Spec => []DeletedStaysDeleted
<1>1. IndInv => DeletedStaysDeleted
  BY DEF IndInv, BytesInv, DeletedStaysDeleted
<1> QED
  BY <1>1, NfsInductive, PTL

\* The drive's counters are the sums of what the writers reserved, each unit released or
\* turned into used bytes exactly once, and together they never pass the quota.
THEOREM NfsQuotaExact == Spec => []QuotaExact
<1>1. IndInv => QuotaExact
  BY DEF IndInv, QuotaInv
<1> QED
  BY <1>1, NfsInductive, PTL

\* What commit_nfs_write or copy_nfs_write_conflict publishes, and what they still may,
\* is an object on disk with the recorded digest and the last acknowledged write.
THEOREM NfsPublishedIntact == Spec => []PublishedIntact
<1>1. IndInv => PublishedIntact
  <2> SUFFICES ASSUME IndInv, NEW w \in Writers,
                      payload[w].state = "referenced" \/ writer[w].state = "committing" \/ conflict[w] = "retained"
               PROVE  /\ object[w] = payload[w].digest /\ payload[w].digest = LastApplied(w)
                      /\ payload[w].state = "referenced" \/ conflict[w] = "retained" => job[w].state = "none"
    BY DEF PublishedIntact
  <2>1. Typed /\ RowInv(w) /\ BytesInv(w) /\ writer[w] \in WriterRow
    BY Unpacked, RowTypes DEF WriterInv
  <2>2. writer[w].state \in {"committing", "committed", "conflicted"}
    BY <2>1 DEF RowInv, WriterRow, Active, Fenced
  <2> QED
    BY <2>1, <2>2 DEF RowInv, BytesInv, Alive
<1> QED
  BY <1>1, NfsInductive, PTL

-----------------------------------------------------------------------------
(* The refinement *)

\* A function that changes at one writer only, and there to x.
LEMMA OnlyAt ==
  ASSUME NEW f, NEW g, f = [v \in Writers |-> f[v]], g = [v \in Writers |-> g[v]],
         NEW w \in Writers, \A v \in Writers \ {w} : g[v] = f[v]
  PROVE  /\ g = [f EXCEPT ![w] = g[w]]
         /\ g[w] = f[w] => g = f
<1>1. \A v \in Writers : g[v] = [f EXCEPT ![w] = g[w]][v]
  OBVIOUS
<1>2. g = [f EXCEPT ![w] = g[w]]
  BY <1>1
<1>3. ASSUME g[w] = f[w] PROVE g = f
  <2>1. \A v \in Writers : g[v] = f[v]
    BY <1>3
  <2> QED
    BY <2>1
<1> QED
  BY <1>2, <1>3

LEMMA ViewFunctions ==
  /\ Phase = [v \in Writers |-> Phase[v]] /\ Phase' = [v \in Writers |-> Phase'[v]]
  /\ Acked = [v \in Writers |-> Acked[v]] /\ Acked' = [v \in Writers |-> Acked'[v]]
  /\ Visible = [v \in Writers |-> Visible[v]] /\ Visible' = [v \in Writers |-> Visible'[v]]
<1>1. Phase = [v \in Writers |-> Phase[v]] /\ Phase' = [v \in Writers |-> Phase'[v]]
  BY DEF Phase
<1>2. Acked = [v \in Writers |-> Acked[v]] /\ Acked' = [v \in Writers |-> Acked'[v]]
  BY DEF Acked
<1>3. Visible = [v \in Writers |-> Visible[v]] /\ Visible' = [v \in Writers |-> Visible'[v]]
  BY DEF Visible
<1> QED
  BY <1>1, <1>2, <1>3

LEMMA MapsStep == Maps => [Staged!Next]_(Staged!vars)
<1> SUFFICES ASSUME Maps PROVE [Staged!Next]_(Staged!vars)
  OBVIOUS
<1>1. PICK w \in Writers : Viewed(w) /\ \A v \in Writers \ {w} : ViewKept(v)
  BY DEF Maps
<1>2. /\ Phase' = [Phase EXCEPT ![w] = Phase'[w]] /\ (Phase'[w] = Phase[w] => Phase' = Phase)
  BY <1>1, ViewFunctions, OnlyAt DEF ViewKept
<1>3. /\ Acked' = [Acked EXCEPT ![w] = Acked'[w]] /\ (Acked'[w] = Acked[w] => Acked' = Acked)
  BY <1>1, ViewFunctions, OnlyAt DEF ViewKept
<1>4. /\ Visible' = [Visible EXCEPT ![w] = Visible'[w]] /\ (Visible'[w] = Visible[w] => Visible' = Visible)
  BY <1>1, ViewFunctions, OnlyAt DEF ViewKept
<1>5. CASE ViewKept(w)
  BY <1>2, <1>3, <1>4, <1>5 DEF ViewKept, Staged!vars
<1>6. CASE Phase[w] = "none" /\ Phase'[w] = "staged" /\ Acked'[w] = Acked[w] /\ Visible'[w] = Visible[w]
  <2>1. Staged!Start(w)
    BY <1>2, <1>3, <1>4, <1>6 DEF Staged!Start
  <2> QED
    BY <2>1 DEF Staged!Next
<1>7. CASE /\ Phase[w] = "staged" /\ Phase'[w] = "staged" /\ Visible'[w] = Visible[w]
           /\ Acked'[w] \in Content /\ Acked'[w] > Acked[w]
  <2>1. Staged!Acknowledge(w)
    BY <1>2, <1>3, <1>4, <1>7 DEF Staged!Acknowledge
  <2> QED
    BY <2>1 DEF Staged!Next
<1>8. CASE /\ Phase[w] \in {"staged", "retained"} /\ Phase'[w] = "published"
           /\ Acked'[w] = Acked[w] /\ Visible'[w] = Acked[w]
  <2>1. Staged!Publish(w)
    BY <1>2, <1>3, <1>4, <1>8 DEF Staged!Publish
  <2> QED
    BY <2>1 DEF Staged!Next
<1>9. CASE Phase[w] = "staged" /\ Phase'[w] = "retained" /\ Acked'[w] = Acked[w] /\ Visible'[w] = Visible[w]
  <2>1. Staged!Retain(w)
    BY <1>2, <1>3, <1>4, <1>9 DEF Staged!Retain
  <2> QED
    BY <2>1 DEF Staged!Next
<1>10. CASE /\ Phase[w] \in {"staged", "retained"} /\ Phase'[w] = "discarded"
            /\ Acked'[w] = Acked[w] /\ Visible'[w] = Visible[w]
  <2>1. Staged!Discard(w)
    BY <1>2, <1>3, <1>4, <1>10 DEF Staged!Discard
  <2> QED
    BY <2>1 DEF Staged!Next
<1> QED
  BY <1>1, <1>5, <1>6, <1>7, <1>8, <1>9, <1>10 DEF Viewed

LEMMA InitMaps == Init => Staged!Init
<1> SUFFICES ASSUME Init PROVE Staged!Init
  OBVIOUS
<1>1. ASSUME NEW w \in Writers
      PROVE  /\ writer[w].state = "none" /\ payload[w].state = "none"
             /\ \A n \in Requests : req[w][n].kind = "none"
  BY DEF Init, NoRequest
<1>2. ASSUME NEW w \in Writers PROVE LastApplied(w) = Base
  BY <1>1, AppliedIs
<1>3. Phase = [w \in Writers |-> "none"]
  BY <1>1 DEF Phase
<1>4. Acked = [w \in Writers |-> Base]
  BY <1>2 DEF Acked
<1>5. Visible = [w \in Writers |-> Absent]
  BY <1>1 DEF Visible
<1> QED
  BY <1>3, <1>4, <1>5 DEF Staged!Init

LEMMA StutterMaps == UNCHANGED vars => UNCHANGED Staged!vars
BY DEF vars, rows, disk, Phase, Acked, Visible, LastApplied, Staged!vars

\* A write session does what StagedWrite promises: its writes are acknowledged one after
\* the other, they become visible together, at most once and exactly as acknowledged, by
\* commit_nfs_write or copy_nfs_write_conflict, and a fence is final.
THEOREM NfsImplementsStagedWrite == Spec => ImplementsStagedWrite
<1>1. IndInv /\ [Next]_vars => [Staged!Next]_(Staged!vars)
  BY StepLemma, MapsStep, StutterMaps
<1> QED
  BY <1>1, InitMaps, NfsInductive, PTL DEF Spec, ImplementsStagedWrite, Staged!Spec

-----------------------------------------------------------------------------
(* Who gives up an open writer *)

\* The step does not expire the writer.
Spared(w) == writer[w].state = "open" => writer'[w].state # "expired"

LEMMA SparedGateway ==
  ASSUME Typed, NEW w \in Writers, NEW v \in Writers,
         \/ StartWrite(v) \/ PlanRange(v) \/ CommitWrite(v) \/ CopyConflict(v)
         \/ \E n \in Requests : \/ PreauthorizeRange(v, n) \/ Reissue(v, n)
                                \/ ApplyExtent(v, n) \/ FlushReply(v, n)
         \/ \E kind \in Kinds : PreauthorizeTerminal(v, kind)
         \/ \E as \in {"discarded", "expired"} : DropConflict(v, as)
         \/ TimePasses(v) \/ CleanupLeaseLapses(v)
  PROVE  Spared(w)
<1>1. writer \in [Writers -> WriterRow] /\ writer[v] \in WriterRow
  BY DEF Typed
<1>2. CASE StartWrite(v)
  BY <1>1, <1>2 DEF StartWrite, Spared
<1>3. CASE PlanRange(v)
  <2>1. writer' = [writer EXCEPT ![v] = [Renewed(writer[v]) EXCEPT !.reserved = writer[v].reserved + 1]]
    BY <1>1, <1>3 DEF PlanRange
  <2>2. [Renewed(writer[v]) EXCEPT !.reserved = writer[v].reserved + 1].state = writer[v].state
    BY <1>1 DEF Renewed, WriterRow
  <2> QED
    BY <1>1, <2>1, <2>2 DEF Spared
<1>4. CASE CommitWrite(v)
  <2>1. \/ writer' = [writer EXCEPT ![v] = Ended(writer[v], "committed", writer[v].token)]
        \/ writer' = [writer EXCEPT ![v] = Ended(writer[v], "conflicted", writer[v].token + 1)]
    BY <1>1, <1>4 DEF CommitWrite
  <2>2. \A s, k : Ended(writer[v], s, k).state = s
    BY <1>1 DEF Ended, WriterRow
  <2> QED
    BY <1>1, <2>1, <2>2 DEF Spared
<1>5. CASE \E n \in Requests : ApplyExtent(v, n)
  <2>1. writer' = [writer EXCEPT ![v] = Renewed(writer[v])]
    BY <1>1, <1>5 DEF ApplyExtent
  <2> QED
    BY <1>1, <2>1, RenewedRow DEF Spared
<1>6. CASE \E as \in {"discarded", "expired"} : DropConflict(v, as)
  BY <1>1, <1>6 DEF DropConflict, Spared
<1>7. CASE \/ CopyConflict(v) \/ CleanupLeaseLapses(v)
           \/ \E n \in Requests : \/ PreauthorizeRange(v, n) \/ Reissue(v, n) \/ FlushReply(v, n)
           \/ \E kind \in Kinds : PreauthorizeTerminal(v, kind)
  <2>1. writer' = writer
    BY <1>7 DEF CopyConflict, CleanupLeaseLapses, PreauthorizeRange, Reissue, FlushReply, PreauthorizeTerminal
  <2> QED
    BY <2>1 DEF Spared
<1>8. CASE TimePasses(v)
  <2>1. writer'[w].state = writer[w].state
    BY <1>1, <1>8 DEF TimePasses, LeaseLapses, Expires, AuthorityChanges, CapabilityExpires, WriterRow
  <2> QED
    BY <2>1 DEF Spared
<1> QED
  BY <1>2, <1>3, <1>4, <1>5, <1>6, <1>7, <1>8

LEMMA SparedWorker ==
  ASSUME IndInv, NEW w \in Writers, NEW t \in Tasks, IoStep(t) \/ CleanupStep(t) \/ Crash(t)
  PROVE  Spared(w)
<1>1. writer \in [Writers -> WriterRow] /\ \A v \in Writers : writer[v] \in WriterRow
  BY Unpacked DEF Typed
<1>2. \A v \in Writers : \A s \in Active : [Renewed(writer[v]) EXCEPT !.state = s].state = s
  BY <1>1, RenewedStateRow
<1>3. CASE BeginExecutes(t)
  <2>1. \/ writer' = writer
        \/ writer' = [writer EXCEPT ![Of(t)] = [Renewed(writer[Of(t)]) EXCEPT !.state = "aborting"]]
    <3>1. \/ writer' = writer
          \/ writer' = [writer EXCEPT ![Of(t)] = IF Req(t).kind = "abort"
                                                 THEN [Renewed(@) EXCEPT !.state = "aborting"] ELSE @]
      BY <1>3 DEF BeginExecutes
    <3>2. CASE Req(t).kind # "abort"
      BY <1>1, <3>1, <3>2
    <3>3. CASE Req(t).kind = "abort"
      BY <1>1, <3>1, <3>3
    <3> QED
      BY <3>2, <3>3
  <2> QED
    BY <1>1, <1>2, <2>1 DEF Spared, Active
<1>4. CASE BeginFences(t)
  BY <1>1, <1>4 DEF BeginFences, Spared, WriterRow, Active
<1>5. CASE CompleteOperation(t)
  <2>1. \/ writer' = writer
        \/ writer' = [writer EXCEPT ![Of(t)] = [Renewed(writer[Of(t)]) EXCEPT !.state = "flushing"]]
        \/ writer' = [writer EXCEPT ![Of(t)] = [Renewed(writer[Of(t)]) EXCEPT !.state = "committing"]]
        \/ writer' = [writer EXCEPT ![Of(t)] = Ended(writer[Of(t)], "aborted", writer[Of(t)].token)]
    BY <1>1, <1>5 DEF CompleteOperation, FinishRange, FinishFlush, FinishFinalize, FinishAbort
  <2>2. \A v \in Writers : Ended(writer[v], "aborted", writer[v].token).state = "aborted"
    BY <1>1 DEF Ended, WriterRow
  <2> QED
    BY <1>1, <1>2, <2>1, <2>2 DEF Spared, Active
<1>6. CASE MarkPhysicalDeleted(t)
  <2>1. \/ writer' = writer
        \/ writer' = [writer EXCEPT ![Of(t)] = Ended(writer[Of(t)], "aborted", writer[Of(t)].token)]
    BY <1>1, <1>6 DEF MarkPhysicalDeleted
  <2>2. \A v \in Writers : Ended(writer[v], "aborted", writer[v].token).state = "aborted"
    BY <1>1 DEF Ended, WriterRow
  <2> QED
    BY <1>1, <2>1, <2>2 DEF Spared
<1>7. CASE \/ BeginEnds(t) \/ AcquireLock(t) \/ WriteRange(t) \/ ReadManifest(t) \/ PublishCow(t)
           \/ AbortCow(t) \/ CompletionRefused(t) \/ ClaimOwnFence(t) \/ ClaimRefused(t)
           \/ DeleteStaging(t) \/ CompleteCleanup(t) \/ CleanupRefused(t) \/ Crash(t)
  <2>1. writer' = writer
    BY <1>7 DEF BeginEnds, AcquireLock, WriteRange, ReadManifest, PublishCow, AbortCow, CompletionRefused,
                ClaimOwnFence, ClaimRefused, DeleteStaging, CompleteCleanup, CleanupRefused, Crash, rows
  <2> QED
    BY <2>1 DEF Spared
<1> QED
  BY <1>3, <1>4, <1>5, <1>6, <1>7 DEF IoStep, CleanupStep

\* sweep_expired_nfs_writers does not expire a live open writer with a range whose bytes the
\* I/O worker reported; only closing the handle does.
THEOREM NfsReportedRangeKept == Spec => ReportedRangeKept
<1> DEFINE Reported(w, n) == /\ req[w][n].op = "io_completed" /\ writer[w].state = "open"
                             /\ writer[w].live /\ handle[w] = "open"
<1>1. ASSUME IndInv, Next, NEW w \in Writers, NEW n \in Requests, Reported(w, n)
      PROVE  writer'[w].state # "expired" \/ handle'[w] = "closed"
  <2>1. Typed /\ RowInv(w) /\ RequestInv(w) /\ writer \in [Writers -> WriterRow]
    BY <1>1, Unpacked DEF WriterInv, Typed
  \* The receipt of a reported range is complete, so the sweep leaves the writer alone.
  <2>2. ~Swept(w)
    <3>1. req[w][n].kind = "range" /\ payload[w].state = "staging"
      BY <1>1, <2>1 DEF RowInv, RequestInv
    <3>2. req[w][n].receipt = "done"
      BY <1>1, <2>1, <3>1 DEF RequestInv, RangeStages
    <3> QED
      BY <1>1, <3>2 DEF Swept
  <2>3. ASSUME NEW v \in Writers, CloseHandle(v) PROVE Spared(w) \/ handle'[w] = "closed"
    BY <2>1, <2>3 DEF CloseHandle, ExpireWriter, Typed, Spared
  <2>4. ASSUME NEW v \in Writers, SweepWriter(v) PROVE Spared(w)
    BY <1>1, <2>1, <2>2, <2>4 DEF SweepWriter, ExpireWriter, Spared
  <2>5. ASSUME HeadMoves PROVE Spared(w)
    BY <2>5 DEF HeadMoves, Spared
  <2>6. ASSUME NEW t \in IoTasks, NEW v \in Writers, NEW m \in Requests, Arrive(t, v, m) PROVE Spared(w)
    BY <2>6 DEF Arrive, rows, Spared
  <2>7. ASSUME NEW t \in Sweepers, NEW v \in Writers, ClaimNext(t, v) PROVE Spared(w)
    BY <2>7 DEF ClaimNext, Spared
  <2>8. ASSUME NEW t \in Tasks, IoStep(t) \/ CleanupStep(t) \/ Crash(t) PROVE Spared(w)
    BY <1>1, <2>8, SparedWorker
  <2>9. ASSUME NEW v \in Writers, GatewayStep(v) \/ TimePasses(v) \/ CleanupLeaseLapses(v)
        PROVE  Spared(w) \/ handle'[w] = "closed"
    BY <2>1, <2>3, <2>9, SparedGateway DEF GatewayStep
  <2>10. Spared(w) \/ handle'[w] = "closed"
    BY <1>1, <2>4, <2>5, <2>6, <2>7, <2>8, <2>9 DEF Next
  <2> QED
    BY <1>1, <2>10 DEF Spared
<1>2. IndInv /\ [Next]_vars =>
        [\A w \in Writers, n \in Requests :
           Reported(w, n) => writer'[w].state # "expired" \/ handle'[w] = "closed"]_vars
  BY <1>1
<1> QED
  BY <1>2, NfsInductive, PTL DEF Spec, ReportedRangeKept

=============================================================================
