----------------------------- MODULE ApiMutation -----------------------------
(***************************************************************************)
(* Idempotent mutations and the transactional outbox.  An API handler      *)
(* looks its idempotency key up, then opens a transaction in which it      *)
(* reserves the key, performs the mutation, writes the event of the        *)
(* mutation and finalizes the receipt.  Clients repeat requests whose      *)
(* answers they did not get, handlers run side by side and die anywhere,   *)
(* and receipts expire.  Publishers poll the outbox and send each event,   *)
(* again after a failure whose outcome they do not know.                   *)
(*                                                                         *)
(* A transaction's writes appear when it commits; until then only the lock *)
(* on the key's row is visible, as a wait.  A key stands for the tenant,   *)
(* principal, route and key of a request, a body for its fingerprint, and  *)
(* an id for the uuids of a mutation and of its event.                     *)
(***************************************************************************)
EXTENDS Naturals, FiniteSets

CONSTANTS
  Keys, Bodies,
  Ids,          \* bounds the number of mutations
  Handlers,     \* API handlers that run at a time
  Publishers,   \* maintenance workers that publish
  MaxRequests,  \* bound on the requests
  MaxLapses,    \* bound on how often a key's receipt expires
  MaxFaults,    \* bound on dead handlers and publishers and on failed sends
  NoKey, NoBody, NoId, NoHandler

ASSUME ApiAssumption ==
  /\ MaxRequests \in Nat /\ MaxLapses \in Nat /\ MaxFaults \in Nat
  /\ NoKey \notin Keys /\ NoBody \notin Bodies /\ NoId \notin Ids
  /\ NoHandler \notin Handlers

VARIABLES
  receipt,    \* idempotency_records, as committed
  lock,       \* the handler whose transaction holds the key's row
  handler,    \* the handlers and their requests
  effect,     \* the mutations that were committed
  event,      \* outbox_events
  sent,       \* events that the stream has received
  publisher,  \* the publishers and their batches
  lapses,     \* how often the receipt of a key has expired
  requests,
  faults

receipts == <<receipt, lock, effect, lapses>>
outbox == <<event, sent, publisher>>
bounds == <<requests, faults>>
vars == <<receipt, lock, handler, effect, event, sent, publisher, lapses, requests, faults>>

NoReceipt == [body |-> NoBody, id |-> NoId, expired |-> FALSE]
NoEffect == [key |-> NoKey, body |-> NoBody, life |-> 0]
IdleHandler == [step |-> "idle", key |-> NoKey, body |-> NoBody, since |-> 0, answer |-> NoId]
IdlePublisher == [step |-> "idle", batch |-> {}, id |-> NoId]

TypeOK ==
  /\ receipt \in [Keys -> [body: Bodies, id: Ids, expired: BOOLEAN] \cup {NoReceipt}]
  /\ lock \in [Keys -> Handlers \cup {NoHandler}]
  /\ handler \in [Handlers ->
       [step: {"lookup", "reserve", "mutate", "answer"}, key: Keys, body: Bodies,
        since: 0..MaxLapses, answer: Ids \cup {NoId}] \cup {IdleHandler}]
  /\ effect \in [Ids -> [key: Keys, body: Bodies, life: 0..MaxLapses] \cup {NoEffect}]
  /\ event \in [Ids -> {"none", "pending", "delayed", "published", "removed"}]
  /\ sent \in SUBSET Ids
  /\ publisher \in [Publishers ->
       [step: {"send", "mark", "retry"}, batch: SUBSET Ids, id: Ids \cup {NoId}]
         \cup {IdlePublisher}]
  /\ lapses \in [Keys -> 0..MaxLapses]
  /\ requests \in 0..MaxRequests /\ faults \in 0..MaxFaults

Init ==
  /\ receipt = [k \in Keys |-> NoReceipt]
  /\ lock = [k \in Keys |-> NoHandler]
  /\ handler = [h \in Handlers |-> IdleHandler]
  /\ effect = [i \in Ids |-> NoEffect]
  /\ event = [i \in Ids |-> "none"]
  /\ sent = {}
  /\ publisher = [p \in Publishers |-> IdlePublisher]
  /\ lapses = [k \in Keys |-> 0]
  /\ requests = 0 /\ faults = 0

-----------------------------------------------------------------------------
(* A request *)

At(h, s) == handler[h].step = s
KeyOf(h) == handler[h].key
Goes(h, s) == handler' = [handler EXCEPT ![h].step = s]
Ends(h) == handler' = [handler EXCEPT ![h] = IdleHandler]
Answers(h, i) ==
  handler' = [handler EXCEPT ![h] = [@ EXCEPT !.step = "answer", !.answer = i]]

\* A first request or a repeated one.  Some routes look the receipt up before
\* they authorize, the others begin with the transaction.
Arrive(h, k, b) ==
  /\ At(h, "idle") /\ requests < MaxRequests
  /\ requests' = requests + 1
  /\ \E s \in {"lookup", "reserve"} :
       handler' = [handler EXCEPT ![h] = [step |-> s, key |-> k, body |-> b,
                                          since |-> lapses[k], answer |-> NoId]]
  /\ UNCHANGED <<receipts, outbox, faults>>

\* A receipt that binds: there is one, and it has not expired.
Binding(k) == receipt[k] # NoReceipt /\ ~receipt[k].expired

\* Mutation: the lookup forgets that receipts expire.
LookupExpired(h) ==
  LET k == KeyOf(h) IN
  /\ At(h, "lookup")
  /\ \/ receipt[k] = NoReceipt /\ Goes(h, "reserve")
     \/ receipt[k] # NoReceipt /\ receipt[k].body = handler[h].body /\ Answers(h, receipt[k].id)
     \/ receipt[k] # NoReceipt /\ receipt[k].body # handler[h].body /\ Ends(h)
  /\ UNCHANGED <<receipts, outbox, bounds>>

\* replay_finalized_resource: outside any transaction, so a reservation that is
\* not committed is not seen.  Another body under the same key is refused.
Lookup(h) ==
  LET k == KeyOf(h) IN
  /\ At(h, "lookup")
  /\ \/ ~Binding(k) /\ Goes(h, "reserve")
     \/ Binding(k) /\ receipt[k].body = handler[h].body /\ Answers(h, receipt[k].id)
     \/ Binding(k) /\ receipt[k].body # handler[h].body /\ Ends(h)
  /\ UNCHANGED <<receipts, outbox, bounds>>

\* Mutation: the row is read without FOR UPDATE and inserted without waiting.
ReserveUnlocked(h) ==
  LET k == KeyOf(h) IN
  /\ At(h, "reserve")
  /\ \/ ~Binding(k) /\ Goes(h, "mutate") /\ lock' = [lock EXCEPT ![k] = h]
     \/ Binding(k) /\ receipt[k].body = handler[h].body /\ Answers(h, receipt[k].id)
        /\ UNCHANGED lock
     \/ Binding(k) /\ receipt[k].body # handler[h].body /\ Ends(h) /\ UNCHANGED lock
  /\ UNCHANGED <<receipt, effect, lapses, outbox, bounds>>

\* reserve: waits for a transaction that has the row, then inserts or renews
\* it, or finds the receipt of an earlier request and ends the transaction.
Reserve(h) ==
  LET k == KeyOf(h) IN
  /\ At(h, "reserve") /\ lock[k] = NoHandler
  /\ \/ ~Binding(k) /\ Goes(h, "mutate") /\ lock' = [lock EXCEPT ![k] = h]
     \/ /\ Binding(k) /\ receipt[k].body = handler[h].body
        /\ Answers(h, receipt[k].id) /\ UNCHANGED lock
     \/ /\ Binding(k) /\ receipt[k].body # handler[h].body
        /\ Ends(h) /\ UNCHANGED lock
  /\ UNCHANGED <<receipt, effect, lapses, outbox, bounds>>

\* finalize: the reserved row gets the response.
Finalize(h) ==
  LET k == KeyOf(h) IN
  receipt' = [receipt EXCEPT ![k] = [body |-> handler[h].body, id |-> handler'[h].answer,
                                     expired |-> FALSE]]

\* insert_outbox, in the mutation's transaction.
InsertOutbox(i) == event' = [event EXCEPT ![i] = "pending"]

\* The mutation succeeds, its event is written, the receipt is finalized, and
\* the transaction commits.
Commit(h) ==
  LET k == KeyOf(h) IN
  /\ At(h, "mutate")
  /\ \E i \in Ids :
       /\ effect[i] = NoEffect
       /\ effect' = [effect EXCEPT ![i] = [key |-> k, body |-> handler[h].body,
                                           life |-> lapses[k]]]
       /\ InsertOutbox(i)
       /\ Answers(h, i)
       /\ Finalize(h)
  /\ lock' = [lock EXCEPT ![k] = NoHandler]
  /\ UNCHANGED <<lapses, sent, publisher, bounds>>

\* Mutation: the reservation outlives a transaction that fails.
KeepsRow(h) == UNCHANGED lock

\* What a transaction that does not commit leaves: nothing.
RollsBack(h) ==
  lock' = [k \in Keys |-> IF lock[k] = h THEN NoHandler ELSE lock[k]]

\* The mutation is refused: a stale generation, a taken name, a head that
\* moved.  (A request that is not authorized ends before it reserves.)
Refuse(h) ==
  /\ At(h, "mutate")
  /\ Ends(h) /\ RollsBack(h)
  /\ UNCHANGED <<receipt, effect, lapses, outbox, bounds>>

\* The handler dies or loses the database; if it has committed, only the
\* answer is lost.
HandlerDies(h) ==
  /\ ~At(h, "idle") /\ faults < MaxFaults
  /\ Ends(h) /\ RollsBack(h)
  /\ faults' = faults + 1
  /\ UNCHANGED <<receipt, effect, lapses, outbox, requests>>

\* The client has its answer.
Respond(h) ==
  /\ At(h, "answer")
  /\ Ends(h)
  /\ UNCHANGED <<receipts, outbox, bounds>>

\* 24 hours pass.  The row stays.
ReceiptExpires(k) ==
  /\ Binding(k) /\ lapses[k] < MaxLapses
  /\ receipt' = [receipt EXCEPT ![k].expired = TRUE]
  /\ lapses' = [lapses EXCEPT ![k] = @ + 1]
  /\ UNCHANGED <<lock, handler, effect, outbox, bounds>>

-----------------------------------------------------------------------------
(* The outbox *)

\* The publisher turns to the next event of its batch, or waits for the tick.
NextEvent(p) ==
  publisher' = [publisher EXCEPT ![p] =
    IF @.batch = {} THEN IdlePublisher ELSE [step |-> "send", batch |-> @.batch, id |-> NoId]]

\* pending_outbox: a snapshot that others may publish from meanwhile.
Poll(p) ==
  LET due == {i \in Ids : event[i] = "pending"} IN
  /\ publisher[p].step = "idle" /\ due # {}
  /\ publisher' = [publisher EXCEPT ![p] = [step |-> "send", batch |-> due, id |-> NoId]]
  /\ UNCHANGED <<receipts, handler, event, sent, bounds>>

\* publish_event.  A failed send may have reached the stream.
Send(p, i) ==
  /\ publisher[p].step = "send" /\ i \in publisher[p].batch
  /\ publisher' = [publisher EXCEPT ![p] = [step |-> "mark", batch |-> @.batch \ {i}, id |-> i]]
  /\ sent' = sent \cup {i}
  /\ UNCHANGED <<receipts, handler, event, bounds>>

SendFails(p, i) ==
  /\ publisher[p].step = "send" /\ i \in publisher[p].batch /\ faults < MaxFaults
  /\ publisher' = [publisher EXCEPT ![p] = [step |-> "retry", batch |-> @.batch \ {i}, id |-> i]]
  /\ sent' \in {sent, sent \cup {i}}
  /\ faults' = faults + 1
  /\ UNCHANGED <<receipts, handler, event, requests>>

\* mark_outbox_published: whatever the row is, if it is still there.
MarkPublished(p) ==
  LET i == publisher[p].id IN
  /\ publisher[p].step = "mark"
  /\ event' = [event EXCEPT ![i] = IF @ = "removed" THEN @ ELSE "published"]
  /\ NextEvent(p)
  /\ UNCHANGED <<receipts, handler, sent, bounds>>

\* Mutation: an event that could not be sent is given up.
MarkGivenUp(p) ==
  LET i == publisher[p].id IN
  /\ publisher[p].step = "retry"
  /\ event' = [event EXCEPT ![i] = IF @ = "removed" THEN @ ELSE "published"]
  /\ NextEvent(p)
  /\ UNCHANGED <<receipts, handler, sent, bounds>>

\* mark_outbox_retry: five seconds later, unless somebody has published it.
MarkRetry(p) ==
  LET i == publisher[p].id IN
  /\ publisher[p].step = "retry"
  /\ event' = [event EXCEPT ![i] = IF @ = "pending" THEN "delayed" ELSE @]
  /\ NextEvent(p)
  /\ UNCHANGED <<receipts, handler, sent, bounds>>

RetryDue(i) ==
  /\ event[i] = "delayed"
  /\ event' = [event EXCEPT ![i] = "pending"]
  /\ UNCHANGED <<receipts, handler, sent, publisher, bounds>>

\* The worker dies or a database call fails: the rest of the batch is dropped,
\* also between the send and the mark.
PublisherDies(p) ==
  /\ publisher[p].step # "idle" /\ faults < MaxFaults
  /\ publisher' = [publisher EXCEPT ![p] = IdlePublisher]
  /\ faults' = faults + 1
  /\ UNCHANGED <<receipts, handler, event, sent, requests>>

\* cleanup_retained_outbox, thirty days after the publication.
RemoveRetained(i) ==
  /\ event[i] = "published"
  /\ event' = [event EXCEPT ![i] = "removed"]
  /\ UNCHANGED <<receipts, handler, sent, publisher, bounds>>

-----------------------------------------------------------------------------
HandlerStep(h) == Lookup(h) \/ Reserve(h) \/ Commit(h) \/ Refuse(h) \/ Respond(h)
HandlerNext(h) ==
  \/ \E k \in Keys, b \in Bodies : Arrive(h, k, b)
  \/ HandlerStep(h) \/ HandlerDies(h)

Publish(p) == Poll(p) \/ (\E i \in Ids : Send(p, i)) \/ MarkPublished(p) \/ MarkRetry(p)
PublisherNext(p) == Publish(p) \/ PublisherDies(p) \/ \E i \in Ids : SendFails(p, i)

Next ==
  \/ \E h \in Handlers : HandlerNext(h)
  \/ \E k \in Keys : ReceiptExpires(k)
  \/ \E p \in Publishers : PublisherNext(p)
  \/ \E i \in Ids : RetryDue(i) \/ RemoveRetained(i)

Spec == Init /\ [][Next]_vars

\* Handlers run on, PostgreSQL gives a row that is free to a waiter, and the
\* outbox tick recurs.
Fairness ==
  /\ \A h \in Handlers : WF_vars(HandlerStep(h))
  /\ \A p \in Publishers : WF_vars(Publish(p))
  /\ \A i \in Ids : WF_vars(RetryDue(i))

FairSpec == Spec /\ Fairness

-----------------------------------------------------------------------------
(* What must hold *)

\* "a committed authoritative mutation therefore cannot exist without its exact
\* replay receipt", for as long as the receipt lives: a repetition finds the
\* mutation it repeats, so no key performs two mutations within one life of its
\* receipt, whatever handlers race, die or lose their answers.
Replayable == \A i \in Ids :
  LET e == effect[i] IN
  (e # NoEffect /\ e.life = lapses[e.key]) =>
    receipt[e.key] = [body |-> e.body, id |-> i, expired |-> FALSE]

\* An answer names a mutation that was committed under the request's own key,
\* with its own body ("a distinct fingerprint never reaches the mutation"), and
\* never one whose receipt had expired when the request arrived.
AnswersOwnMutation == \A h \in Handlers : At(h, "answer") =>
  LET e == effect[handler[h].answer] IN
  e.key = handler[h].key /\ e.body = handler[h].body /\ e.life >= handler[h].since

\* No event is lost: every committed mutation has its event, and the event
\* stays to be sent until the stream has it, however often publishers fail
\* between the send and the mark and whatever two of them do with one row.
NoEventLost == \A i \in Ids :
  /\ effect[i] # NoEffect => event[i] # "none"
  /\ event[i] \in {"published", "removed"} => i \in sent

\* Requests end, answered or refused, nobody waiting for ever for a key's row,
\* and once the stream is reachable the events of all mutations get to it.
AllServed ==
  /\ \A h \in Handlers : At(h, "idle")
  /\ \A i \in Ids : effect[i] # NoEffect => i \in sent
ServedAndDelivered == ~AllServed ~> AllServed

-----------------------------------------------------------------------------
(* Why it holds: the facts that every step preserves together *)

\* A row is locked by the one handler that mutates under its key, and no
\* receipt binds meanwhile.
LockInv ==
  /\ \A h \in Handlers : At(h, "mutate") => lock[KeyOf(h)] = h /\ ~Binding(KeyOf(h))
  /\ \A k \in Keys : lock[k] # NoHandler => At(lock[k], "mutate") /\ KeyOf(lock[k]) = k

\* A receipt names a mutation of its key and body, of its own life if it binds.
ReceiptInv == \A k \in Keys : receipt[k] # NoReceipt =>
  LET e == effect[receipt[k].id] IN
  /\ e # NoEffect /\ e.key = k /\ e.body = receipt[k].body
  /\ ~receipt[k].expired => e.life = lapses[k]

\* Lives are counted by the expiries so far.
LifeInv ==
  /\ \A i \in Ids : effect[i] # NoEffect => effect[i].life <= lapses[effect[i].key]
  /\ \A h \in Handlers : ~At(h, "idle") => handler[h].since <= lapses[KeyOf(h)]

AnswerInv == \A h \in Handlers : At(h, "answer") =>
  handler[h].answer \in Ids /\ effect[handler[h].answer] # NoEffect

PublisherInv == \A p \in Publishers :
  /\ publisher[p].step \in {"mark", "retry"} => publisher[p].id \in Ids
  /\ publisher[p].step = "mark" => publisher[p].id \in sent

IndInv == TypeOK /\ LockInv /\ ReceiptInv /\ LifeInv /\ AnswerInv /\ PublisherInv
          /\ Replayable /\ AnswersOwnMutation /\ NoEventLost
==============================================================================
