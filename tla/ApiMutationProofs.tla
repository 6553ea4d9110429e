-------------------------- MODULE ApiMutationProofs --------------------------
(* Proofs about ApiMutation, for any number of keys, handlers and publishers. *)
EXTENDS ApiMutation, TLAPS

Request == [step: {"lookup", "reserve", "mutate", "answer"}, key: Keys, body: Bodies,
            since: 0..MaxLapses, answer: Ids \cup {NoId}]
Receipt == [body: Bodies, id: Ids, expired: BOOLEAN]
Effect == [key: Keys, body: Bodies, life: 0..MaxLapses]
Batch == [step: {"send", "mark", "retry"}, batch: SUBSET Ids, id: Ids \cup {NoId}]

-----------------------------------------------------------------------------
(* Types *)

\* A handler that is at a step has a request.
LEMMA Busy ==
  ASSUME TypeOK, NEW h \in Handlers, ~At(h, "idle")
  PROVE  handler[h] \in Request /\ KeyOf(h) \in Keys
BY DEF TypeOK, At, IdleHandler, Request, KeyOf

\* A receipt that exists has a body and an id.
LEMMA Exists ==
  ASSUME TypeOK, NEW k \in Keys, receipt[k] # NoReceipt
  PROVE  receipt[k] \in Receipt
BY DEF TypeOK, Receipt

LEMMA TypeInit == Init => TypeOK
BY ApiAssumption DEF Init, TypeOK

\* The ways in which an action changes a handler.
LEMMA HandlerTyped ==
  ASSUME TypeOK, NEW h \in Handlers,
         \/ Ends(h)
         \/ ~At(h, "idle") /\ \E s \in {"lookup", "reserve", "mutate", "answer"} : Goes(h, s)
         \/ ~At(h, "idle") /\ \E i \in Ids : Answers(h, i)
  PROVE  handler' \in [Handlers -> Request \cup {IdleHandler}]
<1>1. handler \in [Handlers -> Request \cup {IdleHandler}]  BY DEF TypeOK, Request
<1>2. CASE Ends(h)  BY <1>1, <1>2 DEF Ends
<1>3. ASSUME ~At(h, "idle"), NEW s \in {"lookup", "reserve", "mutate", "answer"}, Goes(h, s)
      PROVE handler' \in [Handlers -> Request \cup {IdleHandler}]
  BY <1>1, <1>3, Busy DEF Goes, Request
<1>4. ASSUME ~At(h, "idle"), NEW i \in Ids, Answers(h, i)
      PROVE handler' \in [Handlers -> Request \cup {IdleHandler}]
  <2>1. [handler[h] EXCEPT !.step = "answer", !.answer = i] \in Request
    BY <1>4, Busy DEF Request
  <2> QED  BY <1>1, <1>4, <2>1 DEF Answers
<1> QED  BY <1>2, <1>3, <1>4

LEMMA TypeStep == TypeOK /\ [Next]_vars => TypeOK'
<1> SUFFICES ASSUME TypeOK, [Next]_vars PROVE TypeOK'  OBVIOUS
<1> USE ApiAssumption
<1>1. ASSUME NEW h \in Handlers, NEW k \in Keys, NEW b \in Bodies, Arrive(h, k, b) PROVE TypeOK'
  BY <1>1 DEF Arrive, TypeOK, receipts, outbox
<1>2. ASSUME NEW h \in Handlers, Lookup(h) PROVE TypeOK'
  <2>1. ~At(h, "idle")  BY <1>2 DEF Lookup, At
  <2>2. \/ Ends(h) \/ Goes(h, "reserve") \/ \E i \in Ids : Answers(h, i)
    BY <1>2, <2>1, Busy, Exists DEF Lookup, Binding, Receipt
  <2>3. handler' \in [Handlers -> Request \cup {IdleHandler}]  BY <2>1, <2>2, HandlerTyped
  <2> QED  BY <1>2, <2>3 DEF Lookup, TypeOK, receipts, outbox, bounds, Request
<1>3. ASSUME NEW h \in Handlers, Reserve(h) PROVE TypeOK'
  <2>1. ~At(h, "idle")  BY <1>3 DEF Reserve, At
  <2>2. \/ Ends(h) \/ Goes(h, "mutate") \/ \E i \in Ids : Answers(h, i)
    BY <1>3, <2>1, Busy, Exists DEF Reserve, Binding, Receipt
  <2>3. handler' \in [Handlers -> Request \cup {IdleHandler}]  BY <2>1, <2>2, HandlerTyped
  <2>4. lock' \in [Keys -> Handlers \cup {NoHandler}]  BY <1>3 DEF Reserve, TypeOK
  <2> QED  BY <1>3, <2>3, <2>4 DEF Reserve, TypeOK, outbox, bounds, Request
<1>4. ASSUME NEW h \in Handlers, Commit(h) PROVE TypeOK'
  <2>1. ~At(h, "idle")  BY <1>4 DEF Commit, At
  <2>2. KeyOf(h) \in Keys /\ handler[h].body \in Bodies  BY <2>1, Busy DEF Request
  <2>3. PICK i \in Ids :
           /\ effect' = [effect EXCEPT ![i] = [key |-> KeyOf(h), body |-> handler[h].body,
                                               life |-> lapses[KeyOf(h)]]]
           /\ InsertOutbox(i) /\ Answers(h, i) /\ Finalize(h)
    BY <1>4 DEF Commit
  <2>4. handler' \in [Handlers -> Request \cup {IdleHandler}]  BY <2>1, <2>3, HandlerTyped
  <2>5. handler'[h].answer = i  BY <2>3 DEF Answers, TypeOK
  <2>6. receipt' \in [Keys -> Receipt \cup {NoReceipt}]
    BY <2>2, <2>3, <2>5 DEF Finalize, TypeOK, Receipt
  <2>7. effect' \in [Ids -> Effect \cup {NoEffect}]  BY <2>2, <2>3 DEF TypeOK, Effect
  <2>8. event' \in [Ids -> {"none", "pending", "delayed", "published", "removed"}]
    BY <2>3 DEF InsertOutbox, TypeOK
  <2>9. lock' \in [Keys -> Handlers \cup {NoHandler}]  BY <1>4 DEF Commit, TypeOK
  <2> QED
    BY <1>4, <2>4, <2>6, <2>7, <2>8, <2>9 DEF Commit, TypeOK, bounds, Request, Receipt, Effect
<1>5. ASSUME NEW h \in Handlers, Refuse(h) \/ HandlerDies(h) PROVE TypeOK'
  <2>1. handler' \in [Handlers -> Request \cup {IdleHandler}]
    BY <1>5, HandlerTyped DEF Refuse, HandlerDies
  <2>2. lock' \in [Keys -> Handlers \cup {NoHandler}]
    BY <1>5 DEF Refuse, HandlerDies, RollsBack, TypeOK
  <2>3. UNCHANGED <<receipt, effect, lapses, outbox, requests>> /\ faults' \in 0..MaxFaults
    BY <1>5 DEF Refuse, HandlerDies, bounds, TypeOK
  <2> QED  BY <2>1, <2>2, <2>3 DEF TypeOK, outbox, Request
<1>6. ASSUME NEW h \in Handlers, Respond(h) PROVE TypeOK'
  <2>1. handler' \in [Handlers -> Request \cup {IdleHandler}]  BY <1>6, HandlerTyped DEF Respond
  <2> QED  BY <1>6, <2>1 DEF Respond, TypeOK, receipts, outbox, bounds, Request
<1>7. ASSUME NEW k \in Keys, ReceiptExpires(k) PROVE TypeOK'
  <2>1. receipt' \in [Keys -> Receipt \cup {NoReceipt}]
    BY <1>7, Exists DEF ReceiptExpires, Binding, TypeOK, Receipt
  <2>2. lapses' \in [Keys -> 0..MaxLapses]  BY <1>7 DEF ReceiptExpires, TypeOK
  <2> QED  BY <1>7, <2>1, <2>2 DEF ReceiptExpires, TypeOK, outbox, bounds, Receipt
<1>8. ASSUME NEW p \in Publishers, PublisherNext(p) PROVE TypeOK'
  <2>1. publisher' \in [Publishers -> Batch \cup {IdlePublisher}]
    <3>1. publisher \in [Publishers -> Batch \cup {IdlePublisher}]  BY DEF TypeOK, Batch
    <3>2. [step |-> "send", batch |-> publisher[p].batch, id |-> NoId] \in Batch
      BY <3>1 DEF IdlePublisher, Batch
    <3>3. CASE Poll(p)  BY <3>1, <3>3 DEF Poll, Batch
    <3>4. ASSUME NEW i \in Ids, Send(p, i) \/ SendFails(p, i)
          PROVE publisher' \in [Publishers -> Batch \cup {IdlePublisher}]
      <4>1. publisher[p].batch \in SUBSET Ids  BY <3>1, <3>4 DEF Batch, IdlePublisher
      <4>2. \A s \in {"mark", "retry"} : [step |-> s, batch |-> publisher[p].batch \ {i}, id |-> i] \in Batch
        BY <4>1 DEF Batch
      <4> QED  BY <3>1, <3>4, <4>2 DEF Send, SendFails
    <3>5. CASE MarkPublished(p) \/ MarkRetry(p)
      BY <3>1, <3>2, <3>5 DEF MarkPublished, MarkRetry, NextEvent
    <3>6. CASE PublisherDies(p)  BY <3>1, <3>6 DEF PublisherDies
    <3> QED  BY <1>8, <3>3, <3>4, <3>5, <3>6 DEF PublisherNext, Publish
  <2>2. event' \in [Ids -> {"none", "pending", "delayed", "published", "removed"}]
    BY <1>8 DEF PublisherNext, Publish, Poll, Send, SendFails, MarkPublished, MarkRetry,
                PublisherDies, TypeOK
  <2>3. sent' \in SUBSET Ids /\ faults' \in 0..MaxFaults
        /\ UNCHANGED <<receipts, handler, requests>>
    BY <1>8 DEF PublisherNext, Publish, Poll, Send, SendFails, MarkPublished, MarkRetry,
                PublisherDies, TypeOK, bounds
  <2> QED  BY <2>1, <2>2, <2>3 DEF TypeOK, receipts, Batch
<1>9. ASSUME NEW i \in Ids, RetryDue(i) \/ RemoveRetained(i) PROVE TypeOK'
  BY <1>9 DEF RetryDue, RemoveRetained, TypeOK, receipts, bounds
<1>10. CASE UNCHANGED vars  BY <1>10 DEF vars, TypeOK
<1> QED
  BY <1>1, <1>2, <1>3, <1>4, <1>5, <1>6, <1>7, <1>8, <1>9, <1>10
  DEF Next, HandlerNext, HandlerStep

-----------------------------------------------------------------------------
(* Receipts and answers *)

ReceiptFacts == LockInv /\ ReceiptInv /\ LifeInv /\ AnswerInv /\ Replayable /\ AnswersOwnMutation

\* A handler's step that leaves the receipts alone keeps the facts, if the
\* handler is not in a transaction before or after it, and if an answer that it
\* now has is the one of a binding receipt.
LEMMA QuietStep ==
  ASSUME TypeOK, TypeOK', ReceiptFacts, NEW h \in Handlers, UNCHANGED receipts,
         ~At(h, "mutate"), ~At(h, "mutate")',
         \A g \in Handlers \ {h} : handler'[g] = handler[g],
         ~At(h, "idle")' => handler'[h].since <= lapses[handler'[h].key],
         At(h, "answer")' =>
           LET k == handler'[h].key IN
           /\ k \in Keys /\ Binding(k)
           /\ handler'[h].answer = receipt[k].id /\ handler'[h].body = receipt[k].body
  PROVE  ReceiptFacts'
<1>1. Replayable'  BY DEF ReceiptFacts, Replayable, receipts
<1>2. ReceiptInv'  BY DEF ReceiptFacts, ReceiptInv, receipts
<1>3. LifeInv'     BY DEF ReceiptFacts, LifeInv, receipts, At, KeyOf
<1>4. LockInv'
  <2>1. \A g \in Handlers : At(g, "mutate")' => lock'[KeyOf(g)'] = g /\ ~Binding(KeyOf(g))'
    BY DEF ReceiptFacts, LockInv, receipts, At, KeyOf, Binding
  <2>2. \A k \in Keys : lock'[k] # NoHandler => At(lock[k], "mutate")' /\ (KeyOf(lock[k]) = k)'
    BY DEF ReceiptFacts, LockInv, receipts, At, KeyOf, TypeOK
  <2> QED  BY <2>1, <2>2 DEF LockInv
<1>5. CASE At(h, "answer")'
  <2> DEFINE k == handler'[h].key
             e == effect[receipt[k].id]
  <2>1. k \in Keys /\ Binding(k) /\ handler'[h].answer = receipt[k].id
        /\ handler'[h].body = receipt[k].body
    BY <1>5
  <2>2. receipt[k].id \in Ids  BY <2>1, Exists DEF Binding, Receipt
  <2>3. e # NoEffect /\ e.key = k /\ e.body = receipt[k].body /\ e.life = lapses[k]
    BY <2>1 DEF ReceiptFacts, ReceiptInv, Binding
  <2>4. handler'[h].since <= lapses[k]  BY <1>5 DEF At
  <2>5. e.life >= handler'[h].since  BY <2>1, <2>3, <2>4 DEF TypeOK
  <2>6. \A g \in Handlers : At(g, "answer")' =>
          /\ handler'[g].answer \in Ids /\ effect'[handler'[g].answer] # NoEffect
          /\ effect'[handler'[g].answer].key = handler'[g].key
          /\ effect'[handler'[g].answer].body = handler'[g].body
          /\ effect'[handler'[g].answer].life >= handler'[g].since
    BY <2>1, <2>2, <2>3, <2>5 DEF ReceiptFacts, AnswerInv, AnswersOwnMutation, At, receipts
  <2> QED  BY <1>1, <1>2, <1>3, <1>4, <2>6 DEF ReceiptFacts, AnswerInv, AnswersOwnMutation, At
<1>6. CASE ~At(h, "answer")'
  <2>1. AnswerInv'  BY <1>6 DEF ReceiptFacts, AnswerInv, At, receipts
  <2>2. AnswersOwnMutation'  BY <1>6 DEF ReceiptFacts, AnswersOwnMutation, At, receipts
  <2> QED  BY <1>1, <1>2, <1>3, <1>4, <2>1, <2>2 DEF ReceiptFacts
<1> QED  BY <1>5, <1>6

\* The transaction begins: the row was free and no receipt binds.
LEMMA ReserveStep ==
  ASSUME TypeOK, TypeOK', ReceiptFacts, NEW h \in Handlers, Reserve(h), Goes(h, "mutate"),
         ~Binding(KeyOf(h)), lock' = [lock EXCEPT ![KeyOf(h)] = h]
  PROVE  ReceiptFacts'
<1>0. At(h, "reserve") /\ KeyOf(h) \in Keys /\ lock[KeyOf(h)] = NoHandler
      /\ UNCHANGED <<receipt, effect, lapses>>
  BY Busy DEF Reserve, At
<1>1. /\ handler'[h] = [handler[h] EXCEPT !.step = "mutate"]
      /\ \A g \in Handlers \ {h} : handler'[g] = handler[g]
  BY DEF Goes, TypeOK
<1>2. /\ handler'[h].step = "mutate" /\ handler'[h].key = handler[h].key
      /\ handler'[h].since = handler[h].since
  BY <1>0, <1>1, Busy DEF Request, At
<1>3. Replayable' /\ ReceiptInv'  BY <1>0 DEF ReceiptFacts, Replayable, ReceiptInv
<1>4. LifeInv'  BY <1>0, <1>1, <1>2 DEF ReceiptFacts, LifeInv, At, KeyOf
<1>5. AnswerInv' /\ AnswersOwnMutation'
  <2>1. \A g \in Handlers : handler'[g].step = "answer" =>
          handler'[g] = handler[g] /\ handler[g].step = "answer"
    BY <1>1, <1>2
  <2>2. AnswerInv'  BY <1>0, <2>1 DEF ReceiptFacts, AnswerInv, At
  <2>3. AnswersOwnMutation'  BY <1>0, <2>1 DEF ReceiptFacts, AnswersOwnMutation, At
  <2> QED  BY <2>2, <2>3
<1>6. LockInv'
  <2>1. \A g \in Handlers \ {h} : At(g, "mutate") => KeyOf(g) # KeyOf(h)
    BY <1>0, ApiAssumption DEF ReceiptFacts, LockInv
  <2>2. \A g \in Handlers : At(g, "mutate")' => lock'[KeyOf(g)'] = g /\ ~Binding(KeyOf(g))'
    BY <1>0, <1>1, <1>2, <2>1, Busy DEF ReceiptFacts, LockInv, At, KeyOf, Binding, TypeOK
  <2>3. \A k \in Keys : lock'[k] # NoHandler => At(lock[k], "mutate")' /\ (KeyOf(lock[k]) = k)'
    <3> SUFFICES ASSUME NEW k \in Keys, lock'[k] # NoHandler
                 PROVE  handler'[lock'[k]].step = "mutate" /\ handler'[lock'[k]].key = k
      BY DEF At, KeyOf
    <3>1. CASE k = KeyOf(h)
      <4>1. lock'[k] = h  BY <1>0, <3>1 DEF TypeOK
      <4> QED  BY <1>2, <3>1, <4>1 DEF KeyOf
    <3>2. CASE k # KeyOf(h)
      <4>1. lock'[k] = lock[k]  BY <1>0, <3>2 DEF TypeOK
      <4>2. lock[k] \in Handlers /\ handler[lock[k]].step = "mutate" /\ handler[lock[k]].key = k
        BY <4>1 DEF ReceiptFacts, LockInv, At, KeyOf, TypeOK
      <4> QED  BY <1>1, <3>2, <4>1, <4>2 DEF KeyOf
    <3> QED  BY <3>1, <3>2
  <2> QED  BY <2>2, <2>3 DEF LockInv
<1> QED  BY <1>3, <1>4, <1>5, <1>6 DEF ReceiptFacts

\* The transaction commits: no mutation of this life can exist, for its receipt
\* would bind, and the new one has its receipt.
LEMMA CommitStep ==
  ASSUME TypeOK, TypeOK', ReceiptFacts, NEW h \in Handlers, Commit(h)
  PROVE  ReceiptFacts'
<1> DEFINE k == KeyOf(h)
<1>0. At(h, "mutate") /\ k \in Keys /\ handler[h].body \in Bodies /\ ~Binding(k) /\ lock[k] = h
      /\ UNCHANGED lapses /\ lock' = [lock EXCEPT ![k] = NoHandler]
  BY Busy DEF Commit, At, Request, ReceiptFacts, LockInv
<1>1. PICK i \in Ids :
         /\ effect[i] = NoEffect
         /\ effect' = [effect EXCEPT ![i] = [key |-> k, body |-> handler[h].body,
                                             life |-> lapses[k]]]
         /\ Answers(h, i) /\ Finalize(h)
  BY DEF Commit
<1>2. /\ handler'[h] = [handler[h] EXCEPT !.step = "answer", !.answer = i]
      /\ \A g \in Handlers \ {h} : handler'[g] = handler[g]
  BY <1>1 DEF Answers, TypeOK
<1>3. /\ handler'[h].step = "answer" /\ handler'[h].key = k /\ handler'[h].answer = i
      /\ handler'[h].body = handler[h].body /\ handler'[h].since = handler[h].since
  BY <1>0, <1>2, Busy DEF Request, At, KeyOf
<1>4. receipt' = [receipt EXCEPT ![k] = [body |-> handler[h].body, id |-> i, expired |-> FALSE]]
  BY <1>1, <1>3 DEF Finalize
<1>5. effect'[i] = [key |-> k, body |-> handler[h].body, life |-> lapses[k]]
      /\ \A j \in Ids \ {i} : effect'[j] = effect[j]
  BY <1>1 DEF TypeOK
<1>6. receipt'[k] = [body |-> handler[h].body, id |-> i, expired |-> FALSE]
      /\ \A l \in Keys \ {k} : receipt'[l] = receipt[l]
  BY <1>0, <1>4 DEF TypeOK
<1>7. \A j \in Ids : effect[j] # NoEffect => effect[j].key \in Keys
  BY DEF TypeOK
<1>8. effect'[i] # NoEffect  BY <1>0, <1>5, ApiAssumption DEF NoEffect
<1>9. Replayable'
  <2>1. \A j \in Ids : effect[j] # NoEffect /\ effect[j].key = k => effect[j].life # lapses[k]
    <3> SUFFICES ASSUME NEW j \in Ids, effect[j] # NoEffect, effect[j].key = k,
                        effect[j].life = lapses[k]
                 PROVE  FALSE
      OBVIOUS
    <3>1. receipt[k] = [body |-> effect[j].body, id |-> j, expired |-> FALSE]
      BY DEF ReceiptFacts, Replayable
    <3>2. receipt[k] # NoReceipt  BY <3>1, ApiAssumption DEF NoReceipt
    <3> QED  BY <1>0, <3>1, <3>2 DEF Binding
  <2>2. ASSUME NEW j \in Ids, j # i, effect[j] # NoEffect, effect[j].life = lapses[effect[j].key]
        PROVE  receipt'[effect[j].key] = [body |-> effect[j].body, id |-> j, expired |-> FALSE]
    <3>1. effect[j].key \in Keys \ {k}  BY <1>7, <2>1, <2>2
    <3>2. receipt[effect[j].key] = [body |-> effect[j].body, id |-> j, expired |-> FALSE]
      BY <2>2 DEF ReceiptFacts, Replayable
    <3> QED  BY <1>6, <3>1, <3>2
  <2>3. ASSUME NEW j \in Ids, effect'[j] # NoEffect, effect'[j].life = lapses'[effect'[j].key]
        PROVE  receipt'[effect'[j].key] = [body |-> effect'[j].body, id |-> j, expired |-> FALSE]
    <3>1. CASE j = i
      <4>1. effect'[i].key = k /\ effect'[i].body = handler[h].body  BY <1>5
      <4> HIDE DEF k
      <4> QED  BY <1>6, <3>1, <4>1
    <3>2. CASE j # i  BY <1>0, <1>5, <2>2, <2>3, <3>2
    <3> QED  BY <3>1, <3>2
  <2> QED  BY <2>3 DEF Replayable
<1>10. ReceiptInv'
  <2>1. \A l \in Keys : receipt[l] # NoReceipt => receipt[l].id \in Ids
    BY Exists DEF Receipt
  <2>2. \A l \in Keys \ {k} : receipt[l] # NoReceipt => receipt[l].id # i
    BY <1>1 DEF ReceiptFacts, ReceiptInv
  <2> QED  BY <1>0, <1>5, <1>6, <1>8, <2>1, <2>2 DEF ReceiptFacts, ReceiptInv
<1>11. LifeInv'
  <2>1. \A j \in Ids : effect'[j] # NoEffect => effect'[j].life <= lapses'[effect'[j].key]
    BY <1>0, <1>5 DEF ReceiptFacts, LifeInv, TypeOK
  <2>2. \A g \in Handlers : handler'[g].step # "idle" => handler'[g].since <= lapses'[handler'[g].key]
    BY <1>0, <1>2, <1>3 DEF ReceiptFacts, LifeInv, At, KeyOf
  <2> QED  BY <2>1, <2>2 DEF LifeInv, At, KeyOf
<1>12. AnswerInv' /\ AnswersOwnMutation'
  <2>1. \A g \in Handlers \ {h} : At(g, "answer") => handler[g].answer \in Ids \ {i}
    BY <1>1 DEF ReceiptFacts, AnswerInv
  <2>2. lapses[k] >= handler[h].since  BY <1>0 DEF ReceiptFacts, LifeInv, At, TypeOK
  <2>3. ASSUME NEW g \in Handlers, handler'[g].step = "answer"
        PROVE  /\ handler'[g].answer \in Ids /\ effect'[handler'[g].answer] # NoEffect
               /\ effect'[handler'[g].answer].key = handler'[g].key
               /\ effect'[handler'[g].answer].body = handler'[g].body
               /\ effect'[handler'[g].answer].life >= handler'[g].since
    <3>1. CASE g = h  BY <1>3, <1>5, <1>8, <2>2, <3>1
    <3>2. CASE g # h
      <4>1. handler'[g] = handler[g] /\ At(g, "answer")  BY <1>2, <2>3, <3>2 DEF At
      <4>2. effect'[handler[g].answer] = effect[handler[g].answer]  BY <1>5, <2>1, <3>2, <4>1
      <4> QED  BY <4>1, <4>2 DEF ReceiptFacts, AnswerInv, AnswersOwnMutation
    <3> QED  BY <3>1, <3>2
  <2> QED  BY <2>3 DEF AnswerInv, AnswersOwnMutation, At
<1>13. LockInv'
  <2>1. \A g \in Handlers \ {h} : At(g, "mutate") => KeyOf(g) # k
    BY <1>0 DEF ReceiptFacts, LockInv
  <2>2. \A g \in Handlers : At(g, "mutate")' => lock'[KeyOf(g)'] = g /\ ~Binding(KeyOf(g))'
    <3> SUFFICES ASSUME NEW g \in Handlers, handler'[g].step = "mutate"
                 PROVE  lock'[handler'[g].key] = g
                        /\ ~(receipt'[handler'[g].key] # NoReceipt /\ ~receipt'[handler'[g].key].expired)
      BY DEF At, KeyOf, Binding
    <3>1. g # h /\ handler'[g] = handler[g] /\ At(g, "mutate")  BY <1>2, <1>3 DEF At
    <3>2. handler[g].key \in Keys \ {k}  BY <2>1, <3>1, Busy DEF At, KeyOf
    <3>3. lock[handler[g].key] = g /\ ~Binding(handler[g].key)
      BY <3>1 DEF ReceiptFacts, LockInv, KeyOf
    <3>4. lock'[handler[g].key] = g  BY <1>0, <3>2, <3>3 DEF TypeOK
    <3> QED  BY <1>6, <3>1, <3>2, <3>3, <3>4 DEF Binding
  <2>3. \A l \in Keys : lock'[l] # NoHandler => At(lock[l], "mutate")' /\ (KeyOf(lock[l]) = l)'
    <3> SUFFICES ASSUME NEW l \in Keys, lock'[l] # NoHandler
                 PROVE  handler'[lock'[l]].step = "mutate" /\ handler'[lock'[l]].key = l
      BY DEF At, KeyOf
    <3>1. l # k /\ lock'[l] = lock[l]  BY <1>0 DEF TypeOK
    <3>2. lock[l] \in Handlers /\ handler[lock[l]].step = "mutate" /\ handler[lock[l]].key = l
      BY <3>1 DEF ReceiptFacts, LockInv, At, KeyOf, TypeOK
    <3> QED  BY <1>0, <1>2, <3>1, <3>2 DEF KeyOf
  <2> QED  BY <2>2, <2>3 DEF LockInv
<1> QED  BY <1>9, <1>10, <1>11, <1>12, <1>13 DEF ReceiptFacts

\* A transaction that ends without a commit leaves the receipts as they were.
LEMMA RollbackStep ==
  ASSUME TypeOK, TypeOK', ReceiptFacts, NEW h \in Handlers, Ends(h), RollsBack(h),
         UNCHANGED <<receipt, effect, lapses>>
  PROVE  ReceiptFacts'
<1>1. handler'[h] = IdleHandler /\ \A g \in Handlers \ {h} : handler'[g] = handler[g]
  BY DEF Ends, TypeOK
<1>2. handler'[h].step = "idle"  BY <1>1 DEF IdleHandler
<1>3. Replayable' /\ ReceiptInv'  BY DEF ReceiptFacts, Replayable, ReceiptInv
<1>4. LifeInv'  BY <1>1, <1>2 DEF ReceiptFacts, LifeInv, At, KeyOf
<1>5. AnswerInv' /\ AnswersOwnMutation'
  BY <1>1, <1>2 DEF ReceiptFacts, AnswerInv, AnswersOwnMutation, At
<1>6. LockInv'
  <2>1. \A g \in Handlers : At(g, "mutate")' => lock'[KeyOf(g)'] = g /\ ~Binding(KeyOf(g))'
    BY <1>1, <1>2, Busy DEF ReceiptFacts, LockInv, At, KeyOf, Binding, RollsBack
  <2>2. \A l \in Keys : lock'[l] # NoHandler => At(lock[l], "mutate")' /\ (KeyOf(lock[l]) = l)'
    <3> SUFFICES ASSUME NEW l \in Keys, lock'[l] # NoHandler
                 PROVE  handler'[lock'[l]].step = "mutate" /\ handler'[lock'[l]].key = l
      BY DEF At, KeyOf
    <3>1. lock[l] # h /\ lock'[l] = lock[l]  BY DEF RollsBack
    <3>2. lock[l] \in Handlers /\ handler[lock[l]].step = "mutate" /\ handler[lock[l]].key = l
      BY <3>1 DEF ReceiptFacts, LockInv, At, KeyOf, TypeOK
    <3> QED  BY <1>1, <3>1, <3>2
  <2> QED  BY <2>1, <2>2 DEF LockInv
<1> QED  BY <1>3, <1>4, <1>5, <1>6 DEF ReceiptFacts

\* A receipt expires: its life is over and no mutation has the next one yet.
LEMMA ExpiryStep ==
  ASSUME TypeOK, TypeOK', ReceiptFacts, NEW k \in Keys, ReceiptExpires(k)
  PROVE  ReceiptFacts'
<1>0. Binding(k) /\ UNCHANGED <<lock, handler, effect>>
      /\ receipt' = [receipt EXCEPT ![k].expired = TRUE]
      /\ lapses' = [lapses EXCEPT ![k] = @ + 1]
  BY DEF ReceiptExpires
<1>1. lapses'[k] = lapses[k] + 1 /\ \A l \in Keys \ {k} : lapses'[l] = lapses[l]
  BY <1>0 DEF TypeOK
<1>2. /\ receipt'[k] = [receipt[k] EXCEPT !.expired = TRUE]
      /\ \A l \in Keys \ {k} : receipt'[l] = receipt[l]
  BY <1>0 DEF TypeOK
<1>3. /\ receipt[k] # NoReceipt
      /\ receipt'[k].id = receipt[k].id /\ receipt'[k].body = receipt[k].body /\ receipt'[k].expired
  BY <1>0, <1>2, Exists DEF Binding, Receipt
<1>4. \A l \in Keys : lapses[l] \in Nat  BY ApiAssumption DEF TypeOK
<1>5. \A i \in Ids : effect[i] # NoEffect => effect[i].key \in Keys /\ effect[i].life \in Nat
  BY ApiAssumption DEF TypeOK
<1>6. Replayable'
  <2>1. \A i \in Ids : effect[i] # NoEffect /\ effect[i].key = k => effect[i].life # lapses'[k]
    BY <1>1, <1>4, <1>5 DEF ReceiptFacts, LifeInv
  <2> QED  BY <1>0, <1>1, <1>2, <1>5, <2>1 DEF ReceiptFacts, Replayable
<1>7. ReceiptInv'  BY <1>0, <1>1, <1>2, <1>3 DEF ReceiptFacts, ReceiptInv
<1>8. LifeInv'
  <2>1. \A i \in Ids : effect'[i] # NoEffect => effect'[i].life <= lapses'[effect'[i].key]
    BY <1>0, <1>1, <1>4, <1>5 DEF ReceiptFacts, LifeInv
  <2>2. \A h \in Handlers : handler[h].step # "idle" =>
          handler[h].key \in Keys /\ handler[h].since \in Nat /\ handler[h].since <= lapses[handler[h].key]
    BY Busy, ApiAssumption DEF ReceiptFacts, LifeInv, At, KeyOf, Request
  <2> QED  BY <1>0, <1>1, <1>4, <2>1, <2>2 DEF LifeInv, At, KeyOf
<1>9. AnswerInv' /\ AnswersOwnMutation'
  BY <1>0 DEF ReceiptFacts, AnswerInv, AnswersOwnMutation, At
<1>10. LockInv'
  <2>1. \A h \in Handlers : At(h, "mutate") => KeyOf(h) # k  BY <1>0 DEF ReceiptFacts, LockInv
  <2>2. \A h \in Handlers : At(h, "mutate")' => lock'[KeyOf(h)'] = h /\ ~Binding(KeyOf(h))'
    BY <1>0, <1>2, <2>1, Busy DEF ReceiptFacts, LockInv, At, KeyOf, Binding
  <2> QED  BY <1>0, <2>2 DEF ReceiptFacts, LockInv, At, KeyOf
<1> QED  BY <1>6, <1>7, <1>8, <1>9, <1>10 DEF ReceiptFacts

LEMMA ReceiptStep == ASSUME TypeOK, TypeOK', ReceiptFacts, [Next]_vars PROVE ReceiptFacts'
<1>1. ASSUME NEW h \in Handlers, NEW k \in Keys, NEW b \in Bodies, Arrive(h, k, b)
      PROVE  ReceiptFacts'
  <2>1. PICK s \in {"lookup", "reserve"} :
          handler' = [handler EXCEPT ![h] = [step |-> s, key |-> k, body |-> b,
                                             since |-> lapses[k], answer |-> NoId]]
    BY <1>1 DEF Arrive
  <2>2. handler'[h] = [step |-> s, key |-> k, body |-> b, since |-> lapses[k], answer |-> NoId]
        /\ \A g \in Handlers \ {h} : handler'[g] = handler[g]
    BY <2>1 DEF TypeOK
  <2>3. ~At(h, "mutate") /\ ~At(h, "mutate")' /\ ~At(h, "answer")'
    BY <1>1, <2>2 DEF Arrive, At
  <2>4. handler'[h].since <= lapses[handler'[h].key]  BY <2>2, ApiAssumption DEF TypeOK
  <2> QED  BY <1>1, <2>2, <2>3, <2>4, QuietStep DEF Arrive
<1>2. ASSUME NEW h \in Handlers, UNCHANGED receipts, ~At(h, "mutate"), Ends(h)
      PROVE  ReceiptFacts'
  <2>1. handler'[h].step = "idle" /\ \A g \in Handlers \ {h} : handler'[g] = handler[g]
    BY <1>2 DEF Ends, TypeOK, IdleHandler
  <2> QED  BY <1>2, <2>1, QuietStep DEF At
<1>3. ASSUME NEW h \in Handlers, UNCHANGED receipts, At(h, "lookup"), Goes(h, "reserve")
      PROVE  ReceiptFacts'
  <2>1. handler'[h] = [handler[h] EXCEPT !.step = "reserve"]
        /\ \A g \in Handlers \ {h} : handler'[g] = handler[g]
    BY <1>3 DEF Goes, TypeOK
  <2>2. ~At(h, "idle")  BY <1>3 DEF At
  <2>3. handler'[h].step = "reserve" /\ handler'[h].since = handler[h].since
        /\ handler'[h].key = handler[h].key
    BY <2>1, <2>2, Busy DEF Request
  <2>4. handler'[h].since <= lapses[handler'[h].key]
    BY <2>2, <2>3 DEF ReceiptFacts, LifeInv, KeyOf
  <2> QED  BY <1>3, <2>1, <2>3, <2>4, QuietStep DEF At
<1>4. ASSUME NEW h \in Handlers, UNCHANGED receipts, At(h, "lookup") \/ At(h, "reserve"),
             Binding(KeyOf(h)), receipt[KeyOf(h)].body = handler[h].body,
             Answers(h, receipt[KeyOf(h)].id)
      PROVE  ReceiptFacts'
  <2>1. handler'[h] = [handler[h] EXCEPT !.step = "answer", !.answer = receipt[KeyOf(h)].id]
        /\ \A g \in Handlers \ {h} : handler'[g] = handler[g]
    BY <1>4 DEF Answers, TypeOK
  <2>2. ~At(h, "idle") /\ ~At(h, "mutate")  BY <1>4 DEF At
  <2>3. /\ handler'[h].step = "answer" /\ handler'[h].since = handler[h].since
        /\ handler'[h].key = handler[h].key /\ handler'[h].key \in Keys
        /\ handler'[h].body = handler[h].body
        /\ handler'[h].answer = receipt[KeyOf(h)].id
    BY <2>1, <2>2, Busy DEF Request, KeyOf
  <2>4. handler'[h].since <= lapses[handler'[h].key]
    BY <2>2, <2>3 DEF ReceiptFacts, LifeInv, KeyOf
  <2> QED  BY <1>4, <2>1, <2>2, <2>3, <2>4, QuietStep DEF At, KeyOf
<1>5. ASSUME NEW h \in Handlers, Lookup(h) PROVE ReceiptFacts'
  BY <1>2, <1>3, <1>4, <1>5 DEF Lookup, At
<1>6. ASSUME NEW h \in Handlers, Reserve(h) PROVE ReceiptFacts'
  <2>1. CASE /\ ~Binding(KeyOf(h)) /\ Goes(h, "mutate")
             /\ lock' = [lock EXCEPT ![KeyOf(h)] = h]
    BY <1>6, <2>1, ReserveStep
  <2>2. CASE UNCHANGED lock
    <3>1. UNCHANGED receipts  BY <1>6, <2>2 DEF Reserve, receipts
    <3>2. At(h, "reserve") /\ ~At(h, "mutate")  BY <1>6 DEF Reserve, At
    <3>3. CASE Ends(h)  BY <1>2, <3>1, <3>2, <3>3
    <3>4. CASE Binding(KeyOf(h)) /\ receipt[KeyOf(h)].body = handler[h].body
               /\ Answers(h, receipt[KeyOf(h)].id)
      BY <1>4, <3>1, <3>2, <3>4
    <3> QED  BY <1>6, <2>1, <3>3, <3>4 DEF Reserve
  <2> QED  BY <1>6, <2>1, <2>2 DEF Reserve
<1>7. ASSUME NEW h \in Handlers, Commit(h) PROVE ReceiptFacts'  BY <1>7, CommitStep
<1>8. ASSUME NEW h \in Handlers, Refuse(h) \/ HandlerDies(h) PROVE ReceiptFacts'
  BY <1>8, RollbackStep DEF Refuse, HandlerDies
<1>9. ASSUME NEW h \in Handlers, Respond(h) PROVE ReceiptFacts'
  BY <1>2, <1>9 DEF Respond, At
<1>10. ASSUME NEW k \in Keys, ReceiptExpires(k) PROVE ReceiptFacts'  BY <1>10, ExpiryStep
<1>11. ASSUME UNCHANGED <<receipts, handler>> PROVE ReceiptFacts'
  BY <1>11 DEF receipts, ReceiptFacts, LockInv, ReceiptInv, LifeInv, AnswerInv, Replayable,
               AnswersOwnMutation, At, KeyOf, Binding
<1>12. ASSUME NEW p \in Publishers, PublisherNext(p) PROVE UNCHANGED <<receipts, handler>>
  BY <1>12 DEF PublisherNext, Publish, Poll, Send, SendFails, MarkPublished, MarkRetry, PublisherDies
<1>13. ASSUME NEW i \in Ids, RetryDue(i) \/ RemoveRetained(i) PROVE UNCHANGED <<receipts, handler>>
  BY <1>13 DEF RetryDue, RemoveRetained
<1>14. CASE UNCHANGED vars  BY <1>11, <1>14 DEF vars, receipts
<1> QED
  BY <1>1, <1>5, <1>6, <1>7, <1>8, <1>9, <1>10, <1>11, <1>12, <1>13, <1>14
  DEF Next, HandlerNext, HandlerStep

-----------------------------------------------------------------------------
(* The outbox *)

LEMMA OutboxStep ==
  ASSUME TypeOK, PublisherInv, NoEventLost, [Next]_vars PROVE PublisherInv' /\ NoEventLost'
<1>1. ASSUME NEW h \in Handlers, Commit(h) PROVE PublisherInv' /\ NoEventLost'
  BY <1>1 DEF Commit, InsertOutbox, PublisherInv, NoEventLost, TypeOK
<1>2. ASSUME UNCHANGED <<effect, event, sent, publisher>> PROVE PublisherInv' /\ NoEventLost'
  BY <1>2 DEF PublisherInv, NoEventLost
<1>3. ASSUME NEW h \in Handlers,
             \/ \E k \in Keys, b \in Bodies : Arrive(h, k, b)
             \/ Lookup(h) \/ Reserve(h) \/ Refuse(h) \/ Respond(h) \/ HandlerDies(h)
      PROVE UNCHANGED <<effect, event, sent, publisher>>
  BY <1>3 DEF Arrive, Lookup, Reserve, Refuse, Respond, HandlerDies, receipts, outbox
<1>4. ASSUME NEW k \in Keys, ReceiptExpires(k) PROVE UNCHANGED <<effect, event, sent, publisher>>
  BY <1>4 DEF ReceiptExpires, outbox
<1>5. ASSUME NEW p \in Publishers, Poll(p) \/ PublisherDies(p) PROVE PublisherInv' /\ NoEventLost'
  BY <1>5 DEF Poll, PublisherDies, PublisherInv, NoEventLost, TypeOK, IdlePublisher, receipts
<1>6. ASSUME NEW p \in Publishers, NEW i \in Ids, Send(p, i) \/ SendFails(p, i)
      PROVE PublisherInv' /\ NoEventLost'
  BY <1>6 DEF Send, SendFails, PublisherInv, NoEventLost, TypeOK, receipts
<1>7. ASSUME NEW p \in Publishers, MarkPublished(p) \/ MarkRetry(p)
      PROVE PublisherInv' /\ NoEventLost'
  BY <1>7 DEF MarkPublished, MarkRetry, NextEvent, IdlePublisher, PublisherInv, NoEventLost, TypeOK,
              receipts
<1>8. ASSUME NEW i \in Ids, RetryDue(i) \/ RemoveRetained(i) PROVE PublisherInv' /\ NoEventLost'
  BY <1>8 DEF RetryDue, RemoveRetained, PublisherInv, NoEventLost, TypeOK, receipts
<1>9. CASE UNCHANGED vars  BY <1>2, <1>9 DEF vars
<1> QED
  BY <1>1, <1>2, <1>3, <1>4, <1>5, <1>6, <1>7, <1>8, <1>9
  DEF Next, HandlerNext, HandlerStep, PublisherNext, Publish

-----------------------------------------------------------------------------
\* Receipts, transactions, answers and events stay consistent, whatever
\* handlers and publishers race, fail or die.
THEOREM MutationInductive == Spec => []IndInv
<1>1. Init => IndInv
  BY TypeInit, ApiAssumption
  DEF Init, IndInv, LockInv, ReceiptInv, LifeInv, AnswerInv, PublisherInv, Replayable,
      AnswersOwnMutation, NoEventLost, At, IdleHandler, IdlePublisher
<1>2. IndInv /\ [Next]_vars => IndInv'
  BY TypeStep, ReceiptStep, OutboxStep DEF IndInv, ReceiptFacts
<1> QED  BY <1>1, <1>2, PTL DEF Spec

\* The tables and the processes keep their types.
THEOREM MutationTyped == Spec => []TypeOK
BY MutationInductive, PTL DEF IndInv

\* A committed mutation has its exact replay receipt while the receipt lives:
\* repetitions never perform it again.
THEOREM AlwaysReplayable == Spec => []Replayable
BY MutationInductive, PTL DEF IndInv

\* Every answer is the one of the request's own mutation, in a life of the
\* receipt that the request has seen.
THEOREM AlwaysAnswersOwnMutation == Spec => []AnswersOwnMutation
BY MutationInductive, PTL DEF IndInv

\* No event of a committed mutation leaves the outbox before the stream has it.
THEOREM NoEventEverLost == Spec => []NoEventLost
BY MutationInductive, PTL DEF IndInv
==============================================================================
