----------------------------- MODULE OutboxProofs -----------------------------
(***************************************************************************)
(* The safety properties of Outbox, for any number of workers, recipients  *)
(* and events, and the queue that it implements.                           *)
(***************************************************************************)
EXTENDS Outbox, FiniteSetTheorems, TLAPS

\* Types, and the place of each loop in its batch, which the types of what is
\* written for a row need.
TypeInv == TypeOK /\ BatchesAreInOrder

-----------------------------------------------------------------------------
(* Types and batches *)

\* The workers start with no rows.
LEMMA TypeInit == Init => TypeInv
<1> SUFFICES ASSUME Init PROVE TypeInv
  OBVIOUS
<1>1. Cardinality(open) = 0 /\ Len(events) = 0
  BY FS_EmptySet DEF Init
<1>2. stream \in Seq(EventIds) /\ events \in Seq(Nat)
  BY DEF Init
<1>3. TypeOK
  BY <1>1, <1>2, OutboxAssumption DEF Init, TypeOK, EventIds, NoRows
<1> QED
  BY <1>3, OutboxAssumption DEF TypeInv, BatchesAreInOrder, InHands, Init, NoRows

\* Finitely many sends are open, and the bound on them bounds the events.
LEMMA OpenIsFinite == ASSUME TypeOK PROVE IsFiniteSet(open) /\ Cardinality(open) \in Nat
<1>1. 1 \in Int /\ clock \in Int
  BY DEF TypeOK
<1>2. IsFiniteSet(1..clock)
  BY <1>1, FS_Interval
<1>3. open \in SUBSET (1..clock)
  BY DEF TypeOK
<1>4. IsFiniteSet(open)
  BY <1>2, <1>3, FS_Subset
<1> QED
  BY <1>4, FS_CardinalityType

\* The rows of the outbox are among the ids the constants allow.
LEMMA EventsAreIds == ASSUME TypeOK PROVE DOMAIN events \subseteq EventIds
<1>1. Len(events) \in Nat /\ DOMAIN events = 1..Len(events)
  BY DEF TypeOK
<1>2. clock \in Nat /\ Len(events) + Cardinality(open) = clock /\ clock <= MaxEvents
  BY DEF TypeOK
<1>3. Len(events) <= MaxEvents
  BY <1>1, <1>2, OpenIsFinite, OutboxAssumption
<1> QED
  BY <1>1, <1>3, OutboxAssumption DEF EventIds

\* Id 0 is that of no row.
LEMMA NoRowIsZero == 0 \notin EventIds
BY OutboxAssumption DEF EventIds

\* A batch that ends leaves its worker empty-handed.
LEMMA EndBatchType ==
  ASSUME TypeInv, NEW w \in Workers, EndBatch(w), events' = events,
         \A n \in EventIds : lost[n] > 0 => lost'[n] > 0
  PROVE  /\ batch' \in [Workers -> SUBSET EventIds] /\ todo' \in [Workers -> SUBSET EventIds]
         /\ failed' \in [Workers -> SUBSET EventIds]
         /\ event' \in [Workers -> EventIds \cup {0}]
         /\ to' \in [Workers -> SUBSET Recipients] /\ mailed' \in [Workers -> SUBSET Recipients]
         /\ BatchesAreInOrder'
<1>1. /\ batch' \in [Workers -> SUBSET EventIds] /\ todo' \in [Workers -> SUBSET EventIds]
      /\ failed' \in [Workers -> SUBSET EventIds]
      /\ event' \in [Workers -> EventIds \cup {0}]
      /\ to' \in [Workers -> SUBSET Recipients] /\ mailed' \in [Workers -> SUBSET Recipients]
  BY DEF EndBatch, TypeInv, TypeOK
<1>2. /\ batch'[w] = {} /\ todo'[w] = {} /\ failed'[w] = {} /\ event'[w] = 0
      /\ to'[w] = {} /\ mailed'[w] = {}
  BY DEF EndBatch, TypeInv, TypeOK
<1>3. \A v \in Workers : v # w =>
        /\ batch'[v] = batch[v] /\ todo'[v] = todo[v] /\ failed'[v] = failed[v]
        /\ event'[v] = event[v] /\ to'[v] = to[v] /\ mailed'[v] = mailed[v]
  BY DEF EndBatch, TypeInv, TypeOK
<1>4. \A v \in Workers : InHands(v) \subseteq EventIds
  BY DEF InHands, TypeInv, TypeOK
<1>5. BatchesAreInOrder'
  BY <1>2, <1>3, <1>4 DEF TypeInv, BatchesAreInOrder, InHands
<1> QED
  BY <1>1, <1>5

\* A row that fails keeps types and order.
LEMMA RowFailsType ==
  ASSUME TypeInv, NEW w \in Workers, NEW n \in EventIds, n \in InHands(w),
         RowFails(w, n), UNCHANGED <<events, lost>>
  PROVE  /\ batch' \in [Workers -> SUBSET EventIds] /\ todo' \in [Workers -> SUBSET EventIds]
         /\ failed' \in [Workers -> SUBSET EventIds]
         /\ event' \in [Workers -> EventIds \cup {0}]
         /\ to' \in [Workers -> SUBSET Recipients] /\ mailed' \in [Workers -> SUBSET Recipients]
         /\ failures' \in Nat
         /\ BatchesAreInOrder'
<1>0. failures' \in Nat
  BY DEF RowFails, TypeInv, TypeOK
<1>1. CASE EndBatch(w)
  BY <1>0, <1>1, EndBatchType
<1>2. CASE batch[w] # {} /\ LeaveRow(w, n) /\ batch' = batch
           /\ failed' = [failed EXCEPT ![w] = @ \cup {n}]
  <2>1. n \in batch[w]
    BY <1>2 DEF TypeInv, BatchesAreInOrder
  <2>2. /\ batch' \in [Workers -> SUBSET EventIds] /\ todo' \in [Workers -> SUBSET EventIds]
        /\ failed' \in [Workers -> SUBSET EventIds]
        /\ event' \in [Workers -> EventIds \cup {0}]
        /\ to' \in [Workers -> SUBSET Recipients] /\ mailed' \in [Workers -> SUBSET Recipients]
    BY <1>2 DEF LeaveRow, TypeInv, TypeOK
  <2>3. /\ batch'[w] = batch[w] /\ todo'[w] = todo[w] \ {n} /\ event'[w] = 0
        /\ failed'[w] = failed[w] \cup {n} /\ to'[w] = {} /\ mailed'[w] = {}
    BY <1>2 DEF LeaveRow, TypeInv, TypeOK
  <2>4. \A v \in Workers : v # w =>
          /\ batch'[v] = batch[v] /\ todo'[v] = todo[v] /\ failed'[v] = failed[v]
          /\ event'[v] = event[v] /\ to'[v] = to[v] /\ mailed'[v] = mailed[v]
    BY <1>2 DEF LeaveRow, TypeInv, TypeOK
  <2>5. todo[w] \subseteq EventIds /\ failed[w] \subseteq EventIds
    BY DEF TypeInv, TypeOK
  <2>6. BatchesAreInOrder'
    BY <1>2, <2>1, <2>3, <2>4, <2>5, NoRowIsZero DEF TypeInv, BatchesAreInOrder, InHands
  <2> QED
    BY <1>0, <2>2, <2>6
<1> QED
  BY <1>1, <1>2 DEF RowFails

\* What publishing does to the stream.
LEMMA PublishType ==
  ASSUME TypeOK, NEW w \in Workers, NEW n \in EventIds,
         PublishIfEnabled(w, n) \/ UNCHANGED <<stream, dedup>>
  PROVE  stream' \in Seq(EventIds) /\ dedup' \subseteq EventIds
<1>1. stream \in Seq(EventIds) /\ dedup \subseteq EventIds
  BY DEF TypeOK
<1>2. Append(stream, n) \in Seq(EventIds)
  BY <1>1
<1>3. CASE Stored(n)
  BY <1>1, <1>2, <1>3 DEF Stored
<1>4. CASE UNCHANGED <<stream, dedup>>
  BY <1>1, <1>4
<1> QED
  BY <1>3, <1>4 DEF PublishIfEnabled

\* Every step of the producer, the workers and the clocks keeps the types.
LEMMA TypeStep == TypeInv /\ [Next]_vars => TypeInv'
<1> SUFFICES ASSUME TypeInv, [Next]_vars PROVE TypeInv'
  OBVIOUS
<1> USE DEF rowVars, rowState, natsVars, loopVars, mailVars, faultVars
<1>0. IsFiniteSet(open) /\ Cardinality(open) \in Nat
  BY OpenIsFinite DEF TypeInv
<1>1. CASE BeginSend
  <2>1. clock + 1 \notin open /\ open' = open \cup {clock + 1}
    BY <1>1 DEF BeginSend, TypeInv, TypeOK
  <2>2. Cardinality(open') = Cardinality(open) + 1
    BY <1>0, <2>1, FS_AddElement
  <2>3. clock' \in Nat /\ clock' <= MaxEvents /\ open' \subseteq 1..clock'
    BY <1>1, <2>1, OutboxAssumption DEF BeginSend, TypeInv, TypeOK
  <2>4. Len(events') + Cardinality(open') = clock'
    <3>1. events' = events /\ clock' = clock + 1
      BY <1>1 DEF BeginSend
    <3>2. Len(events) + Cardinality(open) = clock /\ Len(events) \in Nat
      BY DEF TypeInv, TypeOK
    <3> QED
      BY <1>0, <2>2, <3>1, <3>2
  <2>5. TypeOK'
    BY <1>1, <2>3, <2>4 DEF BeginSend, TypeInv, TypeOK
  <2> QED
    BY <1>1, <2>5 DEF BeginSend, TypeInv, BatchesAreInOrder, InHands
<1>2. CASE CommitSend
  <2>1. PICK t \in open : open' = open \ {t} /\ events' = Append(events, t)
    BY <1>2 DEF CommitSend
  <2>2. Cardinality(open') = Cardinality(open) - 1
    BY <1>0, <2>1, FS_RemoveElement
  <2>3. t \in Nat /\ Len(events') = Len(events) + 1 /\ events' \in Seq(Nat)
    BY <2>1 DEF TypeInv, TypeOK
  <2>4. TypeOK'
    BY <1>0, <1>2, <2>1, <2>2, <2>3 DEF CommitSend, TypeInv, TypeOK
  <2>5. DOMAIN events \subseteq DOMAIN events'
    BY <2>1 DEF TypeInv, TypeOK
  <2> QED
    BY <1>2, <2>4, <2>5 DEF CommitSend, TypeInv, BatchesAreInOrder, InHands
<1>3. ASSUME NEW w \in Workers, Fetch(w) PROVE TypeInv'
  <2>1. OldestOf(Fetchable) \subseteq EventIds
    BY EventsAreIds DEF OldestOf, Fetchable, Due, TypeInv
  <2>2. TypeOK'
    BY <1>3, <2>1 DEF Fetch, TypeInv, TypeOK
  <2>3. BatchesAreInOrder'
    <3> DEFINE rows == OldestOf(Fetchable)
    <3> HIDE DEF rows
    <3>1. /\ batch[w] = {} /\ todo[w] = {} /\ event[w] = 0
          /\ batch' = [batch EXCEPT ![w] = rows] /\ todo' = [todo EXCEPT ![w] = rows]
          /\ UNCHANGED <<events, lost, event, to, mailed, failed>>
      BY <1>3 DEF Fetch, InHands, TypeInv, TypeOK, rows
    <3>2. batch'[w] = rows /\ todo'[w] = rows /\ rows \subseteq EventIds
          /\ rows \subseteq DOMAIN events
      <4>1. OldestOf(Fetchable) \subseteq DOMAIN events
        BY DEF OldestOf, Fetchable, Due
      <4> QED
        BY <2>1, <3>1, <4>1 DEF TypeInv, TypeOK, rows
    <3>3. \A v \in Workers : v # w => batch'[v] = batch[v] /\ todo'[v] = todo[v]
      BY <3>1 DEF TypeInv, TypeOK
    <3> QED
      BY <3>1, <3>2, <3>3, NoRowIsZero DEF TypeInv, BatchesAreInOrder, InHands
  <2> QED
    BY <2>2, <2>3 DEF TypeInv
<1>4. ASSUME NEW w \in Workers, Publish(w) PROVE TypeInv'
  <2>1. PICK n \in todo[w], offline \in SUBSET Recipients :
          /\ NextRow(w, n) /\ PublishIfEnabled(w, n)
          /\ todo' = [todo EXCEPT ![w] = @ \ {n}]
          /\ event' = [event EXCEPT ![w] = n]
          /\ to' = [to EXCEPT ![w] = offline]
          /\ UNCHANGED <<rowVars, rowState, connected, batch, mailed, failed, mailVars,
                         faultVars>>
    BY <1>4 DEF Publish
  <2>2. n \in EventIds
    BY DEF TypeInv, TypeOK
  <2>3. stream' \in Seq(EventIds) /\ dedup' \subseteq EventIds
    BY <2>1, <2>2, PublishType DEF TypeInv
  <2>4. TypeOK'
    BY <2>1, <2>2, <2>3 DEF TypeInv, TypeOK
  <2>5. BatchesAreInOrder'
    <3>1. /\ todo'[w] = todo[w] \ {n} /\ event'[w] = n /\ event[w] = 0
          /\ n \in InHands(w) /\ n # 0
      BY <2>1, <2>2, NoRowIsZero DEF NextRow, InHands, TypeInv, TypeOK
    <3>2. \A v \in Workers : v # w =>
            todo'[v] = todo[v] /\ event'[v] = event[v] /\ to'[v] = to[v]
      BY <2>1 DEF TypeInv, TypeOK
    <3>3. InHands(w)' = InHands(w)
      BY <2>2, <3>1 DEF InHands
    <3>4. n \notin failed[w]
      BY DEF TypeInv, BatchesAreInOrder
    <3> QED
      BY <2>1, <3>1, <3>2, <3>3, <3>4 DEF TypeInv, BatchesAreInOrder, InHands
  <2> QED
    BY <2>4, <2>5 DEF TypeInv
<1>5. ASSUME NEW w \in Workers, PublishFails(w) PROVE TypeInv'
  <2>1. PICK n \in todo[w] :
          /\ PublishIfEnabled(w, n) \/ UNCHANGED <<stream, dedup>>
          /\ RowFails(w, n)
          /\ UNCHANGED <<rowVars, rowState, connected, mailVars, lost, aborts>>
    BY <1>5 DEF PublishFails
  <2>2. n \in EventIds
    BY DEF TypeInv, TypeOK
  <2>3. stream' \in Seq(EventIds) /\ dedup' \subseteq EventIds
    BY <2>1, <2>2, PublishType DEF TypeInv
  <2>4. n \in InHands(w)
    BY DEF InHands
  <2> QED
    BY <2>1, <2>2, <2>3, <2>4, RowFailsType DEF TypeInv, TypeOK
<1>6. ASSUME NEW w \in Workers, MarkProcessed(w) PROVE TypeInv'
  <2>1. CASE EndBatch(w)
    <3>1. UNCHANGED <<rowVars, rowState, natsVars, mailVars, faultVars>>
      BY <1>6 DEF MarkProcessed
    <3> QED
      BY <2>1, <3>1, EndBatchType DEF TypeInv, TypeOK
  <2>2. CASE batch[w] # {} /\ event' = [event EXCEPT ![w] = 0]
             /\ UNCHANGED <<batch, todo, to, mailed, failed>>
    <3>1. TypeOK'
      BY <1>6, <2>2 DEF MarkProcessed, TypeInv, TypeOK
    <3>2. event'[w] = 0 /\ \A v \in Workers : v # w => event'[v] = event[v]
      BY <2>2 DEF TypeInv, TypeOK
    <3>3. 0 \notin todo[w] \cup failed[w] /\ to[w] = {} /\ mailed[w] = {}
      BY <1>6, NoRowIsZero DEF MarkProcessed, TypeInv, TypeOK
    <3>4. BatchesAreInOrder'
      BY <1>6, <2>2, <3>2, <3>3 DEF MarkProcessed, TypeInv, BatchesAreInOrder, InHands
    <3> QED
      BY <3>1, <3>4 DEF TypeInv
  <2> QED
    BY <1>6, <2>1, <2>2 DEF MarkProcessed
<1>7. ASSUME NEW w \in Workers, Commit(w) PROVE TypeInv'
  <2>1. processed' \subseteq EventIds /\ waiting' \subseteq EventIds
    BY <1>7 DEF Commit, Done, TypeInv, TypeOK
  <2>2. tries' \in [EventIds -> Nat]
    BY <1>7 DEF Commit, TypeInv, TypeOK
  <2> QED
    BY <1>7, <2>1, <2>2, EndBatchType DEF Commit, TypeInv, TypeOK
<1>8. ASSUME NEW w \in Workers, Crash(w) \/ Disconnect(w) PROVE TypeInv'
  <2>1. /\ lost' \in [EventIds -> Nat] /\ aborts' \in Nat
        /\ \A n \in EventIds : lost[n] > 0 \/ n \in batch[w] => lost'[n] > 0
    <3>1. RolledBack(w)
      BY <1>8 DEF Crash, Disconnect
    <3>2. lost' = [n \in EventIds |-> IF n \in batch[w] THEN lost[n] + 1 ELSE lost[n]]
          /\ aborts' = aborts + 1
      BY <3>1 DEF RolledBack
    <3>3. lost \in [EventIds -> Nat] /\ aborts \in Nat
      BY DEF TypeInv, TypeOK
    <3>4. lost' \in [EventIds -> Nat] /\ aborts' \in Nat
      BY <3>2, <3>3
    <3>5. \A n \in EventIds : lost[n] > 0 \/ n \in batch[w] => lost'[n] > 0
      BY <3>2, <3>3
    <3> QED
      BY <3>4, <3>5
  <2>2. CASE Crash(w)
    <3>1. connected' \in [Workers -> NatsOutcomes]
      BY <2>2 DEF Crash, TypeInv, TypeOK
    <3>2. EndBatch(w) /\ UNCHANGED <<rowVars, rowState, stream, dedup, mailVars, failures>>
      BY <2>2 DEF Crash
    <3> QED
      BY <2>1, <3>1, <3>2, EndBatchType DEF TypeInv, TypeOK
  <2>3. CASE Disconnect(w)
    <3>1. TypeOK'
      BY <2>1, <2>3 DEF Disconnect, TypeInv, TypeOK
    <3>2. /\ batch'[w] = {} /\ failed'[w] = {} /\ batch[w] # {}
          /\ \A v \in Workers : v # w => batch'[v] = batch[v] /\ failed'[v] = failed[v]
      BY <2>3 DEF Disconnect, TypeInv, TypeOK
    <3>3. UNCHANGED <<events, todo, event, to, mailed>>
      BY <2>3 DEF Disconnect
    <3>4. \A v \in Workers : InHands(v)' = InHands(v) /\ InHands(v) \subseteq EventIds
      BY <3>3 DEF InHands, TypeInv, TypeOK
    <3>5. \A n \in InHands(w) : lost'[n] > 0
      <4>1. InHands(w) \subseteq batch[w] /\ batch[w] \subseteq EventIds
        BY <3>2 DEF TypeInv, TypeOK, BatchesAreInOrder
      <4> QED
        BY <2>1, <4>1
    <3>6. BatchesAreInOrder'
      BY <2>1, <3>2, <3>3, <3>4, <3>5 DEF TypeInv, BatchesAreInOrder
    <3> QED
      BY <3>1, <3>6 DEF TypeInv
  <2> QED
    BY <1>8, <2>2, <2>3
<1>9. ASSUME NEW w \in Workers, SkipThrottled(w) PROVE TypeInv'
  <2>1. TypeOK'
    BY <1>9 DEF SkipThrottled, TypeInv, TypeOK
  <2>2. BatchesAreInOrder'
    BY <1>9 DEF SkipThrottled, NextRecipient, TypeInv, TypeOK, BatchesAreInOrder, InHands
  <2> QED
    BY <2>1, <2>2 DEF TypeInv
<1>10. ASSUME NEW w \in Workers, SendMail(w) PROVE TypeInv'
  <2>1. PICK u \in Recipients :
          /\ NextRecipient(w, u)
          /\ sent' = [sent EXCEPT ![event[w]][u] = @ + 1]
          /\ to' = [to EXCEPT ![w] = @ \ {u}]
          /\ mailed' = [mailed EXCEPT ![w] = {u}]
          /\ UNCHANGED <<rowVars, rowState, natsVars, batch, todo, event, failed,
                         noted, recent, faultVars>>
    BY <1>10 DEF SendMail
  <2>2. event[w] \in EventIds
    BY <2>1 DEF NextRecipient, TypeInv, TypeOK, BatchesAreInOrder
  <2>3. sent' \in [EventIds -> [Recipients -> Nat]]
    BY <2>1, <2>2 DEF TypeInv, TypeOK
  <2>4. TypeOK'
    BY <2>1, <2>3 DEF TypeInv, TypeOK
  <2>5. BatchesAreInOrder'
    BY <2>1, <2>2 DEF NextRecipient, TypeInv, TypeOK, BatchesAreInOrder, InHands
  <2> QED
    BY <2>4, <2>5 DEF TypeInv
<1>11. ASSUME NEW w \in Workers, SaveMail(w) PROVE TypeInv'
  <2>1. PICK u \in mailed[w] :
          /\ noted' = noted \cup {<<event[w], u>>}
          /\ recent' = IF <<event[w], u>> \in noted THEN recent ELSE recent \cup {u}
          /\ mailed' = [mailed EXCEPT ![w] = {}]
          /\ UNCHANGED <<rowVars, rowState, natsVars, batch, todo, event, to, failed,
                         sent, faultVars>>
    BY <1>11 DEF SaveMail
  <2>2. event[w] \in EventIds /\ u \in Recipients
    BY DEF TypeInv, TypeOK, BatchesAreInOrder
  <2>3. noted' \subseteq EventIds \X Recipients /\ recent' \subseteq Recipients
    BY <2>1, <2>2 DEF TypeInv, TypeOK
  <2>4. TypeOK'
    BY <2>1, <2>3 DEF TypeInv, TypeOK
  <2>5. BatchesAreInOrder'
    BY <2>1 DEF TypeInv, TypeOK, BatchesAreInOrder, InHands
  <2> QED
    BY <2>4, <2>5 DEF TypeInv
<1>12. ASSUME NEW w \in Workers, MailFails(w) PROVE TypeInv'
  <2>1. event[w] \in EventIds /\ event[w] \in InHands(w)
    BY <1>12 DEF MailFails, InHands, TypeInv, TypeOK
  <2>2. RowFails(w, event[w])
    BY <1>12 DEF MailFails
  <2> QED
    BY <1>12, <2>1, <2>2, RowFailsType DEF MailFails, TypeInv, TypeOK
<1>13. ASSUME NEW n \in EventIds, BackoffElapses(n) \/ WindowPasses(n) PROVE TypeInv'
  BY <1>13 DEF BackoffElapses, WindowPasses, TypeInv, TypeOK, BatchesAreInOrder, InHands
<1>14. ASSUME NEW u \in Recipients, ThrottlePasses(u) PROVE TypeInv'
  BY <1>14 DEF ThrottlePasses, TypeInv, TypeOK, BatchesAreInOrder, InHands
<1>15. CASE UNCHANGED vars
  BY <1>15 DEF vars, TypeInv, TypeOK, BatchesAreInOrder, InHands
<1> QED
  BY <1>1, <1>2, <1>3, <1>4, <1>5, <1>6, <1>7, <1>8, <1>9, <1>10, <1>11, <1>12,
     <1>13, <1>14, <1>15 DEF Next, Work

\* Types and batches are in order in every state.
THEOREM TypesHold == Spec => []TypeInv
<1>1. Init => TypeInv
  BY TypeInit
<1>2. TypeInv /\ [Next]_vars => TypeInv'
  BY TypeStep
<1> QED
  BY <1>1, <1>2, PTL DEF Spec

-----------------------------------------------------------------------------
(* FOR UPDATE SKIP LOCKED *)

\* Batches stay disjoint, and of rows that are due.
LEMMA DisjointStep ==
  TypeInv /\ BatchesAreDisjoint /\ [Next]_vars => BatchesAreDisjoint'
<1> SUFFICES ASSUME TypeInv, BatchesAreDisjoint, [Next]_vars PROVE BatchesAreDisjoint'
  OBVIOUS
<1> USE DEF rowVars, rowState, natsVars, loopVars, mailVars, faultVars
<1>1. CASE CommitSend
  <2>1. PICK t \in open : events' = Append(events, t)
    BY <1>1 DEF CommitSend
  <2>2. DOMAIN events \subseteq DOMAIN events'
    BY <2>1 DEF TypeInv, TypeOK
  <2> QED
    BY <1>1, <2>2 DEF CommitSend, BatchesAreDisjoint
<1>2. ASSUME NEW w \in Workers, Fetch(w) PROVE BatchesAreDisjoint'
  <2>1. batch' = [batch EXCEPT ![w] = OldestOf(Fetchable)]
    BY <1>2 DEF Fetch
  <2>2. OldestOf(Fetchable) \subseteq (DOMAIN events \ processed) \ waiting
    BY DEF OldestOf, Fetchable, Due
  <2>3. \A v \in Workers : batch[v] \cap OldestOf(Fetchable) = {}
    BY DEF OldestOf, Fetchable
  <2> HIDE DEF OldestOf, Fetchable
  <2> QED
    BY <1>2, <2>1, <2>2, <2>3 DEF Fetch, BatchesAreDisjoint, TypeInv, TypeOK
<1>3. ASSUME NEW w \in Workers, Commit(w) PROVE BatchesAreDisjoint'
  <2>1. Done(w) \subseteq batch[w] /\ failed[w] \subseteq batch[w]
    BY DEF Done, TypeInv, BatchesAreInOrder
  <2> QED
    BY <1>3, <2>1 DEF Commit, EndBatch, BatchesAreDisjoint, TypeInv, TypeOK
<1>4. ASSUME NEW w \in Workers, batch' = [batch EXCEPT ![w] = {}],
             UNCHANGED <<events, processed, waiting>>
      PROVE  BatchesAreDisjoint'
  BY <1>4 DEF BatchesAreDisjoint, TypeInv, TypeOK
<1>5. ASSUME NEW n \in EventIds, BackoffElapses(n) \/ WindowPasses(n)
      PROVE BatchesAreDisjoint'
  BY <1>5 DEF BackoffElapses, WindowPasses, BatchesAreDisjoint
<1>6. CASE UNCHANGED <<events, processed, waiting, batch>>
  BY <1>6 DEF BatchesAreDisjoint
<1>7. ASSUME NEW w \in Workers,
             Publish(w) \/ SkipThrottled(w) \/ SendMail(w) \/ SaveMail(w)
      PROVE  BatchesAreDisjoint'
  BY <1>6, <1>7 DEF Publish, SkipThrottled, SendMail, SaveMail
<1>9. ASSUME NEW w \in Workers,
             \/ PublishFails(w) \/ MailFails(w) \/ MarkProcessed(w)
             \/ Crash(w) \/ Disconnect(w)
      PROVE  BatchesAreDisjoint'
  <2>1. UNCHANGED <<events, processed, waiting>>
    BY <1>9 DEF PublishFails, MailFails, MarkProcessed, Crash, Disconnect
  <2>2. batch' = batch \/ batch' = [batch EXCEPT ![w] = {}]
    BY <1>9 DEF PublishFails, MailFails, RowFails, MarkProcessed, Crash, Disconnect, EndBatch
  <2> QED
    BY <1>4, <1>6, <2>1, <2>2
<1>8. BeginSend \/ UNCHANGED vars \/ (\E u \in Recipients : ThrottlePasses(u))
        => UNCHANGED <<events, processed, waiting, batch>>
  BY DEF BeginSend, vars, ThrottlePasses
<1> QED
  BY <1>1, <1>2, <1>3, <1>5, <1>6, <1>7, <1>8, <1>9 DEF Next, Work

\* No row is ever in the batches of two workers.
THEOREM RowsAreHandledOnce == Spec => []BatchesAreDisjoint
<1>1. Init => BatchesAreDisjoint
  BY DEF Init, NoRows, BatchesAreDisjoint
<1>2. TypeInv /\ BatchesAreDisjoint /\ [Next]_vars => BatchesAreDisjoint'
  BY DisjointStep
<1> QED
  BY <1>1, <1>2, TypesHold, PTL DEF Spec

-----------------------------------------------------------------------------
(* At-least-once publication *)

\* The event n is in the stream.
Published(n) == \E i \in DOMAIN stream : stream[i] = n

\* What is stored stays stored, and what is dropped as a duplicate is stored.
LEMMA StoredIsPublished ==
  ASSUME TypeInv, WindowIsStored, NEW n \in EventIds, Stored(n)
  PROVE  /\ Published(n)' /\ WindowIsStored'
         /\ \A m : Published(m) => Published(m)'
<1>1. stream \in Seq(EventIds)
  BY DEF TypeInv, TypeOK
<1>2. CASE n \in dedup
  BY <1>2 DEF Stored, WindowIsStored, Published
<1>3. CASE n \notin dedup
  <2>1. stream' = Append(stream, n)
    BY <1>3 DEF Stored
  <2>2. /\ DOMAIN stream' = 1..(Len(stream) + 1) /\ DOMAIN stream = 1..Len(stream)
        /\ Len(stream) \in Nat
        /\ stream'[Len(stream) + 1] = n
        /\ \A i \in DOMAIN stream : stream'[i] = stream[i]
    BY <1>1, <2>1
  <2>3. Published(n)' /\ (\A m : Published(m) => Published(m)')
    BY <2>2 DEF Published
  <2> QED
    BY <2>3 DEF Stored, WindowIsStored, Published
<1> QED
  BY <1>2, <1>3

\* A step publishes at most, and never takes an event out of the stream.
LEMMA PublishingKeeps ==
  ASSUME TypeInv, WindowIsStored, NEW w \in Workers, NEW n \in EventIds,
         PublishIfEnabled(w, n) \/ UNCHANGED <<stream, dedup>>
  PROVE  WindowIsStored' /\ (\A m : Published(m) => Published(m)')
<1>1. CASE Stored(n)
  BY <1>1, StoredIsPublished
<1>2. CASE UNCHANGED <<stream, dedup>>
  BY <1>2 DEF WindowIsStored, Published
<1> QED
  BY <1>1, <1>2 DEF PublishIfEnabled

\* Rows are handled without an error only after their event was published.
PublishInv == WindowIsStored /\ HandledWasPublished

\* Each step of OutboxWorker publishes before it counts a row as handled.
LEMMA PublishStep == TypeInv /\ PublishInv /\ [Next]_vars => PublishInv'
<1> SUFFICES ASSUME TypeInv, PublishInv, [Next]_vars PROVE PublishInv'
  OBVIOUS
<1> USE DEF rowVars, rowState, natsVars, loopVars, mailVars, faultVars
<1> DEFINE Handled(w) == (batch[w] \ (todo[w] \cup failed[w])) \cup ({event[w]} \ {0})
<1>0. \A w \in Workers : connected[w] => \A n \in Handled(w) : Published(n)
  BY DEF PublishInv, HandledWasPublished, Published
<1>1. ASSUME WindowIsStored', \A m : Published(m) => Published(m)',
             \A w \in Workers : connected'[w] =>
                \A n \in Handled(w)' : (n \in Handled(w) /\ connected[w]) \/ Published(n)'
      PROVE  PublishInv'
  <2>1. \A w \in Workers : connected'[w] => \A n \in Handled(w)' : Published(n)'
    BY <1>0, <1>1
  <2> QED
    BY <1>1, <2>1 DEF PublishInv, HandledWasPublished, Published
<1>2. CASE UNCHANGED natsVars
           /\ \A w \in Workers : Handled(w)' \subseteq Handled(w)
  <2>1. WindowIsStored' /\ \A m : Published(m) => Published(m)'
    BY <1>2 DEF PublishInv, WindowIsStored, Published
  <2> HIDE DEF Handled
  <2> QED
    BY <1>1, <1>2, <2>1
<1>3. ASSUME NEW w \in Workers, Fetch(w) PROVE PublishInv'
  <2>1. \A v \in Workers : Handled(v)' \subseteq Handled(v)
    BY <1>3 DEF Fetch, TypeInv, TypeOK
  <2> QED
    BY <1>2, <1>3, <2>1 DEF Fetch
<1>4. ASSUME NEW w \in Workers, Publish(w) PROVE PublishInv'
  <2>1. PICK n \in todo[w] : /\ PublishIfEnabled(w, n)
                             /\ todo' = [todo EXCEPT ![w] = @ \ {n}]
                             /\ event' = [event EXCEPT ![w] = n]
                             /\ UNCHANGED <<connected, batch, failed>>
    BY <1>4 DEF Publish
  <2>2. n \in EventIds
    BY DEF TypeInv, TypeOK
  <2>3. WindowIsStored' /\ \A m : Published(m) => Published(m)'
    BY <2>1, <2>2, PublishingKeeps DEF PublishInv
  <2>4. connected[w] => Published(n)'
    BY <2>1, <2>2, StoredIsPublished DEF PublishIfEnabled, PublishInv
  <2>5. Handled(w)' \subseteq Handled(w) \cup {n}
    BY <2>1 DEF TypeInv, TypeOK
  <2>6. \A v \in Workers : v # w => Handled(v)' = Handled(v)
    BY <2>1 DEF TypeInv, TypeOK
  <2> HIDE DEF Handled
  <2>7. \A v \in Workers : connected'[v] =>
          \A m \in Handled(v)' : (m \in Handled(v) /\ connected[v]) \/ Published(m)'
    BY <2>1, <2>4, <2>5, <2>6
  <2> QED
    BY <1>1, <2>3, <2>7
<1>8. ASSUME NEW w \in Workers, EndBatch(w)
      PROVE  /\ Handled(w)' = {}
             /\ \A v \in Workers : v # w => Handled(v)' = Handled(v)
  BY <1>8 DEF EndBatch, TypeInv, TypeOK
<1>5. ASSUME NEW w \in Workers, NEW n, RowFails(w, n)
      PROVE  \A v \in Workers : Handled(v)' \subseteq Handled(v)
  <2>1. CASE EndBatch(w)
    BY <1>8, <2>1
  <2>2. CASE LeaveRow(w, n) /\ failed' = [failed EXCEPT ![w] = @ \cup {n}] /\ batch' = batch
    BY <2>2 DEF LeaveRow, TypeInv, TypeOK
  <2> QED
    BY <1>5, <2>1, <2>2 DEF RowFails
<1>6. ASSUME NEW w \in Workers, PublishFails(w) PROVE PublishInv'
  <2>1. PICK n \in todo[w] : /\ PublishIfEnabled(w, n) \/ UNCHANGED <<stream, dedup>>
                             /\ RowFails(w, n)
                             /\ UNCHANGED connected
    BY <1>6 DEF PublishFails
  <2>2. n \in EventIds
    BY DEF TypeInv, TypeOK
  <2>3. WindowIsStored' /\ \A m : Published(m) => Published(m)'
    BY <2>1, <2>2, PublishingKeeps DEF PublishInv
  <2>4. \A v \in Workers : Handled(v)' \subseteq Handled(v)
    BY <1>5, <2>1
  <2> HIDE DEF Handled
  <2> QED
    BY <1>1, <2>1, <2>3, <2>4
<1>7. ASSUME NEW w \in Workers, MailFails(w) PROVE PublishInv'
  <2>1. \A v \in Workers : Handled(v)' \subseteq Handled(v)
    BY <1>5, <1>7 DEF MailFails
  <2> QED
    BY <1>2, <1>7, <2>1 DEF MailFails
<1>9. ASSUME NEW w \in Workers, Commit(w) PROVE PublishInv'
  <2>1. \A v \in Workers : Handled(v)' \subseteq Handled(v)
    BY <1>8, <1>9 DEF Commit
  <2> QED
    BY <1>2, <1>9, <2>1 DEF Commit
<1>10. ASSUME NEW w \in Workers, Crash(w) PROVE PublishInv'
  <2>1. Handled(w)' = {} /\ \A v \in Workers : v # w => Handled(v)' = Handled(v)
    BY <1>8, <1>10 DEF Crash
  <2>2. \A v \in Workers : v # w => connected'[v] = connected[v]
    BY <1>10 DEF Crash, TypeInv, TypeOK
  <2>3. WindowIsStored' /\ \A m : Published(m) => Published(m)'
    BY <1>10 DEF Crash, PublishInv, WindowIsStored, Published
  <2> HIDE DEF Handled
  <2> QED
    BY <1>1, <2>1, <2>2, <2>3
<1>11. ASSUME NEW n \in EventIds, WindowPasses(n) PROVE PublishInv'
  BY <1>11 DEF WindowPasses, PublishInv, WindowIsStored, HandledWasPublished
<1>12. ASSUME NEW w \in Workers, MarkProcessed(w) \/ Disconnect(w) PROVE PublishInv'
  <2>1. CASE EndBatch(w)
    BY <1>2, <1>8, <1>12, <2>1 DEF MarkProcessed, Disconnect
  <2>2. CASE event' = [event EXCEPT ![w] = 0] /\ UNCHANGED <<batch, todo, failed>>
    <3>1. \A v \in Workers : Handled(v)' \subseteq Handled(v)
      BY <2>2 DEF TypeInv, TypeOK
    <3> QED
      BY <1>2, <1>12, <3>1 DEF MarkProcessed, Disconnect
  <2>3. CASE /\ batch' = [batch EXCEPT ![w] = {}] /\ failed' = [failed EXCEPT ![w] = {}]
             /\ UNCHANGED <<todo, event>>
    <3>1. \A v \in Workers : Handled(v)' \subseteq Handled(v)
      BY <2>3 DEF TypeInv, TypeOK
    <3> QED
      BY <1>2, <1>12, <3>1 DEF MarkProcessed, Disconnect
  <2> QED
    BY <1>12, <2>1, <2>2, <2>3 DEF MarkProcessed, Disconnect
<1>13. ASSUME NEW w \in Workers, SkipThrottled(w) \/ SendMail(w) \/ SaveMail(w)
       PROVE  UNCHANGED <<natsVars, batch, todo, failed, event>>
  BY <1>13 DEF SkipThrottled, SendMail, SaveMail
<1>14. BeginSend \/ CommitSend \/ UNCHANGED vars
         \/ (\E n \in EventIds : BackoffElapses(n))
         \/ (\E u \in Recipients : ThrottlePasses(u))
         => UNCHANGED <<natsVars, batch, todo, failed, event>>
  BY DEF BeginSend, CommitSend, vars, BackoffElapses, ThrottlePasses
<1>15. CASE UNCHANGED <<natsVars, batch, todo, failed, event>>
  BY <1>15 DEF PublishInv, WindowIsStored, HandledWasPublished
<1> QED
  BY <1>3, <1>4, <1>6, <1>7, <1>9, <1>10, <1>11, <1>12, <1>13, <1>14, <1>15 DEF Next, Work

\* A row handled without an error in a connected process is in the stream.
THEOREM HandledRowsWerePublished == Spec => []PublishInv
<1>1. Init => PublishInv
  BY DEF Init, NoRows, PublishInv, WindowIsStored, HandledWasPublished
<1>2. TypeInv /\ PublishInv /\ [Next]_vars => PublishInv'
  BY PublishStep
<1> QED
  BY <1>1, <1>2, TypesHold, PTL DEF Spec

\* If every process of the backend gets its connection to JetStream when it
\* starts, whatever is marked processed has been published: at-least-once.
THEOREM AtLeastOnce ==
  ASSUME NatsOutcomes \subseteq {TRUE}
  PROVE  Spec => []ProcessedWasPublished
<1>1. Init => ProcessedWasPublished
  BY DEF Init, ProcessedWasPublished
<1>2. TypeInv /\ PublishInv /\ ProcessedWasPublished /\ [Next]_vars
        => ProcessedWasPublished'
  <2> SUFFICES ASSUME TypeInv, PublishInv, ProcessedWasPublished, [Next]_vars
               PROVE  ProcessedWasPublished'
    OBVIOUS
  <2> USE DEF rowVars, rowState, natsVars, loopVars, mailVars, faultVars
  <2>1. \A n \in processed : Published(n)
    BY DEF ProcessedWasPublished, Published
  <2>2. ASSUME NEW w \in Workers, Commit(w) PROVE \A n \in processed' : Published(n)'
    <3>1. connected[w]
      <4>1. connected[w] \in NatsOutcomes
        BY DEF TypeInv, TypeOK
      <4>2. connected[w] = TRUE
        BY <4>1
      <4> QED
        BY <4>2, Zenon
    <3>2. \A n \in Done(w) : Published(n)
      BY <3>1 DEF Done, PublishInv, HandledWasPublished, Published
    <3>3. processed' = processed \cup Done(w) /\ UNCHANGED stream
      BY <2>2 DEF Commit
    <3> QED
      BY <2>1, <3>2, <3>3 DEF Published
  <2>3. ASSUME NEW w \in Workers, Publish(w) \/ PublishFails(w)
        PROVE  \A n \in processed' : Published(n)'
    <3>1. PICK n \in todo[w] : /\ PublishIfEnabled(w, n) \/ UNCHANGED <<stream, dedup>>
                               /\ UNCHANGED processed
      BY <2>3 DEF Publish, PublishFails
    <3>2. n \in EventIds
      BY DEF TypeInv, TypeOK
    <3>3. \A m : Published(m) => Published(m)'
      BY <3>1, <3>2, PublishingKeeps DEF PublishInv
    <3> QED
      BY <2>1, <3>1, <3>3
  <2>5. ASSUME NEW w \in Workers,
               Fetch(w) \/ MarkProcessed(w) \/ MailFails(w) \/ Crash(w) \/ Disconnect(w)
        PROVE  UNCHANGED <<processed, stream>>
    BY <2>5 DEF Fetch, MarkProcessed, MailFails, Crash, Disconnect
  <2>6. ASSUME NEW w \in Workers, SkipThrottled(w) \/ SendMail(w) \/ SaveMail(w)
        PROVE  UNCHANGED <<processed, stream>>
    BY <2>6 DEF SkipThrottled, SendMail, SaveMail
  <2>7. BeginSend \/ CommitSend \/ UNCHANGED vars
          \/ (\E n \in EventIds : BackoffElapses(n) \/ WindowPasses(n))
          \/ (\E u \in Recipients : ThrottlePasses(u))
          => UNCHANGED <<processed, stream>>
    BY DEF BeginSend, CommitSend, vars, BackoffElapses, WindowPasses, ThrottlePasses
  <2>8. ASSUME UNCHANGED <<processed, stream>>
        PROVE  \A n \in processed' : Published(n)'
    BY <2>1, <2>8 DEF Published
  <2>9. \A n \in processed' : Published(n)'
    <3> HIDE DEF Published
    <3> QED
      BY <2>2, <2>3, <2>5, <2>6, <2>7, <2>8 DEF Next, Work
  <2> QED
    BY <2>9 DEF ProcessedWasPublished, Published
<1> QED
  BY <1>1, <1>2, TypesHold, HandledRowsWerePublished, PTL DEF Spec

-----------------------------------------------------------------------------
(* Emails *)

\* What is on record, or about to be, has been sent.
MailInv == RecordedMailWasSent /\ MailInHandWasSent

\* Each step of notifyNewMessage records no email before it is sent.
LEMMA MailStep == TypeInv /\ MailInv /\ [Next]_vars => MailInv'
<1> SUFFICES ASSUME TypeInv, MailInv, [Next]_vars PROVE MailInv'
  OBVIOUS
<1> USE DEF rowVars, rowState, natsVars, loopVars, mailVars, faultVars
<1>1. ASSUME UNCHANGED <<sent, noted>>,
             \A v \in Workers : mailed'[v] = {} \/ (mailed'[v] = mailed[v] /\ event'[v] = event[v])
      PROVE  MailInv'
  BY <1>1 DEF MailInv, RecordedMailWasSent, MailInHandWasSent
<1>2. ASSUME NEW w \in Workers, SendMail(w) PROVE MailInv'
  <2>1. PICK u \in Recipients :
          /\ NextRecipient(w, u)
          /\ sent' = [sent EXCEPT ![event[w]][u] = @ + 1]
          /\ mailed' = [mailed EXCEPT ![w] = {u}]
          /\ UNCHANGED <<event, noted>>
    BY <1>2 DEF SendMail
  <2>2. event[w] \in EventIds
    BY <2>1 DEF NextRecipient, TypeInv, TypeOK, BatchesAreInOrder
  <2>3. \A n \in EventIds, x \in Recipients :
          /\ sent[n][x] \in Nat /\ sent'[n][x] \in Nat /\ sent'[n][x] >= sent[n][x]
          /\ n = event[w] /\ x = u => sent'[n][x] > 0
    BY <2>1, <2>2 DEF TypeInv, TypeOK
  <2>4. RecordedMailWasSent'
    <3>1. \A m \in noted : m[1] \in EventIds /\ m[2] \in Recipients
      BY DEF TypeInv, TypeOK
    <3> QED
      BY <2>1, <2>3, <3>1 DEF MailInv, RecordedMailWasSent
  <2>5. MailInHandWasSent'
    <3>1. \A v \in Workers : v # w => mailed'[v] = mailed[v]
      BY <2>1 DEF TypeInv, TypeOK
    <3>2. mailed'[w] = {u}
      BY <2>1 DEF TypeInv, TypeOK
    <3> QED
      BY <2>1, <2>3, <3>1, <3>2 DEF MailInv, MailInHandWasSent
  <2> QED
    BY <2>4, <2>5 DEF MailInv
<1>3. ASSUME NEW w \in Workers, SaveMail(w) PROVE MailInv'
  <2>1. PICK u \in mailed[w] :
          /\ noted' = noted \cup {<<event[w], u>>}
          /\ mailed' = [mailed EXCEPT ![w] = {}]
          /\ UNCHANGED <<event, sent>>
    BY <1>3 DEF SaveMail
  <2>2. event[w] \in EventIds /\ u \in Recipients
    BY DEF TypeInv, TypeOK, BatchesAreInOrder
  <2>3. sent[event[w]][u] > 0
    BY <2>2 DEF MailInv, MailInHandWasSent
  <2>4. RecordedMailWasSent'
    BY <2>1, <2>3 DEF MailInv, RecordedMailWasSent
  <2>5. MailInHandWasSent'
    BY <2>1 DEF MailInv, MailInHandWasSent, TypeInv, TypeOK
  <2> QED
    BY <2>4, <2>5 DEF MailInv
<1>4. ASSUME NEW w \in Workers, NEW n, RowFails(w, n), UNCHANGED <<sent, noted>>
      PROVE  MailInv'
  <2>1. \A v \in Workers :
          mailed'[v] = {} \/ (mailed'[v] = mailed[v] /\ event'[v] = event[v])
    BY <1>4 DEF RowFails, LeaveRow, EndBatch, TypeInv, TypeOK
  <2> QED
    BY <1>1, <1>4, <2>1
<1>5. ASSUME NEW w \in Workers, PublishFails(w) \/ MailFails(w) PROVE MailInv'
  BY <1>4, <1>5 DEF PublishFails, MailFails
<1>6. ASSUME NEW w \in Workers, Commit(w) \/ Crash(w) PROVE MailInv'
  <2>1. EndBatch(w) /\ UNCHANGED <<sent, noted>>
    BY <1>6 DEF Commit, Crash
  <2>2. \A v \in Workers :
          mailed'[v] = {} \/ (mailed'[v] = mailed[v] /\ event'[v] = event[v])
    BY <2>1 DEF EndBatch, TypeInv, TypeOK
  <2> QED
    BY <1>1, <2>1, <2>2
<1>7. ASSUME NEW w \in Workers, Publish(w) PROVE MailInv'
  <2>1. PICK n \in todo[w] : /\ NextRow(w, n)
                             /\ event' = [event EXCEPT ![w] = n]
                             /\ UNCHANGED <<mailed, sent, noted>>
    BY <1>7 DEF Publish
  <2>2. mailed[w] = {}
    BY <2>1 DEF NextRow, TypeInv, BatchesAreInOrder
  <2>3. \A v \in Workers : v # w => event'[v] = event[v]
    BY <2>1 DEF TypeInv, TypeOK
  <2> QED
    BY <1>1, <2>1, <2>2, <2>3
<1>8. ASSUME NEW w \in Workers, MarkProcessed(w) PROVE MailInv'
  <2>1. /\ mailed[w] = {} /\ event' = [event EXCEPT ![w] = 0]
        /\ mailed' = mailed \/ mailed' = [mailed EXCEPT ![w] = {}]
        /\ UNCHANGED <<sent, noted>>
    BY <1>8 DEF MarkProcessed, EndBatch
  <2>2. \A v \in Workers : v # w => event'[v] = event[v] /\ mailed'[v] = mailed[v]
    BY <2>1 DEF TypeInv, TypeOK
  <2>3. mailed'[w] = {}
    BY <2>1 DEF TypeInv, TypeOK
  <2> QED
    BY <1>1, <2>1, <2>2, <2>3
<1>9. ASSUME NEW w \in Workers, Fetch(w) \/ SkipThrottled(w) \/ Disconnect(w)
      PROVE  UNCHANGED <<mailed, event, sent, noted>>
  BY <1>9 DEF Fetch, SkipThrottled, Disconnect
<1>10. BeginSend \/ CommitSend \/ UNCHANGED vars
         \/ (\E n \in EventIds : BackoffElapses(n) \/ WindowPasses(n))
         \/ (\E u \in Recipients : ThrottlePasses(u))
         => UNCHANGED <<mailed, event, sent, noted>>
  BY DEF BeginSend, CommitSend, vars, BackoffElapses, WindowPasses, ThrottlePasses
<1>11. CASE UNCHANGED <<mailed, event, sent, noted>>
  BY <1>1, <1>11
<1> QED
  BY <1>2, <1>3, <1>5, <1>6, <1>7, <1>8, <1>9, <1>10, <1>11 DEF Next, Work

\* No notification is suppressed in favour of an email that never left.
THEOREM RecordsAreTrue == Spec => []MailInv
<1>1. Init => MailInv
  BY DEF Init, NoRows, MailInv, RecordedMailWasSent, MailInHandWasSent
<1>2. TypeInv /\ MailInv /\ [Next]_vars => MailInv'
  BY MailStep
<1> QED
  BY <1>1, <1>2, TypesHold, PTL DEF Spec

-----------------------------------------------------------------------------
(* What is delivered more than once, and why *)

\* The copies of an event in a stream can be counted.
LEMMA CopiesAreFinite ==
  ASSUME NEW s \in Seq(EventIds), NEW n
  PROVE  /\ IsFiniteSet({i \in DOMAIN s : s[i] = n})
         /\ Cardinality({i \in DOMAIN s : s[i] = n}) \in Nat
<1>1. Len(s) \in Int /\ DOMAIN s = 1..Len(s) /\ 1 \in Int
  OBVIOUS
<1>2. IsFiniteSet(DOMAIN s)
  BY <1>1, FS_Interval
<1>3. {i \in DOMAIN s : s[i] = n} \in SUBSET (DOMAIN s)
  OBVIOUS
<1>4. IsFiniteSet({i \in DOMAIN s : s[i] = n})
  BY <1>2, <1>3, FS_Subset
<1> QED
  BY <1>4, FS_CardinalityType

\* A publication adds a copy of its event at most, and of no other.
LEMMA OneMoreCopy ==
  ASSUME TypeOK, NEW w \in Workers, NEW n \in EventIds,
         PublishIfEnabled(w, n) \/ UNCHANGED <<stream, dedup>>
  PROVE  /\ Copies(n)' \in Nat /\ Copies(n)' <= Copies(n) + 1
         /\ Copies(n)' \in {Copies(n), Copies(n) + 1}
         /\ \A m : m # n => Copies(m)' = Copies(m)
<1> DEFINE Places(m) == {i \in DOMAIN stream : stream[i] = m}
<1>1. stream \in Seq(EventIds)
  BY DEF TypeOK
<1>2. \A m : IsFiniteSet(Places(m)) /\ Copies(m) \in Nat
  BY <1>1, CopiesAreFinite DEF Copies
<1>3. CASE UNCHANGED <<stream, dedup>>
  <2>1. \A m : Copies(m)' = Copies(m)
    BY <1>3 DEF Copies
  <2>2. Copies(n) \in Nat
    BY <1>2
  <2> QED
    BY <2>1, <2>2
<1>4. CASE stream' = Append(stream, n)
  <2>1. Places(n)' = Places(n) \cup {Len(stream) + 1}
    BY <1>1, <1>4
  <2>2. Cardinality(Places(n) \cup {Len(stream) + 1}) \in Nat
        /\ Cardinality(Places(n) \cup {Len(stream) + 1}) <= Cardinality(Places(n)) + 1
        /\ Cardinality(Places(n) \cup {Len(stream) + 1}) \in
             {Cardinality(Places(n)), Cardinality(Places(n)) + 1}
    <3>1. IsFiniteSet(Places(n)) /\ Cardinality(Places(n)) \in Nat
      BY <1>2, FS_CardinalityType
    <3> DEFINE S == Places(n)
               l == Len(stream) + 1
    <3> HIDE DEF Places, S, l
    <3>2. Cardinality(S \cup {l}) = IF l \in S THEN Cardinality(S) ELSE Cardinality(S) + 1
      BY <3>1, FS_AddElement DEF S
    <3> QED
      BY <3>1, <3>2 DEF S, l
  <2>3. \A m : m # n => Places(m)' = Places(m)
    BY <1>1, <1>4
  <2> QED
    BY <2>1, <2>2, <2>3 DEF Copies
<1> QED
  BY <1>3, <1>4 DEF PublishIfEnabled, Stored

\* Every delivery is paid for by a handling of the event.
DeliveryInv == DeliveriesAreCounted

\* Sets of workers can be counted; a smaller one counts less.
LEMMA WorkersAreFinite ==
  ASSUME NEW S \in SUBSET Workers
  PROVE  IsFiniteSet(S) /\ Cardinality(S) \in Nat
<1>1. IsFiniteSet(S)
  BY OutboxAssumption, FS_Subset
<1> QED
  BY <1>1, FS_CardinalityType

LEMMA NoMoreWorkers ==
  ASSUME NEW S \in SUBSET Workers, NEW T \in SUBSET S
  PROVE  Cardinality(T) <= Cardinality(S)
<1>1. IsFiniteSet(S)
  BY WorkersAreFinite
<1> QED
  BY <1>1, FS_Subset

LEMMA OneWorkerLess ==
  ASSUME NEW S \in SUBSET Workers, NEW w \in S, NEW T \in SUBSET (S \ {w})
  PROVE  Cardinality(T) + 1 <= Cardinality(S)
<1>1. IsFiniteSet(S) /\ Cardinality(S) \in Nat /\ Cardinality(T) \in Nat
  BY WorkersAreFinite
<1>2. IsFiniteSet(S \ {w}) /\ Cardinality(S \ {w}) = Cardinality(S) - 1
  BY <1>1, FS_RemoveElement
<1>3. Cardinality(T) <= Cardinality(S \ {w})
  BY <1>2, FS_Subset
<1> QED
  BY <1>1, <1>2, <1>3

LEMMA OneWorkerMore ==
  ASSUME NEW S \in SUBSET Workers, NEW w \in Workers, NEW T \in SUBSET (S \cup {w})
  PROVE  Cardinality(T) <= Cardinality(S) + 1
<1>1. IsFiniteSet(S) /\ Cardinality(S) \in Nat /\ Cardinality(T) \in Nat
  BY WorkersAreFinite
<1>2. /\ IsFiniteSet(S \cup {w})
      /\ Cardinality(S \cup {w}) = IF w \in S THEN Cardinality(S) ELSE Cardinality(S) + 1
  BY <1>1, FS_AddElement
<1>3. Cardinality(T) <= Cardinality(S \cup {w})
  BY <1>2, FS_Subset
<1> QED
  BY <1>1, <1>2, <1>3

\* The numbers the counts are made of.
LEMMA CountsAreNumbers ==
  ASSUME TypeInv
  PROVE  \A n \in EventIds :
           /\ tries[n] \in Nat /\ lost[n] \in Nat
           /\ Copies(n) \in Nat /\ Handlings(n) \in Nat
           /\ MayPublish(n) \in SUBSET Workers /\ Cardinality(MayPublish(n)) \in Nat
           /\ \A u \in Recipients :
                /\ sent[n][u] \in Nat
                /\ MayMail(n, u) \in SUBSET Workers /\ Cardinality(MayMail(n, u)) \in Nat
<1>1. \A n \in EventIds : /\ tries[n] \in Nat /\ lost[n] \in Nat
                          /\ \A u \in Recipients : sent[n][u] \in Nat
  BY DEF TypeInv, TypeOK
<1>2. \A n : Copies(n) \in Nat
  <2>1. stream \in Seq(EventIds)
    BY DEF TypeInv, TypeOK
  <2> QED
    BY <2>1, CopiesAreFinite DEF Copies
<1>3. \A n \in EventIds : Handlings(n) \in Nat
  BY <1>1 DEF Handlings
<1>4. \A n : MayPublish(n) \in SUBSET Workers
  BY DEF MayPublish
<1>5. \A n, u : MayMail(n, u) \in SUBSET Workers
  BY DEF MayPublish, MayMail
<1>6. /\ \A n : Cardinality(MayPublish(n)) \in Nat
      /\ \A n, u : Cardinality(MayMail(n, u)) \in Nat
  BY <1>4, <1>5, WorkersAreFinite
<1> QED
  BY <1>1, <1>2, <1>3, <1>4, <1>5, <1>6

\* A step that delivers nothing, counts no handling less than before, and lets no
\* worker deliver that could not.
LEMMA NothingDelivered ==
  ASSUME TypeInv, TypeInv', DeliveryInv, stream' = stream, sent' = sent,
         \A n \in EventIds : Handlings(n)' >= Handlings(n),
         \A n \in EventIds : MayPublish(n)' \subseteq MayPublish(n),
         \A n \in EventIds, u \in Recipients : MayMail(n, u)' \subseteq MayMail(n, u)
  PROVE  DeliveryInv'
<1> SUFFICES ASSUME NEW n \in EventIds
             PROVE  /\ Copies(n)' + Cardinality(MayPublish(n)') <= Handlings(n)'
                    /\ \A u \in Recipients :
                         sent'[n][u] + Cardinality(MayMail(n, u)') <= Handlings(n)'
  BY DEF DeliveryInv, DeliveriesAreCounted
<1>1. /\ Copies(n) \in Nat /\ Handlings(n) \in Nat
      /\ MayPublish(n) \in SUBSET Workers /\ Cardinality(MayPublish(n)) \in Nat
      /\ \A u \in Recipients :
           /\ sent[n][u] \in Nat
           /\ MayMail(n, u) \in SUBSET Workers /\ Cardinality(MayMail(n, u)) \in Nat
  BY CountsAreNumbers
<1>2. /\ Copies(n) + Cardinality(MayPublish(n)) <= Handlings(n)
      /\ \A u \in Recipients : sent[n][u] + Cardinality(MayMail(n, u)) <= Handlings(n)
  BY DEF DeliveryInv, DeliveriesAreCounted
<1>3. Handlings(n)' \in Nat /\ Handlings(n)' >= Handlings(n)
  <2>1. tries'[n] \in Nat /\ lost'[n] \in Nat
    BY DEF TypeInv, TypeOK
  <2> QED
    BY <2>1 DEF Handlings
<1>4. Copies(n)' = Copies(n)
  BY DEF Copies
<1>5. /\ Cardinality(MayPublish(n)') \in Nat
      /\ Cardinality(MayPublish(n)') <= Cardinality(MayPublish(n))
  BY <1>1, NoMoreWorkers, WorkersAreFinite
<1>6. ASSUME NEW u \in Recipients
      PROVE  sent'[n][u] + Cardinality(MayMail(n, u)') <= Handlings(n)'
  <2>1. /\ Cardinality(MayMail(n, u)') \in Nat
        /\ Cardinality(MayMail(n, u)') <= Cardinality(MayMail(n, u))
    BY <1>1, NoMoreWorkers, WorkersAreFinite
  <2> QED
    BY <1>1, <1>2, <1>3, <2>1
<1> QED
  BY <1>1, <1>2, <1>3, <1>4, <1>5, <1>6

\* A publication is counted as a handling now, or was when the batch was lost.
LEMMA PublicationIsCounted ==
  ASSUME TypeInv, TypeInv', DeliveryInv, NEW w \in Workers, NEW n \in EventIds,
         PublishIfEnabled(w, n) \/ UNCHANGED <<stream, dedup>>, sent' = sent,
         \A m \in EventIds : m # n => Handlings(m)' = Handlings(m),
         \A m \in EventIds : MayPublish(m)' \subseteq MayPublish(m),
         \A m \in EventIds, u \in Recipients :
           m # n => MayMail(m, u)' \subseteq MayMail(m, u),
         \/ /\ Handlings(n)' = Handlings(n) + 1
            /\ \A u \in Recipients : MayMail(n, u)' \subseteq MayMail(n, u) \cup {w}
         \/ /\ Handlings(n)' = Handlings(n)
            /\ w \in MayPublish(n) \ MayPublish(n)'
            /\ \A u \in Recipients : MayMail(n, u)' \subseteq MayMail(n, u)
  PROVE  DeliveryInv'
<1> SUFFICES ASSUME NEW m \in EventIds
             PROVE  /\ Copies(m)' + Cardinality(MayPublish(m)') <= Handlings(m)'
                    /\ \A u \in Recipients :
                         sent'[m][u] + Cardinality(MayMail(m, u)') <= Handlings(m)'
  BY DEF DeliveryInv, DeliveriesAreCounted
<1>1. /\ Copies(m) \in Nat /\ Handlings(m) \in Nat
      /\ MayPublish(m) \in SUBSET Workers /\ Cardinality(MayPublish(m)) \in Nat
      /\ \A u \in Recipients :
           /\ sent[m][u] \in Nat
           /\ MayMail(m, u) \in SUBSET Workers /\ Cardinality(MayMail(m, u)) \in Nat
  BY CountsAreNumbers
<1>2. /\ Copies(m) + Cardinality(MayPublish(m)) <= Handlings(m)
      /\ \A u \in Recipients : sent[m][u] + Cardinality(MayMail(m, u)) <= Handlings(m)
  BY DEF DeliveryInv, DeliveriesAreCounted
<1>3. /\ Copies(n)' \in Nat /\ Copies(n)' <= Copies(n) + 1
      /\ m # n => Copies(m)' = Copies(m)
  BY OneMoreCopy DEF TypeInv
<1>4. /\ Cardinality(MayPublish(m)') \in Nat
      /\ Cardinality(MayPublish(m)') <= Cardinality(MayPublish(m))
  BY <1>1, NoMoreWorkers, WorkersAreFinite
<1>5. \A u \in Recipients : MayMail(m, u)' \subseteq MayMail(m, u) =>
        /\ Cardinality(MayMail(m, u)') \in Nat
        /\ Cardinality(MayMail(m, u)') <= Cardinality(MayMail(m, u))
  BY <1>1, NoMoreWorkers, WorkersAreFinite
<1>6. CASE m # n
  <2>1. Handlings(m)' = Handlings(m) /\ Copies(m)' = Copies(m)
    BY <1>3, <1>6
  <2>2. ASSUME NEW u \in Recipients
        PROVE  sent'[m][u] + Cardinality(MayMail(m, u)') <= Handlings(m)'
    BY <1>1, <1>2, <1>5, <1>6, <2>1
  <2> QED
    BY <1>1, <1>2, <1>4, <2>1, <2>2
<1>7. CASE m = n /\ Handlings(n)' = Handlings(n) + 1
           /\ \A u \in Recipients : MayMail(n, u)' \subseteq MayMail(n, u) \cup {w}
  <2>1. Copies(m)' + Cardinality(MayPublish(m)') <= Handlings(m)'
    BY <1>1, <1>2, <1>3, <1>4, <1>7
  <2>2. ASSUME NEW u \in Recipients
        PROVE  sent'[m][u] + Cardinality(MayMail(m, u)') <= Handlings(m)'
    <3>1. MayMail(m, u)' \in SUBSET (MayMail(m, u) \cup {w})
      BY <1>7
    <3>2. Cardinality(MayMail(m, u)') <= Cardinality(MayMail(m, u)) + 1
      BY <1>1, <3>1, OneWorkerMore
    <3>3. MayMail(m, u)' \in SUBSET Workers
      BY <1>1, <3>1
    <3>4. Cardinality(MayMail(m, u)') \in Nat
      BY <3>3, WorkersAreFinite
    <3> QED
      BY <1>1, <1>2, <1>7, <3>2, <3>4
  <2> QED
    BY <2>1, <2>2
<1>8. CASE m = n /\ Handlings(n)' = Handlings(n) /\ w \in MayPublish(n) \ MayPublish(n)'
           /\ \A u \in Recipients : MayMail(n, u)' \subseteq MayMail(n, u)
  <2>1. Copies(m)' + Cardinality(MayPublish(m)') <= Handlings(m)'
    <3>1. MayPublish(m)' \in SUBSET (MayPublish(m) \ {w}) /\ w \in MayPublish(m)
      BY <1>8
    <3>2. Cardinality(MayPublish(m)') + 1 <= Cardinality(MayPublish(m))
      BY <1>1, <3>1, OneWorkerLess
    <3> QED
      BY <1>1, <1>2, <1>3, <1>4, <1>8, <3>2
  <2>2. ASSUME NEW u \in Recipients
        PROVE  sent'[m][u] + Cardinality(MayMail(m, u)') <= Handlings(m)'
    BY <1>1, <1>2, <1>5, <1>8
  <2> QED
    BY <2>1, <2>2
<1> QED
  BY <1>6, <1>7, <1>8

\* A batch that ends takes its worker off the list of those that may deliver.
LEMMA EndBatchDelivers ==
  ASSUME TypeInv, NEW w \in Workers, EndBatch(w)
  PROVE  /\ batch'[w] = {} /\ todo'[w] = {}
         /\ \A v \in Workers : v # w => batch'[v] = batch[v] /\ todo'[v] = todo[v]
         /\ \A n \in EventIds : MayPublish(n)' \subseteq MayPublish(n) \ {w}
         /\ \A n \in EventIds, u \in Recipients : MayMail(n, u)' \subseteq MayMail(n, u)
         /\ \A n \in EventIds : n \notin batch[w] => (InHand(n)' <=> InHand(n))
<1>1. /\ batch'[w] = {} /\ todo'[w] = {} /\ event'[w] = 0 /\ to'[w] = {}
      /\ \A v \in Workers : v # w => /\ to'[v] = to[v] /\ event'[v] = event[v]
                                     /\ batch'[v] = batch[v] /\ todo'[v] = todo[v]
  BY DEF EndBatch, TypeInv, TypeOK
<1>2. \A n \in EventIds : MayPublish(n)' \subseteq MayPublish(n) \ {w}
  BY <1>1 DEF MayPublish
<1>3. \A n \in EventIds, u \in Recipients : MayMail(n, u)' \subseteq MayMail(n, u)
  BY <1>1 DEF MayPublish, MayMail
<1>4. \A n \in EventIds : n \notin batch[w] => (InHand(n)' <=> InHand(n))
  BY <1>1 DEF InHand
<1> QED
  BY <1>1, <1>2, <1>3, <1>4

\* A worker that holds no lock frees none.
LEMMA NothingToUnlock ==
  ASSUME TypeInv, NEW w \in Workers, batch[w] = {}, batch' = [batch EXCEPT ![w] = {}]
  PROVE  batch' = batch
<1>1. batch \in [Workers -> SUBSET EventIds]
  BY DEF TypeInv, TypeOK
<1>2. \A v \in Workers : batch'[v] = batch[v]
  BY <1>1
<1> QED
  BY <1>1, <1>2

\* The handling of a row begins, by a worker that holds its lock or has lost it.
LEMMA HandlingBegins ==
  ASSUME TypeInv, TypeInv', BatchesAreDisjoint, DeliveryInv,
         NEW w \in Workers, NEW n \in todo[w], event[w] = 0,
         PublishIfEnabled(w, n) \/ UNCHANGED <<stream, dedup>>,
         UNCHANGED <<processed, tries, lost, sent>>,
         \/ /\ batch' = batch /\ todo' = [todo EXCEPT ![w] = @ \ {n}]
            /\ event' = [event EXCEPT ![w] = n]
            /\ \A v \in Workers : v # w => to'[v] = to[v]
         \/ /\ batch[w] # {} /\ batch' = batch /\ todo' = [todo EXCEPT ![w] = @ \ {n}]
            /\ event' = event /\ to' = [to EXCEPT ![w] = {}]
         \/ batch[w] = {} /\ EndBatch(w)
  PROVE  DeliveryInv'
<1>1. n \in EventIds /\ n # 0 /\ to[w] = {} /\ n \in InHands(w)
  <2>1. n \in EventIds
    BY DEF TypeInv, TypeOK
  <2>2. to[w] = {}
    BY DEF TypeInv, BatchesAreInOrder
  <2> QED
    BY <2>1, <2>2, NoRowIsZero DEF InHands
<1>2. \A m \in EventIds : tries[m] \in Nat /\ lost[m] \in Nat /\ Handlings(m) \in Nat
  BY CountsAreNumbers
<1>3. \A v \in Workers : v # w => batch'[v] = batch[v] /\ todo'[v] = todo[v]
                                  /\ event'[v] = event[v] /\ to'[v] = to[v]
  BY DEF EndBatch, TypeInv, TypeOK
<1>4. batch'[w] = batch[w] /\ todo'[w] \subseteq todo[w] \ {n} /\ batch' = batch
  <2>1. batch' = batch
    BY NothingToUnlock DEF EndBatch
  <2>2. todo' = [todo EXCEPT ![w] = @ \ {n}] \/ todo' = [todo EXCEPT ![w] = {}]
    BY DEF EndBatch
  <2> QED
    BY <2>1, <2>2 DEF TypeInv, TypeOK
<1>5. (event'[w] = n /\ (batch[w] # {} => todo'[w] = todo[w] \ {n}))
        \/ (event'[w] = 0 /\ to'[w] = {} /\ (batch[w] # {} => todo'[w] = todo[w] \ {n})
              /\ (batch[w] = {} => todo'[w] = {}))
  BY DEF EndBatch, TypeInv, TypeOK
<1>6. \A m \in EventIds : MayPublish(m)' \subseteq MayPublish(m)
  BY <1>1, <1>3, <1>4, <1>5 DEF MayPublish
<1>7. \A m \in EventIds, u \in Recipients :
        m # n => MayMail(m, u)' \subseteq MayMail(m, u)
  BY <1>1, <1>3, <1>4, <1>5 DEF MayPublish, MayMail
<1>8. \A m \in EventIds : m # n => (InHand(m)' <=> InHand(m))
  <2>1. \A m \in EventIds : m # n =>
          (m \in batch'[w] \ todo'[w] <=> m \in batch[w] \ todo[w])
    BY <1>4, <1>5
  <2> QED
    BY <1>3, <2>1 DEF InHand
<1>9. \A m \in EventIds : m # n => Handlings(m)' = Handlings(m)
  BY <1>8 DEF Handlings
<1>10. CASE batch[w] # {}
  <2>1. n \in batch[w] /\ n \notin processed
    BY <1>1, <1>10 DEF TypeInv, BatchesAreInOrder, BatchesAreDisjoint
  <2>2. ~InHand(n)
    BY <2>1 DEF BatchesAreDisjoint, InHand
  <2>3. InHand(n)'
    BY <1>4, <2>1 DEF InHand
  <2>4. Handlings(n)' = Handlings(n) + 1
    BY <1>1, <1>2, <2>1, <2>2, <2>3 DEF Handlings
  <2>5. \A u \in Recipients : MayMail(n, u)' \subseteq MayMail(n, u) \cup {w}
    BY <1>3 DEF MayPublish, MayMail
  <2> QED
    BY <1>1, <1>6, <1>7, <1>9, <2>4, <2>5, PublicationIsCounted
<1>11. CASE batch[w] = {}
  <2>1. w \in MayPublish(n) \ MayPublish(n)'
    BY <1>4, <1>11 DEF MayPublish
  <2>2. InHand(n)' <=> InHand(n)
    BY <1>3, <1>4, <1>11 DEF InHand
  <2>3. Handlings(n)' = Handlings(n)
    BY <2>2 DEF Handlings
  <2>4. \A u \in Recipients : MayMail(n, u)' \subseteq MayMail(n, u)
    BY <1>3, <2>1 DEF MayPublish, MayMail
  <2> QED
    BY <1>1, <1>6, <1>7, <1>9, <2>1, <2>3, <2>4, PublicationIsCounted
<1> QED
  BY <1>10, <1>11

\* Each step delivers at most what it counts as a handling.
LEMMA DeliveryStep ==
  TypeInv /\ TypeInv' /\ BatchesAreDisjoint /\ DeliveryInv /\ [Next]_vars => DeliveryInv'
<1> SUFFICES ASSUME TypeInv, TypeInv', BatchesAreDisjoint, DeliveryInv, [Next]_vars
             PROVE  DeliveryInv'
  OBVIOUS
<1> USE DEF rowVars, rowState, natsVars, loopVars, mailVars, faultVars
<1>0. \A n \in EventIds : /\ tries[n] \in Nat /\ lost[n] \in Nat /\ Handlings(n) \in Nat
                          /\ \A u \in Recipients : sent[n][u] \in Nat
  BY CountsAreNumbers
<1>1. ASSUME UNCHANGED <<stream, sent, batch, todo, processed, tries, lost>>,
             \A v \in Workers : /\ to'[v] \subseteq to[v]
                                /\ event'[v] = event[v] \/ (batch[v] # {} /\ to'[v] = {})
      PROVE  DeliveryInv'
  <2>1. \A n \in EventIds : Handlings(n)' >= Handlings(n)
    <3>1. \A n \in EventIds : Handlings(n)' = Handlings(n)
      BY <1>1 DEF Handlings, InHand
    <3> QED
      BY <1>0, <3>1
  <2>2. \A n \in EventIds : MayPublish(n)' \subseteq MayPublish(n)
    BY <1>1 DEF MayPublish
  <2>3. \A n \in EventIds, u \in Recipients : MayMail(n, u)' \subseteq MayMail(n, u)
    BY <1>1 DEF MayPublish, MayMail
  <2> QED
    BY <1>1, <2>1, <2>2, <2>3, NothingDelivered
<1>2. ASSUME NEW w \in Workers, EndBatch(w), batch[w] = {},
             UNCHANGED <<stream, sent, processed, tries, lost>>
      PROVE  DeliveryInv'
  <2>1. \A n \in EventIds : Handlings(n)' = Handlings(n)
    BY <1>2, EndBatchDelivers DEF Handlings
  <2>2. \A n \in EventIds : Handlings(n)' >= Handlings(n)
    BY <1>0, <2>1
  <2>3. \A n \in EventIds : MayPublish(n)' \subseteq MayPublish(n)
    BY <1>2, EndBatchDelivers
  <2>4. \A n \in EventIds, u \in Recipients : MayMail(n, u)' \subseteq MayMail(n, u)
    BY <1>2, EndBatchDelivers
  <2> QED
    BY <1>2, <2>2, <2>3, <2>4, NothingDelivered
<1>3. ASSUME NEW w \in Workers, Fetch(w) PROVE DeliveryInv'
  <2>1. batch[w] = {} /\ todo[w] = {} /\ event[w] = 0 /\ to[w] = {}
    BY <1>3 DEF Fetch, InHands, TypeInv, TypeOK, BatchesAreInOrder
  <2>2. batch'[w] = todo'[w]
    BY <1>3 DEF Fetch, TypeInv, TypeOK
  <2>3. \A v \in Workers : v # w => batch'[v] = batch[v] /\ todo'[v] = todo[v]
    BY <1>3 DEF Fetch, TypeInv, TypeOK
  <2>4. UNCHANGED <<stream, sent, processed, tries, lost, to, event>>
    BY <1>3 DEF Fetch
  <2>5. \A n \in EventIds : InHand(n)' <=> InHand(n)
    BY <2>1, <2>2, <2>3 DEF InHand
  <2>6. \A n \in EventIds : Handlings(n)' = Handlings(n)
    BY <2>4, <2>5 DEF Handlings
  <2>7. \A n \in EventIds : Handlings(n)' >= Handlings(n)
    BY <1>0, <2>6
  <2>8. \A n \in EventIds : MayPublish(n)' \subseteq MayPublish(n)
    BY <2>2, <2>3, <2>4 DEF MayPublish
  <2>9. \A n \in EventIds, u \in Recipients : MayMail(n, u)' \subseteq MayMail(n, u)
    BY <2>4, <2>8 DEF MayMail
  <2> QED
    BY <2>4, <2>7, <2>8, <2>9, NothingDelivered
<1>4. ASSUME NEW w \in Workers, Publish(w) PROVE DeliveryInv'
  <2>1. PICK n \in todo[w], offline \in SUBSET Recipients :
          /\ event[w] = 0
          /\ PublishIfEnabled(w, n)
          /\ todo' = [todo EXCEPT ![w] = @ \ {n}]
          /\ event' = [event EXCEPT ![w] = n]
          /\ to' = [to EXCEPT ![w] = offline]
          /\ UNCHANGED <<batch, processed, tries, lost, sent>>
    BY <1>4 DEF Publish, NextRow
  <2>2. \A v \in Workers : v # w => to'[v] = to[v]
    BY <2>1 DEF TypeInv, TypeOK
  <2> QED
    BY <2>1, <2>2, HandlingBegins
<1>5. ASSUME NEW w \in Workers, PublishFails(w) PROVE DeliveryInv'
  <2>1. PICK n \in todo[w] :
          /\ event[w] = 0
          /\ PublishIfEnabled(w, n) \/ UNCHANGED <<stream, dedup>>
          /\ RowFails(w, n)
          /\ UNCHANGED <<processed, tries, lost, sent>>
    BY <1>5 DEF PublishFails, NextRow
  <2>2. \/ /\ batch[w] # {} /\ batch' = batch /\ todo' = [todo EXCEPT ![w] = @ \ {n}]
           /\ event' = event /\ to' = [to EXCEPT ![w] = {}]
        \/ batch[w] = {} /\ EndBatch(w)
    <3>1. event = [event EXCEPT ![w] = 0]
      BY <2>1 DEF TypeInv, TypeOK
    <3> QED
      BY <2>1, <3>1 DEF RowFails, LeaveRow
  <2> QED
    BY <2>1, <2>2, HandlingBegins
<1>6. ASSUME NEW w \in Workers, MailFails(w) PROVE DeliveryInv'
  <2>1. RowFails(w, event[w]) /\ UNCHANGED <<stream, processed, tries, lost, sent>>
    BY <1>6 DEF MailFails
  <2>2. CASE batch[w] # {} /\ LeaveRow(w, event[w]) /\ batch' = batch
    <3>1. event[w] \notin todo[w]
      BY DEF TypeInv, BatchesAreInOrder
    <3>2. todo' = todo
      BY <2>2, <3>1 DEF LeaveRow, TypeInv, TypeOK
    <3>3. /\ to'[w] = {}
          /\ \A v \in Workers : v # w => to'[v] = to[v] /\ event'[v] = event[v]
      BY <2>2 DEF LeaveRow, TypeInv, TypeOK
    <3> QED
      BY <1>1, <2>1, <2>2, <3>2, <3>3
  <2> QED
    BY <1>2, <2>1, <2>2 DEF RowFails
<1>7. ASSUME NEW w \in Workers, MarkProcessed(w) PROVE DeliveryInv'
  <2>1. UNCHANGED <<stream, processed, tries, lost, sent>> /\ to[w] = {}
    BY <1>7 DEF MarkProcessed
  <2>2. CASE batch[w] # {} /\ event' = [event EXCEPT ![w] = 0] /\ UNCHANGED <<batch, todo, to>>
    <3>1. \A v \in Workers : v # w => event'[v] = event[v]
      BY <2>2 DEF TypeInv, TypeOK
    <3> QED
      BY <1>1, <2>1, <2>2, <3>1
  <2> QED
    BY <1>2, <1>7, <2>1, <2>2 DEF MarkProcessed
<1>8. ASSUME NEW w \in Workers, Commit(w) PROVE DeliveryInv'
  <2>1. /\ EndBatch(w) /\ todo[w] = {} /\ event[w] = 0
        /\ processed' = processed \cup Done(w)
        /\ tries' = [n \in EventIds |-> IF n \in failed[w] THEN tries[n] + 1 ELSE tries[n]]
        /\ UNCHANGED <<stream, sent, lost>>
    BY <1>8 DEF Commit
  <2>2. ASSUME NEW n \in EventIds PROVE Handlings(n)' >= Handlings(n)
    <3>1. CASE n \in failed[w]
      BY <1>0, <2>1, <3>1 DEF Handlings
    <3>2. CASE n \in batch[w] \ failed[w]
      <4>1. n \in Done(w)
        BY <2>1, <3>2, NoRowIsZero DEF Done
      <4> QED
        BY <1>0, <2>1, <4>1 DEF Handlings
    <3>3. CASE n \notin batch[w]
      <4>1. n \notin failed[w]
        BY <3>3 DEF TypeInv, BatchesAreInOrder
      <4>2. (InHand(n)' <=> InHand(n)) /\ (n \in processed => n \in processed')
        BY <2>1, <3>3, EndBatchDelivers
      <4> QED
        BY <1>0, <2>1, <4>1, <4>2 DEF Handlings
    <3> QED
      BY <3>1, <3>2, <3>3
  <2>3. \A n \in EventIds : MayPublish(n)' \subseteq MayPublish(n)
    BY <2>1, EndBatchDelivers
  <2>4. \A n \in EventIds, u \in Recipients : MayMail(n, u)' \subseteq MayMail(n, u)
    BY <2>1, EndBatchDelivers
  <2> QED
    BY <2>1, <2>2, <2>3, <2>4, NothingDelivered
<1>9. ASSUME NEW w \in Workers, Crash(w) PROVE DeliveryInv'
  <2>1. /\ EndBatch(w)
        /\ lost' = [n \in EventIds |-> IF n \in batch[w] THEN lost[n] + 1 ELSE lost[n]]
        /\ UNCHANGED <<stream, sent, processed, tries>>
    BY <1>9 DEF Crash, RolledBack
  <2>2. ASSUME NEW n \in EventIds PROVE Handlings(n)' >= Handlings(n)
    <3>1. CASE n \in batch[w]
      BY <1>0, <2>1, <3>1 DEF Handlings
    <3>2. CASE n \notin batch[w]
      <4>1. InHand(n)' <=> InHand(n)
        BY <2>1, <3>2, EndBatchDelivers
      <4> QED
        BY <1>0, <2>1, <3>2, <4>1 DEF Handlings
    <3> QED
      BY <3>1, <3>2
  <2>3. \A n \in EventIds : MayPublish(n)' \subseteq MayPublish(n)
    BY <2>1, EndBatchDelivers
  <2>4. \A n \in EventIds, u \in Recipients : MayMail(n, u)' \subseteq MayMail(n, u)
    BY <2>1, EndBatchDelivers
  <2> QED
    BY <2>1, <2>2, <2>3, <2>4, NothingDelivered
<1>10. ASSUME NEW w \in Workers, Disconnect(w) PROVE DeliveryInv'
  <2>1. /\ batch[w] # {} /\ batch' = [batch EXCEPT ![w] = {}]
        /\ lost' = [n \in EventIds |-> IF n \in batch[w] THEN lost[n] + 1 ELSE lost[n]]
        /\ UNCHANGED <<stream, sent, processed, tries, todo, event, to>>
    BY <1>10 DEF Disconnect, RolledBack
  <2>2. batch'[w] = {} /\ \A v \in Workers : v # w => batch'[v] = batch[v]
    BY <2>1 DEF TypeInv, TypeOK
  <2>3. todo[w] \subseteq batch[w]
    BY <2>1 DEF TypeInv, BatchesAreInOrder, InHands
  <2> SUFFICES ASSUME NEW n \in EventIds
               PROVE  /\ Copies(n)' + Cardinality(MayPublish(n)') <= Handlings(n)'
                      /\ \A u \in Recipients :
                           sent'[n][u] + Cardinality(MayMail(n, u)') <= Handlings(n)'
    BY DEF DeliveryInv, DeliveriesAreCounted
  <2>4. /\ Copies(n) \in Nat /\ Handlings(n) \in Nat /\ Copies(n)' = Copies(n)
        /\ MayPublish(n) \in SUBSET Workers /\ Cardinality(MayPublish(n)) \in Nat
        /\ \A u \in Recipients :
             /\ sent[n][u] \in Nat
             /\ MayMail(n, u) \in SUBSET Workers /\ Cardinality(MayMail(n, u)) \in Nat
    BY <2>1, CountsAreNumbers DEF Copies
  <2>5. /\ Copies(n) + Cardinality(MayPublish(n)) <= Handlings(n)
        /\ \A u \in Recipients : sent[n][u] + Cardinality(MayMail(n, u)) <= Handlings(n)
    BY DEF DeliveryInv, DeliveriesAreCounted
  <2>6. CASE n \in todo[w]
    <3>1. ~InHand(n) /\ n \notin processed /\ n \in batch[w]
      BY <2>3, <2>6 DEF BatchesAreDisjoint, InHand
    <3>2. ~InHand(n)'
      BY <2>1, <2>2, <3>1 DEF InHand
    <3>3. Handlings(n)' = Handlings(n) + 1
      BY <1>0, <2>1, <3>1, <3>2 DEF Handlings
    <3>4. MayPublish(n)' \in SUBSET (MayPublish(n) \cup {w})
      BY <2>1, <2>2 DEF MayPublish
    <3>5. /\ Cardinality(MayPublish(n)') \in Nat
          /\ Cardinality(MayPublish(n)') <= Cardinality(MayPublish(n)) + 1
      BY <2>4, <3>4, OneWorkerMore, WorkersAreFinite
    <3>6. ASSUME NEW u \in Recipients
          PROVE  sent'[n][u] + Cardinality(MayMail(n, u)') <= Handlings(n)'
      <4>1. MayMail(n, u)' \in SUBSET (MayMail(n, u) \cup {w})
        BY <2>1, <3>4 DEF MayMail
      <4>2. /\ Cardinality(MayMail(n, u)') \in Nat
            /\ Cardinality(MayMail(n, u)') <= Cardinality(MayMail(n, u)) + 1
        BY <2>4, <4>1, OneWorkerMore, WorkersAreFinite
      <4> QED
        BY <2>1, <2>4, <2>5, <3>3, <4>2
    <3> QED
      BY <2>4, <2>5, <3>3, <3>5, <3>6
  <2>7. CASE n \notin todo[w]
    <3>1. MayPublish(n)' \in SUBSET MayPublish(n)
      BY <2>1, <2>2, <2>7 DEF MayPublish
    <3>2. /\ Cardinality(MayPublish(n)') \in Nat
          /\ Cardinality(MayPublish(n)') <= Cardinality(MayPublish(n))
      BY <2>4, <3>1, NoMoreWorkers, WorkersAreFinite
    <3>3. Handlings(n)' >= Handlings(n) /\ Handlings(n)' \in Nat
      <4>1. CASE n \in batch[w]
        BY <1>0, <2>1, <4>1 DEF Handlings
      <4>2. CASE n \notin batch[w]
        <5>1. InHand(n)' <=> InHand(n)
          BY <2>1, <2>2, <4>2 DEF InHand
        <5> QED
          BY <1>0, <2>1, <4>2, <5>1 DEF Handlings
      <4> QED
        BY <4>1, <4>2
    <3>4. ASSUME NEW u \in Recipients
          PROVE  sent'[n][u] + Cardinality(MayMail(n, u)') <= Handlings(n)'
      <4>1. MayMail(n, u)' \in SUBSET MayMail(n, u)
        BY <2>1, <3>1 DEF MayMail
      <4>2. /\ Cardinality(MayMail(n, u)') \in Nat
            /\ Cardinality(MayMail(n, u)') <= Cardinality(MayMail(n, u))
        BY <2>4, <4>1, NoMoreWorkers, WorkersAreFinite
      <4> QED
        BY <2>1, <2>4, <2>5, <3>3, <4>2
    <3> QED
      BY <2>4, <2>5, <3>2, <3>3, <3>4
  <2> QED
    BY <2>6, <2>7
<1>11. ASSUME NEW w \in Workers, SendMail(w) PROVE DeliveryInv'
  <2>1. PICK u \in Recipients :
          /\ NextRecipient(w, u)
          /\ sent' = [sent EXCEPT ![event[w]][u] = @ + 1]
          /\ to' = [to EXCEPT ![w] = @ \ {u}]
          /\ UNCHANGED <<stream, processed, tries, lost, batch, todo, event>>
    BY <1>11 DEF SendMail
  <2>2. event[w] \in EventIds /\ event[w] # 0 /\ u \in to[w]
    BY <2>1, NoRowIsZero DEF NextRecipient, TypeInv, TypeOK, BatchesAreInOrder
  <2>3. \A n \in EventIds, x \in Recipients :
          sent'[n][x] = IF n = event[w] /\ x = u THEN sent[n][x] + 1 ELSE sent[n][x]
    BY <2>1, <2>2 DEF TypeInv, TypeOK
  <2>4. \A n \in EventIds : /\ Handlings(n)' = Handlings(n) /\ Copies(n)' = Copies(n)
                            /\ MayPublish(n)' = MayPublish(n)
    BY <2>1 DEF Handlings, InHand, Copies, MayPublish
  <2>5. to'[w] = to[w] \ {u} /\ \A v \in Workers : v # w => to'[v] = to[v]
    BY <2>1 DEF TypeInv, TypeOK
  <2>6. \A n \in EventIds, x \in Recipients : MayMail(n, x)' \subseteq MayMail(n, x)
    BY <2>1, <2>5 DEF MayPublish, MayMail
  <2>7. \A n \in EventIds : n = event[w] => w \in MayMail(n, u) \ MayMail(n, u)'
    BY <2>1, <2>2, <2>5 DEF MayPublish, MayMail
  <2> SUFFICES ASSUME NEW n \in EventIds, NEW x \in Recipients
               PROVE  sent'[n][x] + Cardinality(MayMail(n, x)') <= Handlings(n)'
    BY <2>4 DEF DeliveryInv, DeliveriesAreCounted
  <2>8. /\ sent[n][x] \in Nat /\ Handlings(n) \in Nat
        /\ MayMail(n, x) \in SUBSET Workers /\ Cardinality(MayMail(n, x)) \in Nat
        /\ sent[n][x] + Cardinality(MayMail(n, x)) <= Handlings(n)
    BY CountsAreNumbers DEF DeliveryInv, DeliveriesAreCounted
  <2>9. MayMail(n, x)' \in SUBSET MayMail(n, x)
    BY <2>6
  <2>10. /\ Cardinality(MayMail(n, x)') \in Nat
         /\ Cardinality(MayMail(n, x)') <= Cardinality(MayMail(n, x))
    BY <2>8, <2>9, NoMoreWorkers, WorkersAreFinite
  <2>11. CASE n = event[w] /\ x = u
    <3>1. MayMail(n, x)' \in SUBSET (MayMail(n, x) \ {w}) /\ w \in MayMail(n, x)
      BY <2>7, <2>9, <2>11
    <3>2. Cardinality(MayMail(n, x)') + 1 <= Cardinality(MayMail(n, x))
      BY <2>8, <3>1, OneWorkerLess
    <3> QED
      BY <2>3, <2>4, <2>8, <2>10, <2>11, <3>2
  <2>12. CASE ~(n = event[w] /\ x = u)
    BY <2>3, <2>4, <2>8, <2>10, <2>12
  <2> QED
    BY <2>11, <2>12
<1>12. ASSUME NEW w \in Workers, SkipThrottled(w) \/ SaveMail(w) PROVE DeliveryInv'
  <2>1. /\ UNCHANGED <<stream, sent, batch, todo, processed, tries, lost, event>>
        /\ \A v \in Workers : to'[v] \subseteq to[v]
    BY <1>12 DEF SkipThrottled, SaveMail, TypeInv, TypeOK
  <2> QED
    BY <1>1, <2>1
<1>13. CASE UNCHANGED <<stream, sent, batch, todo, processed, tries, lost, to, event>>
  BY <1>1, <1>13
<1>14. BeginSend \/ CommitSend \/ UNCHANGED vars
         \/ (\E n \in EventIds : BackoffElapses(n) \/ WindowPasses(n))
         \/ (\E u \in Recipients : ThrottlePasses(u))
         => UNCHANGED <<stream, sent, batch, todo, processed, tries, lost, to, event>>
  BY DEF BeginSend, CommitSend, vars, BackoffElapses, WindowPasses, ThrottlePasses
<1> QED
  BY <1>3, <1>4, <1>5, <1>6, <1>7, <1>8, <1>9, <1>10, <1>11, <1>12, <1>13, <1>14
     DEF Next, Work

\* Each delivery of an event is paid for, those that workers may make yet too.
THEOREM DeliveriesAreExplained == Spec => []DeliveryInv
<1>1. Init => DeliveryInv
  <2> SUFFICES ASSUME Init PROVE DeliveryInv
    OBVIOUS
  <2>1. \A n \in EventIds : Handlings(n) = 0
    BY DEF Init, NoRows, Handlings, InHand
  <2>2. \A n : {i \in DOMAIN stream : stream[i] = n} = {}
    BY DEF Init
  <2>3. \A n : Copies(n) = 0
    BY <2>2, FS_EmptySet DEF Copies
  <2>4. /\ \A n : MayPublish(n) = {}
        /\ \A n \in EventIds, u \in Recipients : MayMail(n, u) = {}
    BY DEF Init, NoRows, MayPublish, MayMail
  <2>5. \A n \in EventIds, u \in Recipients : sent[n][u] = 0
    BY DEF Init
  <2> QED
    <3>1. Cardinality({}) = 0
      BY FS_EmptySet
    <3>2. \A n \in EventIds : Copies(n) + Cardinality(MayPublish(n)) <= Handlings(n)
      BY <2>1, <2>3, <2>4, <3>1
    <3>3. \A n \in EventIds, u \in Recipients :
            sent[n][u] + Cardinality(MayMail(n, u)) <= Handlings(n)
      BY <2>1, <2>4, <2>5, <3>1
    <3> QED
      BY <3>2, <3>3 DEF DeliveryInv, DeliveriesAreCounted
<1>2. TypeInv /\ TypeInv' /\ BatchesAreDisjoint /\ DeliveryInv /\ [Next]_vars => DeliveryInv'
  BY DeliveryStep
<1> QED
  BY <1>1, <1>2, TypesHold, RowsAreHandledOnce, PTL DEF Spec

\* An event is published again, or mailed again to a user, only after a handler
\* threw or a batch was rolled back.
LEMMA CountedIsExplained ==
  ASSUME TypeInv, DeliveryInv
  PROVE  ExtraDeliveriesExplained
<1> SUFFICES ASSUME NEW n \in EventIds
             PROVE  /\ Copies(n) <= Handlings(n)
                    /\ \A u \in Recipients : sent[n][u] <= Handlings(n)
  BY DEF ExtraDeliveriesExplained
<1>1. /\ Copies(n) \in Nat /\ Handlings(n) \in Nat /\ Cardinality(MayPublish(n)) \in Nat
      /\ \A u \in Recipients : sent[n][u] \in Nat /\ Cardinality(MayMail(n, u)) \in Nat
  BY CountsAreNumbers
<1>2. /\ Copies(n) + Cardinality(MayPublish(n)) <= Handlings(n)
      /\ \A u \in Recipients : sent[n][u] + Cardinality(MayMail(n, u)) <= Handlings(n)
  BY DEF DeliveryInv, DeliveriesAreCounted
<1>3. ASSUME NEW u \in Recipients PROVE sent[n][u] <= Handlings(n)
  BY <1>1, <1>2
<1> QED
  BY <1>1, <1>2, <1>3

-----------------------------------------------------------------------------
(* The whole invariant *)

\* OutboxInv, as TLC checks it, holds for any number of workers and events.
THEOREM OutboxInvHolds == Spec => []OutboxInv
<1>1. TypeInv /\ BatchesAreDisjoint /\ PublishInv /\ MailInv /\ DeliveryInv => OutboxInv
  BY CountedIsExplained DEF TypeInv, PublishInv, MailInv, DeliveryInv, OutboxInv
<1> QED
  BY <1>1, TypesHold, RowsAreHandledOnce, HandledRowsWerePublished, RecordsAreTrue,
     DeliveriesAreExplained, PTL

\* Type correctness of the rows, the batches, the stream and the emails.
THEOREM OutboxTypesAreCorrect == Spec => []TypeOK
<1>1. OutboxInv => TypeOK
  BY DEF OutboxInv
<1> QED
  BY <1>1, OutboxInvHolds, PTL

\* The copies of an event, and the emails sent for it, never exceed its handlings.
THEOREM RepeatsAreExplained == Spec => []ExtraDeliveriesExplained
<1>1. OutboxInv => ExtraDeliveriesExplained
  BY DEF OutboxInv
<1> QED
  BY <1>1, OutboxInvHolds, PTL

\* Every row of email_notifications stands for an email that has left.
THEOREM MailRecordsAreTrue == Spec => []RecordedMailWasSent
<1>1. OutboxInv => RecordedMailWasSent
  BY DEF OutboxInv
<1> QED
  BY <1>1, OutboxInvHolds, PTL

-----------------------------------------------------------------------------
(* The queue the outbox implements *)

\* What the worker has locked is committed and not processed.
LEMMA BatchIsPending ==
  ASSUME OutboxInv, NEW w \in Workers, NEW n \in batch[w]
  PROVE  n \in EventIds /\ n \in Queue!PendingEvents
<1>1. n \in DOMAIN events /\ n \notin processed
  BY DEF OutboxInv, BatchesAreDisjoint
<1>2. n \in EventIds /\ events \in Seq(Nat)
  BY <1>1, EventsAreIds DEF OutboxInv, TypeOK
<1> QED
  BY <1>1, <1>2 DEF Queue!PendingEvents

\* What it has handled without an error, or is mailing for, has been delivered.
LEMMA HandledIsCopied ==
  ASSUME NatsOutcomes \subseteq {TRUE}, OutboxInv, NEW w \in Workers,
         NEW n \in (batch[w] \ (todo[w] \cup failed[w])) \cup ({event[w]} \ {0})
  PROVE  Copies(n) > 0
<1>1. connected[w]
  <2>1. connected[w] \in NatsOutcomes
    BY DEF OutboxInv, TypeOK
  <2>2. connected[w] = TRUE
    BY <2>1
  <2> QED
    BY <2>2, Zenon
<1>2. PICK i \in DOMAIN stream : stream[i] = n
  BY <1>1 DEF OutboxInv, HandledWasPublished
<1>3. /\ IsFiniteSet({j \in DOMAIN stream : stream[j] = n})
      /\ Cardinality({j \in DOMAIN stream : stream[j] = n}) \in Nat
  BY CopiesAreFinite DEF OutboxInv, TypeOK
<1>4. {j \in DOMAIN stream : stream[j] = n} # {}
  BY <1>2
<1>5. Cardinality({j \in DOMAIN stream : stream[j] = n}) # 0
  BY <1>3, <1>4, FS_EmptySet
<1> QED
  BY <1>3, <1>5 DEF Copies

\* The copies and the hands as the functions the queue sees.
CopiesOf == [n \in EventIds |-> Copies(n)]
HandsOf == [w \in Workers |-> InHands(w)]

\* A worker whose hands hold no more than before has laid down the rest.
LEMMA HandsGoDown ==
  ASSUME NEW w \in Workers, InHands(w)' \subseteq InHands(w),
         \A v \in Workers : v # w => InHands(v)' = InHands(v)
  PROVE  Queue!LayDown(w)
<1>1. HandsOf' = [HandsOf EXCEPT ![w] = InHands(w)'] /\ InHands(w)' \in SUBSET HandsOf[w]
  BY DEF HandsOf
<1> QED
  BY <1>1 DEF Queue!LayDown, HandsOf

\* One publication, lost, dropped as a duplicate or stored, is one delivery at most.
LEMMA PublicationDelivers ==
  ASSUME OutboxInv, NEW w \in Workers, NEW n \in todo[w],
         PublishIfEnabled(w, n) \/ UNCHANGED <<stream, dedup>>,
         UNCHANGED <<events, sent, processed>>,
         InHands(w)' \subseteq InHands(w),
         \A v \in Workers : v # w => InHands(v)' = InHands(v)
  PROVE  Queue!QueueNext
<1>1. n \in EventIds /\ n \in HandsOf[w]
  BY DEF OutboxInv, TypeOK, HandsOf, InHands
<1>2. Queue!LayDown(w)
  BY HandsGoDown
<1>3. /\ Copies(n)' \in {Copies(n), Copies(n) + 1}
      /\ \A m : m # n => Copies(m)' = Copies(m)
  BY <1>1, OneMoreCopy DEF OutboxInv
<1>4. CASE Copies(n)' = Copies(n)
  <2>1. \A m \in EventIds : Copies(m)' = Copies(m)
    BY <1>3, <1>4
  <2>2. CopiesOf' = CopiesOf
    BY <2>1 DEF CopiesOf
  <2> QED
    BY <1>2, <2>2 DEF Queue!QueueNext, CopiesOf
<1>5. CASE Copies(n)' = Copies(n) + 1
  <2>1. CopiesOf' = [CopiesOf EXCEPT ![n] = @ + 1]
    BY <1>1, <1>3, <1>5 DEF CopiesOf
  <2>2. Queue!Deliver(w, n)
    BY <1>2, <2>1 DEF Queue!Deliver, CopiesOf
  <2> QED
    BY <1>1, <2>2 DEF Queue!QueueNext, HandsOf
<1> QED
  BY <1>3, <1>4, <1>5

\* A worker that ends its batch or leaves a row has less in its hands.
LEMMA RowsAreLaidDown ==
  ASSUME TypeInv, NEW w \in Workers, NEW n,
         EndBatch(w) \/ LeaveRow(w, n)
           \/ (event' = [event EXCEPT ![w] = 0] /\ todo' = todo)
  PROVE  /\ InHands(w)' \subseteq InHands(w)
         /\ \A v \in Workers : v # w => InHands(v)' = InHands(v)
<1>1. /\ todo'[w] \subseteq todo[w] /\ event'[w] = 0
      /\ \A v \in Workers : v # w => todo'[v] = todo[v] /\ event'[v] = event[v]
  BY DEF EndBatch, LeaveRow, TypeInv, TypeOK
<1> QED
  BY <1>1 DEF InHands

\* Every step of the producer, of the workers and of time is a step of the queue
\* or none.
LEMMA QueueStep ==
  ASSUME NatsOutcomes \subseteq {TRUE}, OutboxInv, OutboxInv', [Next]_vars
  PROVE  Queue!QueueNext \/ UNCHANGED Queue!queueVars
<1> USE DEF rowVars, rowState, natsVars, loopVars, mailVars, faultVars
<1>0. TypeInv
  BY DEF OutboxInv, TypeInv
<1>1. stream' = stream => CopiesOf' = CopiesOf
  BY DEF CopiesOf, Copies
<1>2. UNCHANGED <<todo, event>> => HandsOf' = HandsOf
  BY DEF HandsOf, InHands
<1>3. CASE CommitSend
  <2>1. events \in Seq(Nat) /\ \E t : events' = Append(events, t)
    BY <1>3 DEF CommitSend, OutboxInv, TypeOK
  <2>2. Len(events') = Len(events) + 1 /\ Len(events) \in Nat
    BY <2>1
  <2>3. open # {}
    BY <1>3 DEF CommitSend
  <2>4. Cardinality(open) \in Nat /\ Cardinality(open) # 0
    BY <2>3, OpenIsFinite, FS_EmptySet DEF OutboxInv
  <2>5. Len(events) < MaxEvents
    BY <2>2, <2>4, OutboxAssumption DEF OutboxInv, TypeOK
  <2>6. UNCHANGED <<stream, sent, processed, todo, event>>
    BY <1>3 DEF CommitSend
  <2>7. Queue!Enqueue
    BY <1>1, <1>2, <2>2, <2>5, <2>6 DEF Queue!Enqueue, CopiesOf, HandsOf
  <2> QED
    BY <2>7 DEF Queue!QueueNext
<1>4. ASSUME NEW w \in Workers, Fetch(w) PROVE Queue!QueueNext
  <2>1. /\ InHands(w) = {} /\ todo' = [todo EXCEPT ![w] = OldestOf(Fetchable)]
        /\ UNCHANGED <<events, stream, sent, processed, event>>
    BY <1>4 DEF Fetch
  <2>2. OldestOf(Fetchable) \in SUBSET Queue!PendingEvents
    <3>1. OldestOf(Fetchable) \subseteq DOMAIN events \ processed
      BY DEF OldestOf, Fetchable, Due
    <3>2. DOMAIN events = 1..Len(events)
      BY DEF OutboxInv, TypeOK
    <3> QED
      BY <3>1, <3>2 DEF Queue!PendingEvents
  <2> DEFINE rows == OldestOf(Fetchable)
  <2>3. InHands(w)' = rows /\ \A v \in Workers : v # w => InHands(v)' = InHands(v)
    <3> HIDE DEF rows
    <3>1. todo' = [todo EXCEPT ![w] = rows]
      BY <2>1 DEF rows
    <3>2. todo'[w] = rows /\ event'[w] = 0 /\ \A v \in Workers : v # w => todo'[v] = todo[v]
      <4>1. event[w] = 0
        BY <2>1 DEF InHands
      <4> QED
        BY <2>1, <3>1, <4>1 DEF OutboxInv, TypeOK
    <3> QED
      BY <2>1, <3>2 DEF InHands
  <2>4. HandsOf' = [HandsOf EXCEPT ![w] = rows] /\ HandsOf[w] = {}
    <3> HIDE DEF rows
    <3> QED
      BY <2>1, <2>3 DEF HandsOf
  <2>5. Queue!TakeUp(w)
    <3> HIDE DEF rows
    <3>1. rows \in SUBSET Queue!PendingEvents
      BY <2>2 DEF rows
    <3>2. HandsOf[w] = {} /\ \E taken \in SUBSET Queue!PendingEvents :
                                HandsOf' = [HandsOf EXCEPT ![w] = taken]
      BY <2>4, <3>1
    <3>3. UNCHANGED <<Len(events), CopiesOf, sent, processed>>
      BY <1>1, <2>1
    <3> HIDE DEF Queue!PendingEvents
    <3> QED
      BY <3>2, <3>3 DEF Queue!TakeUp, CopiesOf, HandsOf
  <2> QED
    BY <2>5 DEF Queue!QueueNext
<1>5. ASSUME NEW w \in Workers, Publish(w) \/ PublishFails(w) PROVE Queue!QueueNext
  <2>1. PICK n \in todo[w] :
          /\ PublishIfEnabled(w, n) \/ UNCHANGED <<stream, dedup>>
          /\ UNCHANGED <<events, sent, processed>>
          /\ \/ RowFails(w, n)
             \/ /\ todo' = [todo EXCEPT ![w] = @ \ {n}]
                /\ event' = [event EXCEPT ![w] = n]
    BY <1>5 DEF Publish, PublishFails
  <2>2. /\ InHands(w)' \subseteq InHands(w)
        /\ \A v \in Workers : v # w => InHands(v)' = InHands(v)
    <3>1. CASE RowFails(w, n)
      BY <1>0, <3>1, RowsAreLaidDown DEF RowFails
    <3>2. CASE todo' = [todo EXCEPT ![w] = @ \ {n}] /\ event' = [event EXCEPT ![w] = n]
      BY <1>0, <3>2 DEF InHands, TypeInv, TypeOK
    <3> QED
      BY <2>1, <3>1, <3>2
  <2> QED
    BY <2>1, <2>2, PublicationDelivers
<1>6. ASSUME NEW w \in Workers, SendMail(w) PROVE Queue!QueueNext
  <2>1. PICK u \in Recipients : /\ u \in to[w]
                                /\ sent' = [sent EXCEPT ![event[w]][u] = @ + 1]
                                /\ UNCHANGED <<events, stream, processed, todo, event>>
    BY <1>6 DEF SendMail, NextRecipient
  <2>2. event[w] \in EventIds /\ event[w] # 0
    BY <2>1, NoRowIsZero DEF OutboxInv, TypeOK, BatchesAreInOrder
  <2>3. CopiesOf[event[w]] > 0
    BY <2>2, HandledIsCopied DEF CopiesOf
  <2>4. event[w] \in HandsOf[w]
    BY <2>2 DEF HandsOf, InHands
  <2>5. Queue!Notify(event[w], u)
    BY <1>1, <1>2, <2>1, <2>3 DEF Queue!Notify, CopiesOf, HandsOf
  <2> QED
    BY <2>4, <2>5 DEF Queue!QueueNext, HandsOf
<1>7. ASSUME NEW w \in Workers, Commit(w) PROVE Queue!QueueNext
  <2>1. /\ processed' = processed \cup Done(w) /\ UNCHANGED <<events, stream, sent>>
        /\ EndBatch(w) /\ todo[w] = {} /\ event[w] = 0
    BY <1>7 DEF Commit
  <2>2. Done(w) \in SUBSET Queue!Delivered
    <3>1. Done(w) \subseteq batch[w] \ (todo[w] \cup failed[w])
      BY DEF Done
    <3>2. \A n \in Done(w) : n \in Queue!PendingEvents /\ n \in EventIds /\ Copies(n) > 0
      BY <3>1, BatchIsPending, HandledIsCopied
    <3> QED
      BY <3>2 DEF Queue!Delivered
  <2>3. UNCHANGED <<todo, event>>
    BY <2>1 DEF EndBatch, OutboxInv, TypeOK
  <2>4. Queue!Finish(Done(w))
    BY <1>1, <1>2, <2>1, <2>3 DEF Queue!Finish, CopiesOf, HandsOf
  <2> QED
    BY <2>2, <2>4 DEF Queue!QueueNext
<1>8. ASSUME NEW w \in Workers, MarkProcessed(w) \/ MailFails(w) \/ Crash(w)
      PROVE  Queue!QueueNext
  <2>1. UNCHANGED <<events, stream, sent, processed>>
    BY <1>8 DEF MarkProcessed, MailFails, Crash
  <2>2. \/ EndBatch(w) \/ LeaveRow(w, event[w])
        \/ event' = [event EXCEPT ![w] = 0] /\ todo' = todo
    BY <1>8 DEF MarkProcessed, MailFails, RowFails, Crash
  <2>3. Queue!LayDown(w)
    BY <1>0, <2>2, RowsAreLaidDown, HandsGoDown
  <2> QED
    BY <1>1, <2>1, <2>3 DEF Queue!QueueNext, CopiesOf
<1>9. ASSUME NEW w \in Workers, SkipThrottled(w) \/ SaveMail(w) \/ Disconnect(w)
      PROVE  UNCHANGED <<events, stream, sent, processed, todo, event>>
  BY <1>9 DEF SkipThrottled, SaveMail, Disconnect
<1>10. BeginSend \/ UNCHANGED vars
         \/ (\E n \in EventIds : BackoffElapses(n) \/ WindowPasses(n))
         \/ (\E u \in Recipients : ThrottlePasses(u))
         => UNCHANGED <<events, stream, sent, processed, todo, event>>
  BY DEF BeginSend, vars, BackoffElapses, WindowPasses, ThrottlePasses
<1>11. CASE UNCHANGED <<events, stream, sent, processed, todo, event>>
  BY <1>1, <1>2, <1>11 DEF Queue!queueVars, CopiesOf, HandsOf
<1> QED
  BY <1>3, <1>4, <1>5, <1>6, <1>7, <1>8, <1>9, <1>10, <1>11 DEF Next, Work

\* The outbox table, its workers, their batches and locks, the duplicate window
\* of the stream and the emails implement a queue that delivers at least once,
\* mails only what it has delivered, and takes up nothing that it has finished,
\* for any number of workers, failures, rollbacks and lost connections, where
\* NATS is connected.
THEOREM QueueIsImplemented ==
  ASSUME NatsOutcomes \subseteq {TRUE}
  PROVE  Spec => ImplementsQueue
<1>1. Init => Queue!QueueInit
  <2> SUFFICES ASSUME Init PROVE Queue!QueueInit
    OBVIOUS
  <2>1. \A n : {i \in DOMAIN stream : stream[i] = n} = {}
    BY DEF Init
  <2>2. \A n : Copies(n) = 0
    BY <2>1, FS_EmptySet DEF Copies
  <2>3. \A w \in Workers : InHands(w) = {}
    BY DEF Init, NoRows, InHands
  <2> QED
    BY <2>2, <2>3 DEF Init, Queue!QueueInit, EventIds
<1>2. OutboxInv /\ OutboxInv' /\ [Next]_vars => [Queue!QueueNext]_(Queue!queueVars)
  BY QueueStep
<1> QED
  BY <1>1, <1>2, OutboxInvHolds, PTL DEF Spec, ImplementsQueue, Queue!QueueSpec

-----------------------------------------------------------------------------
(* The order of the stream *)

\* The turn of n has come, in a batch that is open or in an earlier one that
\* published it.
Reached(n) == Published(n) \/ InHand(n)

\* The turn of m has come for good, if nothing went wrong with it.
Settled(m) == m \in processed \/ InHand(m)

\* A backoff is that of a failure; what is in the stream was committed.
RowsKnown ==
  /\ \A m \in waiting : tries[m] > 0
  /\ \A i \in DOMAIN stream : stream[i] \in DOMAIN events

\* LIMIT after ORDER BY: a batch leaves out no older row that was due.
OldestInBatch ==
  \A w \in Workers, m, n \in DOMAIN events :
    n \in batch[w] \cup todo[w] /\ Precedes(m, n) /\ Untroubled(m)
      => m \in processed \cup batch[w]

\* An event has its turn after the events that precede it.
TurnsTaken ==
  \A m, n \in DOMAIN events :
    Reached(n) /\ Precedes(m, n) /\ Untroubled(m) => Settled(m)

OrderInv == RowsKnown /\ OldestInBatch /\ TurnsTaken /\ OrderExplained

\* Attempts and rolled back batches are not forgotten, and a failure of an open
\* batch becomes one of them when it ends.
LEMMA TroubleLasts ==
  ASSUME TypeInv, [Next]_vars, NEW m \in EventIds, Untroubled(m)'
  PROVE  Untroubled(m)
<1> USE DEF rowVars, rowState, natsVars, loopVars, mailVars, faultVars, Untroubled
<1>0. /\ tries[m] \in Nat /\ lost[m] \in Nat /\ tries'[m] \in Nat /\ lost'[m] \in Nat
      /\ failed \in [Workers -> SUBSET EventIds]
  BY TypeStep DEF TypeInv, TypeOK
<1>1. CASE UNCHANGED <<tries, lost, failed>>
  BY <1>1
<1>2. ASSUME NEW w \in Workers, NEW n \in EventIds, RowFails(w, n), UNCHANGED <<tries, lost>>
      PROVE  Untroubled(m)
  <2>1. \A v \in Workers : v # w => failed'[v] = failed[v]
    BY <1>0, <1>2 DEF RowFails, EndBatch
  <2>2. failed'[w] = failed[w] \cup {n} \/ failed[w] = {}
    BY <1>0, <1>2 DEF RowFails, EndBatch, TypeInv, BatchesAreInOrder
  <2> QED
    BY <1>0, <1>2, <2>1, <2>2
<1>3. ASSUME NEW w \in Workers, PublishFails(w) PROVE Untroubled(m)
  <2>1. PICK n \in todo[w] : RowFails(w, n) /\ UNCHANGED <<tries, lost>>
    BY <1>3 DEF PublishFails
  <2>2. n \in EventIds
    BY DEF TypeInv, TypeOK
  <2> QED
    BY <1>2, <2>1, <2>2
<1>4. ASSUME NEW w \in Workers, MailFails(w) PROVE Untroubled(m)
  <2>1. event[w] \in EventIds
    BY <1>4 DEF MailFails, TypeInv, TypeOK
  <2> QED
    BY <1>2, <1>4, <2>1 DEF MailFails
<1>5. ASSUME NEW w \in Workers, Commit(w) PROVE Untroubled(m)
  <2>1. /\ failed' = [failed EXCEPT ![w] = {}] /\ lost' = lost
        /\ tries'[m] = IF m \in failed[w] THEN tries[m] + 1 ELSE tries[m]
    BY <1>5 DEF Commit, EndBatch
  <2>2. m \notin failed[w] /\ tries[m] = 0 /\ lost[m] = 0
    BY <1>0, <2>1
  <2> QED
    BY <1>0, <2>1, <2>2
<1>6. ASSUME NEW w \in Workers, Crash(w) \/ Disconnect(w) PROVE Untroubled(m)
  <2>1. /\ failed' = [failed EXCEPT ![w] = {}] /\ tries' = tries
        /\ lost'[m] = IF m \in batch[w] THEN lost[m] + 1 ELSE lost[m]
    BY <1>6 DEF Crash, Disconnect, RolledBack, EndBatch
  <2>2. m \notin batch[w] /\ tries[m] = 0 /\ lost[m] = 0
    BY <1>0, <2>1
  <2>3. m \notin failed[w]
    BY <2>2 DEF TypeInv, BatchesAreInOrder
  <2> QED
    BY <1>0, <2>1, <2>2, <2>3
<1>7. ASSUME NEW w \in Workers,
             Fetch(w) \/ Publish(w) \/ SkipThrottled(w) \/ SendMail(w) \/ SaveMail(w)
      PROVE  UNCHANGED <<tries, lost, failed>>
  BY <1>7 DEF Fetch, Publish, SkipThrottled, SendMail, SaveMail
<1>9. ASSUME NEW w \in Workers, MarkProcessed(w) PROVE UNCHANGED <<tries, lost, failed>>
  <2>1. CASE batch[w] = {} /\ EndBatch(w)
    <3>1. failed[w] = {} /\ failed' = [failed EXCEPT ![w] = {}]
      BY <2>1 DEF EndBatch, TypeInv, BatchesAreInOrder
    <3>2. failed' = failed
      BY <1>0, <3>1
    <3> QED
      BY <1>9, <3>2 DEF MarkProcessed
  <2> QED
    BY <1>9, <2>1 DEF MarkProcessed
<1>8. BeginSend \/ CommitSend \/ UNCHANGED vars
        \/ (\E n \in EventIds : BackoffElapses(n) \/ WindowPasses(n))
        \/ (\E u \in Recipients : ThrottlePasses(u))
        => UNCHANGED <<tries, lost, failed>>
  BY DEF BeginSend, CommitSend, vars, BackoffElapses, WindowPasses, ThrottlePasses
<1> QED
  BY <1>1, <1>3, <1>4, <1>5, <1>6, <1>7, <1>8, <1>9 DEF Next, Work

\* A step that publishes nothing, takes no row and gives no event its turn.
LEMMA OrderKept ==
  ASSUME TypeInv, TypeInv', OrderInv, UNCHANGED <<events, stream>>,
         \A m \in EventIds : Untroubled(m)' => Untroubled(m),
         \A m \in EventIds : Untroubled(m)' /\ Settled(m) => Settled(m)',
         \A n \in EventIds : InHand(n)' => InHand(n),
         processed \subseteq processed',
         \A w \in Workers :
           /\ todo'[w] \subseteq todo[w]
           /\ \/ batch'[w] = batch[w]
              \/ batch'[w] = {} /\ todo'[w] = {}
              \/ batch'[w] = {} /\ \A m \in EventIds : Untroubled(m)' => m \notin batch[w],
         \A m \in waiting' : tries'[m] > 0
  PROVE  OrderInv'
<1>1. DOMAIN events \subseteq EventIds /\ DOMAIN events' = DOMAIN events
  BY EventsAreIds DEF TypeInv
<1>2. \A m, n : Precedes(m, n)' <=> Precedes(m, n)
  BY DEF Precedes
<1>3. RowsKnown'
  BY DEF OrderInv, RowsKnown
<1>4. OldestInBatch'
  <2> SUFFICES ASSUME NEW w \in Workers, NEW m \in DOMAIN events, NEW n \in DOMAIN events,
                      n \in batch'[w] \cup todo'[w], Precedes(m, n), Untroubled(m)'
               PROVE  m \in processed' \cup batch'[w]
    BY <1>1, <1>2 DEF OldestInBatch
  <2>1. n \in batch[w] \cup todo[w] /\ Untroubled(m) /\ m \in EventIds
    BY <1>1
  <2>2. m \in processed \cup batch[w]
    BY <2>1 DEF OrderInv, OldestInBatch
  <2> QED
    BY <2>1, <2>2
<1>5. TurnsTaken'
  <2>1. \A n \in EventIds : Reached(n)' => Reached(n)
    BY DEF Reached, Published
  <2> QED
    BY <1>1, <1>2, <2>1 DEF OrderInv, TurnsTaken
<1>6. OrderExplained'
  BY <1>1, <1>2 DEF OrderInv, OrderExplained, RowsKnown
<1> QED
  BY <1>3, <1>4, <1>5, <1>6 DEF OrderInv

\* A worker handles a row once it has handled those that precede it.
LEMMA TurnTaken ==
  ASSUME TypeInv, BatchesAreDisjoint, OrderInv, NEW w \in Workers, NEW n \in todo[w],
         NextRow(w, n), PublishIfEnabled(w, n) \/ UNCHANGED <<stream, dedup>>,
         \/ todo' = [todo EXCEPT ![w] = @ \ {n}]
         \/ batch[w] = {} /\ todo' = [todo EXCEPT ![w] = {}],
         UNCHANGED <<events, batch, processed, waiting, tries>>,
         \A m \in EventIds : Untroubled(m)' => Untroubled(m)
  PROVE  OrderInv'
<1>1. DOMAIN events \subseteq EventIds /\ \A m, k : Precedes(m, k)' <=> Precedes(m, k)
  BY EventsAreIds DEF TypeInv, Precedes
<1>2. /\ n \in DOMAIN events
      /\ batch[w] # {} => n \in batch[w] /\ n \notin processed /\ ~InHand(n)
      /\ batch[w] = {} => ~Untroubled(n)
  <2>1. n \in EventIds /\ n \in InHands(w)
    BY DEF TypeInv, TypeOK, InHands
  <2>2. n \in DOMAIN events
    BY <2>1 DEF TypeInv, BatchesAreInOrder
  <2>3. CASE batch[w] # {}
    BY <2>1, <2>2, <2>3 DEF TypeInv, BatchesAreInOrder, BatchesAreDisjoint, InHand
  <2>4. CASE batch[w] = {}
    <3>1. lost[n] > 0 /\ lost[n] \in Nat /\ tries[n] \in Nat
      BY <2>1, <2>4 DEF TypeInv, TypeOK, BatchesAreInOrder
    <3> QED
      BY <2>2, <2>4, <3>1 DEF Untroubled
  <2> QED
    BY <2>3, <2>4
<1>3. /\ batch[w] # {} => \A m : InHand(m)' <=> InHand(m) \/ m = n
      /\ batch[w] = {} => \A m : InHand(m)' <=> InHand(m)
  <2>1. todo \in [Workers -> SUBSET EventIds]
    BY DEF TypeInv, TypeOK
  <2>2. CASE batch[w] # {}
    BY <1>2, <2>1, <2>2 DEF InHand
  <2>3. CASE batch[w] = {}
    BY <2>1, <2>3 DEF InHand
  <2> QED
    BY <2>2, <2>3
<1>4. /\ DOMAIN stream \subseteq DOMAIN stream'
      /\ \A i \in DOMAIN stream : stream'[i] = stream[i]
      /\ \A j \in DOMAIN stream' \ DOMAIN stream :
           stream'[j] = n /\ \A i \in DOMAIN stream' : i < j => i \in DOMAIN stream
      /\ \A j \in DOMAIN stream, i \in DOMAIN stream' : i < j => i \in DOMAIN stream
  <2>1. stream \in Seq(EventIds)
    BY DEF TypeInv, TypeOK
  <2>2. stream' = stream \/ stream' = Append(stream, n)
    BY DEF PublishIfEnabled, Stored
  <2> QED
    BY <2>1, <2>2
<1>5. \A k : Reached(k)' => Reached(k) \/ k = n
  BY <1>3, <1>4 DEF Reached, Published
<1>6. RowsKnown'
  BY <1>2, <1>4 DEF OrderInv, RowsKnown
<1>7. OldestInBatch'
  <2>1. \A v \in Workers : todo'[v] \subseteq todo[v]
    BY DEF TypeInv, TypeOK
  <2> QED
    BY <1>1, <2>1 DEF OrderInv, OldestInBatch
<1>8. TurnsTaken'
  <2> SUFFICES ASSUME NEW m \in DOMAIN events, NEW k \in DOMAIN events,
                      Reached(k)', Precedes(m, k), Untroubled(m)
               PROVE  Settled(m)'
    BY <1>1 DEF TurnsTaken
  <2>1. CASE Reached(k)
    BY <1>3, <2>1 DEF OrderInv, TurnsTaken, Settled
  <2>2. CASE k = n
    <3>1. m \in processed \cup batch[w]
      BY <1>2, <2>2 DEF OrderInv, OldestInBatch
    <3>2. m \notin todo[w]
      <4>1. events \in Seq(Nat)
        BY DEF TypeInv, TypeOK
      <4>2. events[m] \in Nat /\ events[n] \in Nat /\ events[m] < events[n]
        BY <1>2, <2>2, <4>1 DEF Precedes
      <4>3. m \in todo[w] => events[n] <= events[m]
        BY DEF NextRow
      <4> QED
        BY <4>2, <4>3
    <3> QED
      BY <1>3, <3>1, <3>2 DEF Settled, InHand
  <2> QED
    BY <1>5, <2>1, <2>2
<1>9. OrderExplained'
  <2> SUFFICES ASSUME NEW i \in DOMAIN stream', NEW j \in DOMAIN stream', i < j,
                      NEW d, d = stream'[j], Untroubled(d)', Precedes(d, stream'[i])
               PROVE  FALSE
    BY <1>1 DEF OrderExplained
  <2>1. CASE j \in DOMAIN stream
    <3>1. i \in DOMAIN stream
      BY <1>4, <2>1
    <3>2. d = stream[j] /\ d \in EventIds
      BY <1>4, <2>1 DEF TypeInv, TypeOK
    <3> QED
      BY <1>4, <2>1, <3>1, <3>2 DEF OrderInv, OrderExplained
  <2>2. CASE j \notin DOMAIN stream
    <3>1. d = n /\ i \in DOMAIN stream /\ stream'[i] = stream[i]
      BY <1>4, <2>2
    <3>2. Reached(stream[i]) /\ stream[i] \in DOMAIN events
      BY <3>1 DEF Reached, Published, OrderInv, RowsKnown
    <3>3. Settled(n) /\ Untroubled(n)
      BY <1>1, <1>2, <3>1, <3>2 DEF OrderInv, TurnsTaken
    <3> QED
      BY <1>2, <3>3 DEF Settled
  <2> QED
    BY <2>1, <2>2
<1> QED
  BY <1>6, <1>7, <1>8, <1>9 DEF OrderInv

\* Every step of a worker that is alone keeps the order.
LEMMA OrderStep ==
  ASSUME \A v, w \in Workers : v = w
  PROVE  TypeInv /\ BatchesAreDisjoint /\ OrderInv /\ [Next]_vars => OrderInv'
<1> SUFFICES ASSUME TypeInv, BatchesAreDisjoint, OrderInv, [Next]_vars PROVE OrderInv'
  OBVIOUS
<1> USE DEF rowVars, rowState, natsVars, loopVars, mailVars, faultVars
<1>0. /\ TypeInv' /\ DOMAIN events \subseteq EventIds
      /\ \A m \in EventIds : Untroubled(m)' => Untroubled(m)
  BY TypeStep, TroubleLasts, EventsAreIds DEF TypeInv
<1>1. CASE UNCHANGED <<events, stream, batch, todo, processed, waiting, tries>>
  BY <1>0, <1>1, OrderKept DEF OrderInv, RowsKnown, Settled, InHand
<1>2. CASE CommitSend
  <2>1. PICK t : events' = Append(events, t)
    BY <1>2 DEF CommitSend
  <2>2. events \in Seq(Nat) /\ DOMAIN events = 1..Len(events) /\ Len(events) \in Nat
    BY DEF TypeInv, TypeOK
  <2>3. /\ DOMAIN events' = DOMAIN events \cup {Len(events) + 1}
        /\ \A m \in DOMAIN events : events'[m] = events[m] /\ m < Len(events) + 1
        /\ Len(events) + 1 \notin DOMAIN events
    BY <2>1, <2>2
  <2>4. UNCHANGED <<stream, batch, todo, processed, waiting, tries>>
    BY <1>2 DEF CommitSend
  <2>5. \A m : Reached(m) => m \in DOMAIN events
    BY DEF Reached, Published, InHand, OrderInv, RowsKnown, BatchesAreDisjoint
  <2>6. \A m \in DOMAIN events', n \in DOMAIN events :
          Precedes(m, n)' => m \in DOMAIN events /\ Precedes(m, n)
    BY <2>2, <2>3 DEF Precedes
  <2>7. \A m : (Reached(m)' <=> Reached(m)) /\ (Settled(m)' <=> Settled(m))
    BY <2>4 DEF Reached, Settled, Published, InHand
  <2>8. RowsKnown'
    BY <2>3, <2>4 DEF OrderInv, RowsKnown
  <2>9. OldestInBatch'
    <3> SUFFICES ASSUME NEW w \in Workers, NEW m \in DOMAIN events', NEW n \in DOMAIN events',
                        n \in batch[w] \cup todo[w], Precedes(m, n)', Untroubled(m)'
                 PROVE  m \in processed \cup batch[w]
      BY <2>4 DEF OldestInBatch
    <3>1. n \in DOMAIN events
      BY DEF TypeInv, BatchesAreInOrder, InHands
    <3>2. m \in DOMAIN events /\ Precedes(m, n) /\ Untroubled(m)
      BY <1>0, <2>6, <3>1
    <3> QED
      BY <3>1, <3>2 DEF OrderInv, OldestInBatch
  <2>10. TurnsTaken'
    <3> SUFFICES ASSUME NEW m \in DOMAIN events', NEW n \in DOMAIN events',
                        Reached(n), Precedes(m, n)', Untroubled(m)'
                 PROVE  Settled(m)
      BY <2>7 DEF TurnsTaken
    <3>1. m \in DOMAIN events /\ n \in DOMAIN events /\ Precedes(m, n) /\ Untroubled(m)
      BY <1>0, <2>5, <2>6
    <3> QED
      BY <3>1 DEF OrderInv, TurnsTaken
  <2>11. OrderExplained'
    <3> SUFFICES ASSUME NEW i \in DOMAIN stream, NEW j \in DOMAIN stream, i < j,
                        NEW d, d = stream[j], Untroubled(d)', NEW e, e = stream[i],
                        Precedes(d, e)'
                 PROVE  FALSE
      BY <2>4 DEF OrderExplained
    <3>1. d \in DOMAIN events /\ e \in DOMAIN events
      BY DEF OrderInv, RowsKnown
    <3>2. Precedes(d, e) /\ Untroubled(d)
      BY <1>0, <2>3, <2>6, <3>1
    <3> QED
      BY <3>2 DEF OrderInv, OrderExplained
  <2> QED
    BY <2>8, <2>9, <2>10, <2>11 DEF OrderInv
<1>3. ASSUME NEW w \in Workers, Fetch(w) PROVE OrderInv'
  <2>1. /\ batch[w] = {} /\ batch' = [batch EXCEPT ![w] = OldestOf(Fetchable)]
        /\ todo' = [todo EXCEPT ![w] = OldestOf(Fetchable)]
        /\ UNCHANGED <<events, stream, processed, waiting, tries, lost, failed>>
    BY <1>3 DEF Fetch
  <2>2. \A v \in Workers : v = w
    OBVIOUS
  <2>3. batch'[w] = OldestOf(Fetchable) /\ todo'[w] = OldestOf(Fetchable)
    BY <2>1 DEF TypeInv, TypeOK
  <2>4. \A m : ~InHand(m) /\ ~InHand(m)'
    BY <2>1, <2>2, <2>3 DEF InHand
  <2>5. \A m, n : Precedes(m, n)' <=> Precedes(m, n)
    BY <2>1 DEF Precedes
  <2>6. ASSUME NEW m \in DOMAIN events, NEW n \in OldestOf(Fetchable), Precedes(m, n),
               Untroubled(m), m \notin processed
        PROVE  m \in OldestOf(Fetchable)
    <3>1. m \notin waiting
      <4>1. tries[m] \in Nat /\ lost[m] \in Nat /\ tries[m] + lost[m] = 0
        BY <1>0, <2>6 DEF TypeInv, TypeOK, Untroubled
      <4>2. tries[m] = 0
        BY <4>1
      <4> QED
        BY <4>2 DEF OrderInv, RowsKnown
    <3>2. m \in Fetchable
      BY <2>1, <2>2, <2>6, <3>1 DEF Fetchable, Due
    <3> DEFINE Older(k) == {x \in Fetchable : events[x] < events[k]}
    <3>3. Older(m) \subseteq Older(n)
      <4>1. Fetchable \subseteq DOMAIN events /\ n \in DOMAIN events /\ events \in Seq(Nat)
        BY DEF Fetchable, Due, OldestOf, TypeInv, TypeOK
      <4>2. events[m] < events[n] /\ \A x \in DOMAIN events : events[x] \in Nat
        BY <2>6, <4>1 DEF Precedes
      <4> QED
        BY <4>1, <4>2
    <3>4. IsFiniteSet(Older(n))
      <4>1. DOMAIN events = 1..Len(events) /\ Len(events) \in Int /\ 1 \in Int
        BY DEF TypeInv, TypeOK
      <4>2. IsFiniteSet(DOMAIN events)
        BY <4>1, FS_Interval
      <4>3. Older(n) \subseteq DOMAIN events
        BY DEF Fetchable, Due
      <4> QED
        BY <4>2, <4>3, FS_Subset
    <3>5. Cardinality(Older(n)) < BatchSize
      BY DEF OldestOf
    <3> HIDE DEF Older
    <3>6. Cardinality(Older(m)) <= Cardinality(Older(n)) /\ IsFiniteSet(Older(m))
      BY <3>3, <3>4, FS_Subset
    <3>7. Cardinality(Older(m)) \in Nat /\ Cardinality(Older(n)) \in Nat
      BY <3>4, <3>6, FS_CardinalityType
    <3>8. Cardinality(Older(m)) < BatchSize
      BY <3>5, <3>6, <3>7, OutboxAssumption
    <3> QED
      BY <3>2, <3>8 DEF OldestOf, Older
  <2>7. RowsKnown'
    BY <2>1 DEF OrderInv, RowsKnown
  <2>8. OldestInBatch'
    <3> HIDE DEF OldestOf, Fetchable
    <3> QED
      BY <1>0, <2>1, <2>2, <2>3, <2>5, <2>6 DEF OldestInBatch
  <2>9. TurnsTaken'
    BY <1>0, <2>1, <2>4, <2>5 DEF OrderInv, TurnsTaken, Reached, Settled, Published
  <2>10. OrderExplained'
    <3>1. \A i \in DOMAIN stream : stream[i] \in EventIds
      BY DEF TypeInv, TypeOK
    <3> QED
      BY <1>0, <2>1, <2>5, <3>1 DEF OrderInv, OrderExplained
  <2> QED
    BY <2>7, <2>8, <2>9, <2>10 DEF OrderInv
<1>4. ASSUME NEW w \in Workers, Publish(w) PROVE OrderInv'
  <2>1. PICK n \in todo[w] : /\ NextRow(w, n) /\ PublishIfEnabled(w, n)
                             /\ todo' = [todo EXCEPT ![w] = @ \ {n}]
                             /\ UNCHANGED <<events, batch, processed, waiting, tries>>
    BY <1>4 DEF Publish
  <2> QED
    BY <1>0, <2>1, TurnTaken
<1>5. ASSUME NEW w \in Workers, PublishFails(w) PROVE OrderInv'
  <2>1. PICK n \in todo[w] : /\ NextRow(w, n)
                             /\ PublishIfEnabled(w, n) \/ UNCHANGED <<stream, dedup>>
                             /\ RowFails(w, n)
                             /\ UNCHANGED <<events, processed, waiting, tries>>
    BY <1>5 DEF PublishFails
  <2>2. \/ batch' = batch /\ todo' = [todo EXCEPT ![w] = @ \ {n}]
        \/ /\ batch[w] = {} /\ todo' = [todo EXCEPT ![w] = {}]
           /\ batch' = [batch EXCEPT ![w] = {}]
    BY <2>1 DEF RowFails, LeaveRow, EndBatch
  <2>3. batch' = batch
    BY <2>2, NothingToUnlock
  <2> QED
    BY <1>0, <2>1, <2>2, <2>3, TurnTaken
<1>6. ASSUME NEW w \in Workers, MailFails(w) \/ MarkProcessed(w) PROVE OrderInv'
  <2>1. UNCHANGED <<events, stream, processed, waiting, tries>>
    BY <1>6 DEF MailFails, MarkProcessed
  <2>2. \/ batch' = batch /\ todo' = todo
        \/ batch' = batch /\ todo' = [todo EXCEPT ![w] = @ \ {event[w]}]
        \/ batch[w] = {} /\ EndBatch(w)
    BY <1>6 DEF MailFails, RowFails, LeaveRow, MarkProcessed
  <2>3. event[w] \notin todo[w]
    BY DEF TypeInv, BatchesAreInOrder
  <2>4. CASE UNCHANGED <<batch, todo>>
    BY <1>1, <2>1, <2>4
  <2>5. CASE batch[w] = {} /\ EndBatch(w)
    <3>1. /\ batch' = batch
          /\ \A v \in Workers : todo'[v] \subseteq todo[v] /\ (v # w => todo'[v] = todo[v])
      BY <2>5 DEF EndBatch, TypeInv, TypeOK
    <3>2. \A m : InHand(m)' <=> InHand(m)
      BY <2>5, <3>1 DEF InHand
    <3> QED
      BY <1>0, <2>1, <3>1, <3>2, OrderKept DEF OrderInv, RowsKnown, Settled
  <2>6. CASE batch' = batch /\ todo' = [todo EXCEPT ![w] = @ \ {event[w]}]
    <3>1. todo' = todo
      BY <2>3, <2>6 DEF TypeInv, TypeOK
    <3> QED
      BY <2>4, <2>6, <3>1
  <2> QED
    BY <2>2, <2>4, <2>5, <2>6
<1>7. ASSUME NEW w \in Workers, EndBatch(w)
      PROVE  /\ \A v \in Workers : /\ todo'[v] \subseteq todo[v]
                                     /\ \/ batch'[v] = batch[v]
                                        \/ batch'[v] = {} /\ todo'[v] = {}
             /\ \A m : InHand(m)' => InHand(m)
             /\ \A m : InHand(m) /\ m \notin batch[w] => InHand(m)'
  BY <1>7 DEF EndBatch, InHand, TypeInv, TypeOK
<1>8. ASSUME NEW w \in Workers, Commit(w) PROVE OrderInv'
  <2>1. /\ EndBatch(w) /\ todo[w] = {} /\ event[w] = 0
        /\ processed' = processed \cup Done(w) /\ waiting' = waiting \cup failed[w]
        /\ tries' = [n \in EventIds |-> IF n \in failed[w] THEN tries[n] + 1 ELSE tries[n]]
        /\ UNCHANGED <<events, stream>>
    BY <1>8 DEF Commit
  <2>2. \A m \in waiting' : tries'[m] > 0
    <3>1. \A m \in EventIds : tries[m] \in Nat
      BY DEF TypeInv, TypeOK
    <3>2. waiting \subseteq EventIds /\ failed[w] \subseteq EventIds
      BY DEF TypeInv, TypeOK
    <3> QED
      BY <2>1, <3>1, <3>2 DEF OrderInv, RowsKnown
  <2>3. ASSUME NEW m \in EventIds, Untroubled(m)', Settled(m) PROVE Settled(m)'
    <3>1. CASE m \in batch[w]
      <4>1. m \notin failed[w] /\ m # 0
        BY <1>0, <2>3, OutboxAssumption DEF Untroubled, EventIds
      <4> QED
        BY <2>1, <3>1, <4>1 DEF Done, Settled
    <3>2. CASE m \notin batch[w]
      BY <1>7, <2>1, <2>3, <3>2 DEF Settled
    <3> QED
      BY <3>1, <3>2
  <2> QED
    BY <1>0, <1>7, <2>1, <2>2, <2>3, OrderKept
<1>9. ASSUME NEW w \in Workers, Crash(w) \/ Disconnect(w) PROVE OrderInv'
  <2>1. /\ UNCHANGED <<events, stream, processed, waiting, tries>>
        /\ lost' = [n \in EventIds |-> IF n \in batch[w] THEN lost[n] + 1 ELSE lost[n]]
    BY <1>9 DEF Crash, Disconnect, RolledBack
  <2>2. \A m \in waiting' : tries'[m] > 0
    BY <2>1 DEF OrderInv, RowsKnown
  <2>3. ASSUME NEW m \in EventIds, Untroubled(m)' PROVE m \notin batch[w]
    <3>1. tries[m] \in Nat /\ lost[m] \in Nat /\ tries'[m] + lost'[m] = 0
      BY <2>3 DEF TypeInv, TypeOK, Untroubled
    <3> QED
      BY <2>1, <3>1
  <2>4. CASE Crash(w)
    <3>1. EndBatch(w)
      BY <2>4 DEF Crash
    <3>2. \A m \in EventIds : Untroubled(m)' /\ Settled(m) => Settled(m)'
      BY <1>7, <2>1, <2>3, <3>1 DEF Settled
    <3> QED
      BY <1>0, <1>7, <2>1, <2>2, <3>1, <3>2, OrderKept
  <2>5. CASE Disconnect(w)
    <3>1. /\ batch'[w] = {} /\ todo' = todo
          /\ \A v \in Workers : v # w => batch'[v] = batch[v]
      BY <2>5 DEF Disconnect, TypeInv, TypeOK
    <3>2. /\ \A m : InHand(m)' => InHand(m)
          /\ \A m : InHand(m) /\ m \notin batch[w] => InHand(m)'
      BY <3>1 DEF InHand
    <3>3. \A m \in EventIds : Untroubled(m)' /\ Settled(m) => Settled(m)'
      BY <2>1, <2>3, <3>2 DEF Settled
    <3>4. \A v \in Workers :
            \/ batch'[v] = batch[v]
            \/ batch'[v] = {} /\ \A m \in EventIds : Untroubled(m)' => m \notin batch[v]
      BY <2>3, <3>1
    <3> QED
      BY <1>0, <2>1, <2>2, <3>1, <3>2, <3>3, <3>4, OrderKept
  <2> QED
    BY <1>9, <2>4, <2>5
<1>10. ASSUME NEW n \in EventIds, BackoffElapses(n) PROVE OrderInv'
  <2>1. UNCHANGED <<events, stream, batch, todo, processed, tries>> /\ waiting' \subseteq waiting
    BY <1>10 DEF BackoffElapses
  <2> QED
    BY <1>0, <2>1, OrderKept DEF OrderInv, RowsKnown, Settled, InHand
<1>11. ASSUME NEW w \in Workers, SkipThrottled(w) \/ SendMail(w) \/ SaveMail(w)
       PROVE  UNCHANGED <<events, stream, batch, todo, processed, waiting, tries>>
  BY <1>11 DEF SkipThrottled, SendMail, SaveMail
<1>12. BeginSend \/ UNCHANGED vars \/ (\E n \in EventIds : WindowPasses(n))
         \/ (\E u \in Recipients : ThrottlePasses(u))
         => UNCHANGED <<events, stream, batch, todo, processed, waiting, tries>>
  BY DEF BeginSend, vars, WindowPasses, ThrottlePasses
<1> QED
  BY <1>1, <1>2, <1>3, <1>4, <1>5, <1>6, <1>8, <1>9, <1>10, <1>11, <1>12 DEF Next, Work

\* So the invariant of the order holds.
LEMMA OrderInvHolds ==
  ASSUME \A v, w \in Workers : v = w
  PROVE  Spec => []OrderInv
<1>1. Init => OrderInv
  BY DEF Init, NoRows, OrderInv, RowsKnown, OldestInBatch, TurnsTaken, OrderExplained,
         Reached, Published, InHand
<1>2. TypeInv /\ BatchesAreDisjoint /\ OrderInv /\ [Next]_vars => OrderInv'
  BY OrderStep
<1> QED
  BY <1>1, <1>2, TypesHold, RowsAreHandledOnce, PTL DEF Spec

\* One backend process that runs the worker publishes the messages of a
\* conversation in their order, up to sends that overlapped and to events that
\* failed or were in a batch rolled back, for any batch size, whatever is
\* mailed meanwhile and whenever backoffs and windows end.
THEOREM InversionsAreExplained ==
  ASSUME \A v, w \in Workers : v = w
  PROVE  Spec => []OrderExplained
<1>1. OrderInv => OrderExplained
  BY DEF OrderInv
<1> QED
  BY <1>1, OrderInvHolds, PTL

\* No two sends of the conversation are ever in flight together.
OneSendAtATime == \A s, t \in open : s = t

\* Such sends commit in the order in which they start.
StartOrder ==
  /\ \A m, n \in DOMAIN events : m < n => events[m] < events[n]
  /\ \A t \in open, m \in DOMAIN events : events[m] < t
  /\ \A m \in DOMAIN events : events[m] <= clock

\* A send starts after those that have committed.
LEMMA StartOrderStep ==
  TypeInv /\ StartOrder /\ OneSendAtATime /\ [Next]_vars => StartOrder'
<1> SUFFICES ASSUME TypeInv, StartOrder, OneSendAtATime, [Next]_vars PROVE StartOrder'
  OBVIOUS
<1> USE DEF rowVars, rowState, natsVars, loopVars, mailVars, faultVars
<1>0. /\ events \in Seq(Nat) /\ DOMAIN events = 1..Len(events) /\ Len(events) \in Nat
      /\ clock \in Nat /\ open \subseteq 1..clock
  BY DEF TypeInv, TypeOK
<1>1. CASE BeginSend
  <2>1. clock' = clock + 1 /\ open' = open \cup {clock + 1} /\ events' = events
    BY <1>1 DEF BeginSend
  <2>2. \A m \in DOMAIN events : events[m] \in Nat /\ events[m] <= clock
    BY <1>0 DEF StartOrder
  <2> QED
    BY <1>0, <2>1, <2>2 DEF StartOrder
<1>2. CASE CommitSend
  <2>1. PICK t \in open : open' = open \ {t} /\ events' = Append(events, t) /\ clock' = clock
    BY <1>2 DEF CommitSend
  <2>2. open' = {} /\ t \in Nat /\ t <= clock
    BY <1>0, <2>1 DEF OneSendAtATime
  <2>3. /\ DOMAIN events' = DOMAIN events \cup {Len(events) + 1}
        /\ \A m \in DOMAIN events : events'[m] = events[m] /\ m < Len(events) + 1
        /\ events'[Len(events) + 1] = t
    BY <1>0, <2>1
  <2>4. \A m, n \in DOMAIN events' : m < n => events'[m] < events'[n]
    BY <1>0, <2>1, <2>3 DEF StartOrder
  <2>5. \A m \in DOMAIN events' : events'[m] <= clock'
    BY <1>0, <2>1, <2>2, <2>3 DEF StartOrder
  <2> QED
    BY <2>2, <2>4, <2>5 DEF StartOrder
<1>3. ASSUME NEW w \in Workers,
             \/ Work(w) \/ PublishFails(w) \/ MailFails(w) \/ Crash(w) \/ Disconnect(w)
      PROVE  UNCHANGED rowVars
  BY <1>3 DEF Work, Fetch, Publish, SkipThrottled, SendMail, SaveMail, MarkProcessed, Commit,
              PublishFails, MailFails, Crash, Disconnect
<1>4. UNCHANGED vars \/ (\E n \in EventIds : BackoffElapses(n) \/ WindowPasses(n))
        \/ (\E u \in Recipients : ThrottlePasses(u)) => UNCHANGED rowVars
  BY DEF vars, BackoffElapses, WindowPasses, ThrottlePasses
<1>5. CASE UNCHANGED rowVars
  BY <1>5 DEF StartOrder
<1> QED
  BY <1>1, <1>2, <1>3, <1>4, <1>5 DEF Next

\* Nothing has failed, and no batch was rolled back.
NoFaults ==
  /\ failures = 0 /\ aborts = 0
  /\ \A n \in EventIds : tries[n] = 0 /\ lost[n] = 0
  /\ \A w \in Workers : failed[w] = {}

\* Nothing is retried then.
LEMMA NoFaultsStep ==
  ASSUME MaxFailures = 0, MaxAborts = 0
  PROVE  TypeInv /\ NoFaults /\ [Next]_vars => NoFaults'
<1> SUFFICES ASSUME TypeInv, NoFaults, [Next]_vars PROVE NoFaults'
  OBVIOUS
<1> USE DEF rowVars, rowState, natsVars, loopVars, mailVars, faultVars, NoFaults
<1>1. ASSUME NEW w \in Workers,
             PublishFails(w) \/ MailFails(w) \/ Crash(w) \/ Disconnect(w)
      PROVE  FALSE
  BY <1>1 DEF PublishFails, MailFails, RowFails, Crash, Disconnect, RolledBack
<1>2. ASSUME NEW w \in Workers, Commit(w) PROVE NoFaults'
  BY <1>2 DEF Commit, EndBatch, TypeInv, TypeOK
<1>3. ASSUME NEW w \in Workers,
             Fetch(w) \/ Publish(w) \/ SkipThrottled(w) \/ SendMail(w) \/ SaveMail(w)
      PROVE  UNCHANGED <<tries, failed, faultVars>>
  BY <1>3 DEF Fetch, Publish, SkipThrottled, SendMail, SaveMail
<1>6. ASSUME NEW w \in Workers, MarkProcessed(w) PROVE NoFaults'
  BY <1>6 DEF MarkProcessed, EndBatch, TypeInv, TypeOK
<1>4. BeginSend \/ CommitSend \/ UNCHANGED vars
        \/ (\E n \in EventIds : BackoffElapses(n) \/ WindowPasses(n))
        \/ (\E u \in Recipients : ThrottlePasses(u)) => UNCHANGED <<tries, failed, faultVars>>
  BY DEF BeginSend, CommitSend, vars, BackoffElapses, WindowPasses, ThrottlePasses
<1>5. CASE UNCHANGED <<tries, failed, faultVars>>
  BY <1>5
<1> QED
  BY <1>1, <1>2, <1>3, <1>4, <1>5, <1>6 DEF Next, Work

\* What the documentation says of the order is true of one worker as long as
\* no handler throws, no batch is rolled back, and no two sends overlap.
THEOREM OrderedWithoutOverlap ==
  ASSUME \A v, w \in Workers : v = w, MaxFailures = 0, MaxAborts = 0
  PROVE  Spec /\ []OneSendAtATime => []StreamInOrder
<1>1. Init => StartOrder /\ NoFaults
  BY DEF Init, NoRows, StartOrder, NoFaults
<1>2. TypeInv /\ StartOrder /\ OneSendAtATime /\ [Next]_vars => StartOrder'
  BY StartOrderStep
<1>3. TypeInv /\ NoFaults /\ [Next]_vars => NoFaults'
  BY NoFaultsStep
<1>4. TypeInv /\ RowsKnown /\ StartOrder /\ NoFaults /\ OrderExplained => StreamInOrder
  <2> SUFFICES ASSUME TypeInv, RowsKnown, StartOrder, NoFaults, OrderExplained,
                      NEW i \in DOMAIN stream, NEW j \in DOMAIN stream, i < j
               PROVE  stream[i] <= stream[j]
    BY DEF StreamInOrder
  <2>1. stream[i] \in DOMAIN events /\ stream[j] \in DOMAIN events
    BY DEF RowsKnown
  <2>2. stream[i] \in Nat /\ stream[j] \in Nat /\ stream[j] \in EventIds
    <3>1. stream[i] \in EventIds /\ stream[j] \in EventIds
      BY DEF TypeInv, TypeOK
    <3> QED
      BY <3>1 DEF EventIds
  <2>3. Untroubled(stream[j])
    BY <2>2 DEF NoFaults, Untroubled
  <2>4. ~Precedes(stream[j], stream[i])
    BY <2>3 DEF OrderExplained
  <2> QED
    BY <2>1, <2>2, <2>4 DEF Precedes, StartOrder
<1>5. OrderInv => RowsKnown /\ OrderExplained
  BY DEF OrderInv
<1> QED
  BY <1>1, <1>2, <1>3, <1>4, <1>5, TypesHold, OrderInvHolds, PTL DEF Spec

=============================================================================
