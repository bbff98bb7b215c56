------------------------------- MODULE Outbox -------------------------------
(***************************************************************************)
(* What becomes of the message.created events of ONE conversation: the     *)
(* rows that MessagesService.send has committed, the OutboxWorker of each  *)
(* backend process that fetches them in batches, the JetStream stream they *)
(* are published to, and the emails NotificationsService sends for them.   *)
(*                                                                         *)
(* The producer is the contract Messaging is proved to keep: one event per *)
(* message, committed in sequence order.  Event n is the event of the      *)
(* message of sequence n.  A batch is one database transaction: what it    *)
(* writes to the outbox rows is seen at its commit, while the stream, the  *)
(* emails and the email_notifications rows are outside of it.  A worker    *)
(* whose transaction is rolled back under it learns so from its next query *)
(* and goes on with the row it is at until then.                           *)
(***************************************************************************)
EXTENDS Naturals, Sequences, FiniteSets

CONSTANTS
  Workers,      \* the backend processes that run an OutboxWorker
  Recipients,   \* payload.recipients: the participants but the sender
  BatchSize,    \* the LIMIT of a batch, 20 in the code
  NatsOutcomes, \* what NatsService.onModuleInit may end in: TRUE if connected
  MaxEvents,    \* bound: events of the conversation
  MaxFailures,  \* bound: events whose handler throws
  MaxAborts     \* bound: batches rolled back

ASSUME OutboxAssumption ==
  /\ BatchSize \in Nat \ {0}
  /\ NatsOutcomes \subseteq BOOLEAN
  /\ MaxEvents \in Nat
  /\ MaxFailures \in Nat
  /\ MaxAborts \in Nat
  /\ IsFiniteSet(Recipients) /\ IsFiniteSet(Workers)

EventIds == 1..MaxEvents

VARIABLES
  clock,      \* now() of the database, counted in started transactions
  open,       \* start times of the send transactions that are not over
  events,     \* events[n]: created_at of the outbox row of event n
  processed,  \* the events with processed_at set
  waiting,    \* the events whose next_attempt_at lies ahead
  tries,      \* tries[n]: the attempts column
  stream,     \* the JetStream stream: event ids in the order stored
  dedup,      \* Msg-Ids inside the duplicate window of the stream
  connected,  \* connected[w]: NatsService.js is defined in this process
  batch,      \* batch[w]: the rows locked by the transaction of worker w
  todo,       \* todo[w]: the rows it has fetched, still to be handled
  event,      \* event[w]: the row being handled, 0 between two rows
  to,         \* to[w]: its offline recipients still to be looked at
  mailed,     \* mailed[w]: the recipient just sent an email, not on record yet
  failed,     \* failed[w]: the rows of the batch whose handler threw
  sent,       \* sent[n][u]: emails user u got for event n
  noted,      \* dedup keys of email_notifications: <<event, user>>
  recent,     \* users with such a row less than EMAIL_THROTTLE_MINUTES old
  lost,       \* lost[n]: rolled back batches that held event n
  failures,   \* handlers that threw, so far
  aborts      \* batches rolled back, so far

rowVars  == <<clock, open, events>>
mailVars == <<sent, noted, recent>>
natsVars == <<stream, dedup, connected>>
rowState == <<processed, waiting, tries>>
loopVars == <<batch, todo, event, to, mailed, failed>>
faultVars == <<lost, failures, aborts>>
vars == <<rowVars, rowState, natsVars, loopVars, mailVars, faultVars>>

NoRows == [w \in Workers |-> {}]

\* The rows handled without an error in the batch of w, marked in its
\* transaction as processed.
Done(w) == batch[w] \ (todo[w] \cup failed[w] \cup {event[w]})

Init ==
  /\ clock = 0 /\ open = {} /\ events = <<>>
  /\ processed = {} /\ waiting = {}
  /\ tries = [n \in EventIds |-> 0]
  /\ stream = <<>> /\ dedup = {}
  /\ connected \in [Workers -> NatsOutcomes]
  /\ batch = NoRows /\ todo = NoRows /\ failed = NoRows
  /\ event = [w \in Workers |-> 0] /\ to = NoRows /\ mailed = NoRows
  /\ sent = [n \in EventIds |-> [u \in Recipients |-> 0]]
  /\ noted = {} /\ recent = {}
  /\ lost = [n \in EventIds |-> 0]
  /\ failures = 0 /\ aborts = 0

-----------------------------------------------------------------------------
(* The producer: created_at DEFAULT now() is the start of the transaction *)

\* A send transaction starts, and goes to wait for the conversation row lock.
BeginSend ==
  /\ clock < MaxEvents
  /\ clock' = clock + 1
  /\ open' = open \cup {clock'}
  /\ UNCHANGED <<events, rowState, natsVars, loopVars, mailVars, faultVars>>

\* One of the open transactions gets the lock and commits its event.
CommitSend ==
  \E t \in open :
    /\ open' = open \ {t}
    /\ events' = Append(events, t)
    /\ UNCHANGED <<clock, rowState, natsVars, loopVars, mailVars, faultVars>>

-----------------------------------------------------------------------------
(* OutboxWorker.processBatch *)

\* Mutants: the fetch does not wait for next_attempt_at; or it looks only for
\* rows with attempts = 0.
DueInBackoff == DOMAIN events \ processed

DueUntilFailed == {n \in (DOMAIN events \ processed) \ waiting : tries[n] = 0}

\* WHERE processed_at IS NULL AND next_attempt_at <= now()
Due == (DOMAIN events \ processed) \ waiting

\* Mutant: the SELECT has lost its FOR UPDATE SKIP LOCKED.
FetchableUnlocked == Due

\* FOR UPDATE SKIP LOCKED: the due rows that no other batch holds.
Fetchable == {n \in Due : \A v \in Workers : n \notin batch[v]}

\* ORDER BY created_at LIMIT BatchSize: the oldest rows, as many as there are.
OldestOf(S) ==
  {n \in S : Cardinality({m \in S : events[m] < events[n]}) < BatchSize}

\* The rows a worker may still act on, whether it holds their locks or not.
InHands(w) == todo[w] \cup ({event[w]} \ {0})

\* SELECT ... ORDER BY created_at LIMIT 20 FOR UPDATE SKIP LOCKED.
Fetch(w) ==
  /\ batch[w] \cup InHands(w) = {}
  /\ Fetchable # {}
  /\ batch' = [batch EXCEPT ![w] = OldestOf(Fetchable)]
  /\ todo' = [todo EXCEPT ![w] = OldestOf(Fetchable)]
  /\ UNCHANGED <<rowVars, rowState, natsVars, event, to, mailed, failed, mailVars,
                 faultVars>>

\* Mutant: the SELECT has lost its ORDER BY, and the loop takes any row.
AnyRow(w, n) == event[w] = 0 /\ n \in todo[w]

\* The loop over the rows of the batch takes the oldest one left.
NextRow(w, n) ==
  /\ event[w] = 0
  /\ n \in todo[w]
  /\ \A m \in todo[w] : events[n] <= events[m]

\* NatsService.publish under Msg-Id = outbox.id: stored once in the window.
Stored(n) ==
  /\ stream' = IF n \in dedup THEN stream ELSE Append(stream, n)
  /\ dedup' = dedup \cup {n}

\* isEnabled() is false in a process whose NATS initialisation failed, and then
\* nothing is published.
PublishIfEnabled(w, n) ==
  IF connected[w] THEN Stored(n) ELSE UNCHANGED <<stream, dedup>>

\* handle: publish, then presence.areOnline says which recipients are offline.
\* A suspended or anonymised recipient gets no email either.
Publish(w) ==
  \E n \in todo[w], offline \in SUBSET Recipients :
    /\ NextRow(w, n)
    /\ PublishIfEnabled(w, n)
    /\ todo' = [todo EXCEPT ![w] = @ \ {n}]
    /\ event' = [event EXCEPT ![w] = n]
    /\ to' = [to EXCEPT ![w] = offline]
    /\ UNCHANGED <<rowVars, rowState, connected, batch, mailed, failed, mailVars,
                   faultVars>>

\* The locks of the batch are gone, and the worker is done with it.
EndBatch(w) ==
  /\ batch' = [batch EXCEPT ![w] = {}]
  /\ todo' = [todo EXCEPT ![w] = {}]
  /\ event' = [event EXCEPT ![w] = 0]
  /\ to' = [to EXCEPT ![w] = {}]
  /\ mailed' = [mailed EXCEPT ![w] = {}]
  /\ failed' = [failed EXCEPT ![w] = {}]

\* The worker leaves the row n, whatever has become of it.
LeaveRow(w, n) ==
  /\ todo' = [todo EXCEPT ![w] = @ \ {n}]
  /\ event' = [event EXCEPT ![w] = 0]
  /\ to' = [to EXCEPT ![w] = {}]
  /\ mailed' = [mailed EXCEPT ![w] = {}]

\* Mutant: handle catches what is thrown, as it does for the indexing.
SwallowFailure(w, n) ==
  /\ failures < MaxFailures
  /\ failures' = failures + 1
  /\ LeaveRow(w, n)
  /\ UNCHANGED <<batch, failed>>

\* The catch of processBatch: the row stays unprocessed, for a later attempt,
\* and the loop goes on with the next one; but the query of the catch throws if
\* the connection is gone, and the batch is over.
RowFails(w, n) ==
  /\ failures < MaxFailures
  /\ failures' = failures + 1
  /\ \/ /\ batch[w] # {}
        /\ LeaveRow(w, n)
        /\ failed' = [failed EXCEPT ![w] = @ \cup {n}]
        /\ UNCHANGED batch
     \/ batch[w] = {} /\ EndBatch(w)

\* publish throws: refused, or stored and its acknowledgement late; or the
\* presence lookup throws after it.
PublishFails(w) ==
  \E n \in todo[w] :
    /\ NextRow(w, n)
    /\ PublishIfEnabled(w, n) \/ UNCHANGED <<stream, dedup>>
    /\ RowFails(w, n)
    /\ UNCHANGED <<rowVars, rowState, connected, mailVars, lost, aborts>>

\* The row is marked processed, inside the transaction; or, the connection being
\* gone, the UPDATE and that of the catch throw, and the batch is over.
MarkProcessed(w) ==
  /\ event[w] # 0
  /\ to[w] = {}
  /\ mailed[w] = {}
  /\ \/ /\ batch[w] # {}
        /\ event' = [event EXCEPT ![w] = 0]
        /\ UNCHANGED <<batch, todo, to, mailed, failed>>
     \/ batch[w] = {} /\ EndBatch(w)
  /\ UNCHANGED <<rowVars, rowState, natsVars, mailVars, faultVars>>

\* The transaction of the batch commits.
Commit(w) ==
  /\ batch[w] # {}
  /\ todo[w] = {}
  /\ event[w] = 0
  /\ processed' = processed \cup Done(w)
  /\ waiting' = waiting \cup failed[w]
  /\ tries' = [n \in EventIds |-> IF n \in failed[w] THEN tries[n] + 1 ELSE tries[n]]
  /\ EndBatch(w)
  /\ UNCHANGED <<rowVars, natsVars, mailVars, faultVars>>

\* PostgreSQL rolls back the transaction of w, and frees the locks of its rows.
RolledBack(w) ==
  /\ aborts < MaxAborts
  /\ aborts' = aborts + 1
  /\ lost' = [n \in EventIds |-> IF n \in batch[w] THEN lost[n] + 1 ELSE lost[n]]

\* The process dies, wherever its worker is, and is started again.
Crash(w) ==
  /\ RolledBack(w)
  /\ EndBatch(w)
  /\ \E c \in NatsOutcomes : connected' = [connected EXCEPT ![w] = c]
  /\ UNCHANGED <<rowVars, rowState, stream, dedup, mailVars, failures>>

\* The connection of the transaction is lost, or the database restarts.  The
\* worker makes no query of it between the UPDATE of a row and that of the next
\* one: it handles the row it is at, or comes to, as if nothing had happened.
Disconnect(w) ==
  /\ batch[w] # {}
  /\ RolledBack(w)
  /\ batch' = [batch EXCEPT ![w] = {}]
  /\ failed' = [failed EXCEPT ![w] = {}]
  /\ UNCHANGED <<rowVars, rowState, natsVars, todo, event, to, mailed, mailVars,
                 failures>>

-----------------------------------------------------------------------------
(* NotificationsService.notifyNewMessage, one recipient after the other *)

\* The worker is about to look at the recipient u.
NextRecipient(w, u) ==
  /\ mailed[w] = {}
  /\ u \in to[w]

\* An email younger than the throttle window is on record for the recipient:
\* continue with the next one.
SkipThrottled(w) ==
  \E u \in Recipients :
    /\ NextRecipient(w, u)
    /\ u \in recent
    /\ to' = [to EXCEPT ![w] = @ \ {u}]
    /\ UNCHANGED <<rowVars, rowState, natsVars, batch, todo, event, mailed, failed,
                   mailVars, faultVars>>

\* Mutant: email.send is not awaited, and its rejection is lost.
SendMailUnawaited(w) ==
  \E u \in Recipients :
    /\ NextRecipient(w, u)
    /\ u \notin recent
    /\ to' = [to EXCEPT ![w] = @ \ {u}]
    /\ mailed' = [mailed EXCEPT ![w] = {u}]
    /\ UNCHANGED <<rowVars, rowState, natsVars, batch, todo, event, failed,
                   mailVars, faultVars>>

\* None is, and email.send succeeds.  What it changes is read by no process, so
\* reading the throttle and sending are one step; its record is another.
SendMail(w) ==
  \E u \in Recipients :
    /\ NextRecipient(w, u)
    /\ u \notin recent
    /\ sent' = [sent EXCEPT ![event[w]][u] = @ + 1]
    /\ to' = [to EXCEPT ![w] = @ \ {u}]
    /\ mailed' = [mailed EXCEPT ![w] = {u}]
    /\ UNCHANGED <<rowVars, rowState, natsVars, batch, todo, event, failed,
                   noted, recent, faultVars>>

\* emails.save: a row on a connection of its own, committed at once, unless the
\* unique dedup_key refuses it (23505), which the code takes for a success.
SaveMail(w) ==
  \E u \in mailed[w] :
    /\ noted' = noted \cup {<<event[w], u>>}
    /\ recent' = IF <<event[w], u>> \in noted THEN recent ELSE recent \cup {u}
    /\ mailed' = [mailed EXCEPT ![w] = {}]
    /\ UNCHANGED <<rowVars, rowState, natsVars, batch, todo, event, to, failed,
                   sent, faultVars>>

\* A lookup or email.send throws, or the save does for another reason than
\* 23505, after the email has left.
MailFails(w) ==
  /\ event[w] # 0
  /\ to[w] \cup mailed[w] # {}
  /\ RowFails(w, event[w])
  /\ UNCHANGED <<rowVars, rowState, natsVars, mailVars, lost, aborts>>

-----------------------------------------------------------------------------
(* Time: no step of the code depends on how much of it passes *)

\* next_attempt_at of an event is reached: 2^attempts seconds, one hour at most.
BackoffElapses(n) ==
  /\ n \in waiting
  /\ waiting' = waiting \ {n}
  /\ UNCHANGED <<rowVars, processed, tries, natsVars, loopVars, mailVars, faultVars>>

\* Two minutes after it was stored, the stream forgets a Msg-Id.
WindowPasses(n) ==
  /\ n \in dedup
  /\ dedup' = dedup \ {n}
  /\ UNCHANGED <<rowVars, rowState, stream, connected, loopVars, mailVars, faultVars>>

\* The last email on record for a recipient leaves the throttle window.
ThrottlePasses(u) ==
  /\ u \in recent
  /\ recent' = recent \ {u}
  /\ UNCHANGED <<rowVars, rowState, natsVars, loopVars, sent, noted, faultVars>>

\* What the loop of a worker does next when nothing throws.
Work(w) ==
  Fetch(w) \/ Publish(w) \/ SkipThrottled(w) \/ SendMail(w) \/ SaveMail(w)
    \/ MarkProcessed(w) \/ Commit(w)

Next ==
  \/ BeginSend
  \/ CommitSend
  \/ \E w \in Workers : Work(w) \/ PublishFails(w) \/ MailFails(w)
                          \/ Crash(w) \/ Disconnect(w)
  \/ \E n \in EventIds : BackoffElapses(n) \/ WindowPasses(n)
  \/ \E u \in Recipients : ThrottlePasses(u)

Spec == Init /\ [][Next]_vars

\* Timers run: the loop of a worker always sets the next one, after an error
\* too, and a backoff ends.  Nothing is assumed of failures, of the windows, or
\* of the clients.
Fairness ==
  /\ \A w \in Workers : WF_vars(Work(w))
  /\ \A n \in EventIds : WF_vars(BackoffElapses(n))

FairSpec == Spec /\ Fairness

-----------------------------------------------------------------------------
(* Properties *)

\* Types of the variables.
TypeOK ==
  /\ clock \in Nat /\ open \subseteq 1..clock /\ events \in Seq(Nat)
  /\ Len(events) + Cardinality(open) = clock /\ clock <= MaxEvents
  /\ processed \subseteq EventIds /\ waiting \subseteq EventIds
  /\ tries \in [EventIds -> Nat]
  /\ stream \in Seq(EventIds) /\ dedup \subseteq EventIds
  /\ connected \in [Workers -> NatsOutcomes]
  /\ batch \in [Workers -> SUBSET EventIds] /\ todo \in [Workers -> SUBSET EventIds]
  /\ failed \in [Workers -> SUBSET EventIds] /\ event \in [Workers -> EventIds \cup {0}]
  /\ to \in [Workers -> SUBSET Recipients] /\ mailed \in [Workers -> SUBSET Recipients]
  /\ sent \in [EventIds -> [Recipients -> Nat]]
  /\ noted \subseteq EventIds \X Recipients /\ recent \subseteq Recipients
  /\ lost \in [EventIds -> Nat]
  /\ failures \in Nat /\ aborts \in Nat

\* The copies of an event the stream holds.
Copies(n) == Cardinality({i \in DOMAIN stream : stream[i] = n})

\* The handling of n has begun in some batch that is still open.
InHand(n) == \E w \in Workers : n \in batch[w] \ todo[w]

\* How often the events of batches may have been handled: once for the mark
\* processed_at, once for each attempt counted and each batch rolled back.
Handlings(n) ==
  tries[n] + lost[n] + (IF n \in processed \/ InHand(n) THEN 1 ELSE 0)

\* At-least-once: an event OutboxWorker.processBatch has marked processed is in
\* the stream, whatever threw, timed out or was rolled back on the way.
ProcessedWasPublished ==
  \A n \in processed : \E i \in DOMAIN stream : stream[i] = n

\* The outbox as a queue: its rows in commit order, the copies in the stream, the
\* emails received, the rows marked processed, those the workers may act on.
Queue == INSTANCE EventQueue WITH
  committed <- Len(events), copies <- [n \in EventIds |-> Copies(n)],
  mails <- sent, done <- processed, hands <- [w \in Workers |-> InHands(w)]

\* Batches, row locks, failures, backoffs, rollbacks and lost connections
\* implement the queue where NATS is connected: OutboxWorker takes up only rows
\* that are not processed, delivers and mails only what it has taken up, mails
\* after it has published, and marks only what is in the stream.
ImplementsQueue == Queue!QueueSpec

\* An event is published, and mailed to a user, again only if a handler threw
\* or a batch was rolled back: never because two workers held the same row.
ExtraDeliveriesExplained ==
  \A n \in EventIds :
    /\ Copies(n) <= Handlings(n)
    /\ \A u \in Recipients : sent[n][u] <= Handlings(n)

\* Nothing has come between the commit of m and its handling.
Untroubled(m) ==
  tries[m] + lost[m] = 0 /\ \A w \in Workers : m \notin failed[w]

\* The transaction of m started first, and committed first.
Precedes(m, n) == m < n /\ events[m] < events[n]

\* ORDER BY created_at: a worker that is alone publishes a message before an
\* earlier one only if their sends overlapped, the later of the two getting the
\* row lock first, or if the earlier one has failed or was in a batch rolled
\* back.  (Two workers, each with one of them, have no order between them.)
OrderExplained ==
  \A i, j \in DOMAIN stream :
    i < j /\ Untroubled(stream[j]) => ~Precedes(stream[j], stream[i])

\* An email on record was sent: neither the throttle nor the dedup key ever
\* suppresses the notification of a message because of one that never left.
RecordedMailWasSent ==
  \A m \in noted : sent[m[1]][m[2]] > 0

\* An event of a committed message is processed in the end, though handlers
\* throw, batches are rolled back and other events are stuck in their backoff.
EveryEventProcessed ==
  \A n \in EventIds : (n <= Len(events)) ~> (n \in processed)

-----------------------------------------------------------------------------
(* The inductive invariant behind the safety properties *)

\* FOR UPDATE SKIP LOCKED: batches are disjoint, and hold unprocessed rows only.
BatchesAreDisjoint ==
  /\ \A w \in Workers : batch[w] \subseteq (DOMAIN events \ processed) \ waiting
  /\ \A v, w \in Workers : v # w => batch[v] \cap batch[w] = {}

\* Where the loop is in its batch; and what is left in the hands of a worker
\* whose batch is gone are rows of that batch, counted as rolled back.
BatchesAreInOrder ==
  \A w \in Workers :
    /\ batch[w] \cup InHands(w) \subseteq DOMAIN events
    /\ batch[w] # {} => InHands(w) \subseteq batch[w]
    /\ batch[w] = {} => \A n \in InHands(w) : lost[n] > 0
    /\ failed[w] \subseteq batch[w] \ todo[w]
    /\ event[w] \notin todo[w] \cup failed[w]
    /\ event[w] = 0 => to[w] = {} /\ mailed[w] = {}

\* What a worker has handled without an error, and what it is mailing for, is in
\* the stream.
HandledWasPublished ==
  \A w \in Workers : connected[w] =>
    \A n \in (batch[w] \ (todo[w] \cup failed[w])) \cup ({event[w]} \ {0}) :
      \E i \in DOMAIN stream : stream[i] = n

\* The stream drops a publication only for a copy it holds.
WindowIsStored == \A n \in dedup : \E i \in DOMAIN stream : stream[i] = n

\* The workers that have lost their batch before they began with the row n.
MayPublish(n) == {w \in Workers : batch[w] = {} /\ event[w] = 0 /\ n \in todo[w]}

\* The workers that may yet send u an email for n in a handling counted already.
MayMail(n, u) == MayPublish(n) \cup {w \in Workers : event[w] = n /\ u \in to[w]}

\* What workers may do yet in a handling counted already has room in the count.
DeliveriesAreCounted ==
  \A n \in EventIds :
    /\ Copies(n) + Cardinality(MayPublish(n)) <= Handlings(n)
    /\ \A u \in Recipients : sent[n][u] + Cardinality(MayMail(n, u)) <= Handlings(n)

\* An email about to be recorded has been sent.
MailInHandWasSent ==
  \A w \in Workers : \A n \in EventIds, u \in Recipients :
    n = event[w] /\ u \in mailed[w] => sent[n][u] > 0

\* What every step keeps true, and what the safety properties follow from.
OutboxInv ==
  /\ TypeOK
  /\ BatchesAreDisjoint
  /\ BatchesAreInOrder
  /\ WindowIsStored
  /\ HandledWasPublished
  /\ ExtraDeliveriesExplained
  /\ DeliveriesAreCounted
  /\ RecordedMailWasSent
  /\ MailInHandWasSent

-----------------------------------------------------------------------------
(* What documents say, and the code does not do *)

\* docs/PHASE5.md, line 107: events are "Ordered par conv" and strictly so.  So
\* the stream holds the events of the conversation in the order of the
\* sequences of their messages.
StreamInOrder ==
  \A i, j \in DOMAIN stream : i < j => stream[i] <= stream[j]

=============================================================================
