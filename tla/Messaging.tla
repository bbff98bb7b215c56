------------------------------ MODULE Messaging ------------------------------
(***************************************************************************)
(* The messages of ONE conversation as the backend keeps them in           *)
(* PostgreSQL: MessagesService (send, list, markRead, softDelete), the     *)
(* access rule of ConversationsService, and the statements of              *)
(* PrivacyService, ModerationService and E2eeService that write the same   *)
(* rows.  Every HTTP request in flight is a process; a step is one         *)
(* committed transaction, one autocommitted statement, or the acquisition  *)
(* of the conversation's row lock.  What a transaction writes is visible   *)
(* to nobody before it commits (READ COMMITTED), so the statements that    *)
(* follow the lock in a send are one step, its commit.                     *)
(*                                                                         *)
(* The table of messages is modelled WITHOUT its unique indexes            *)
(* (conversation, sequence) and (conversation, sender, idempotency key):   *)
(* that no insert would ever be refused by them is what is checked.        *)
(***************************************************************************)
EXTENDS Naturals, Sequences, FiniteSets

CONSTANTS
  Users,        \* everybody who may reach the conversation
  Agents,       \* those of them whose role is support or admin
  Readers,      \* the clients whose paging through GET messages is followed
  Leavers,      \* the users who have their data erased
  Moderators,   \* the admins who resolve reports
  Requests,     \* slots for HTTP requests in flight
  Keys,         \* idempotency keys
  Bodies,       \* contents, as the scanner leaves them
  None,         \* SQL NULL
  PageSize,     \* the limit of GET messages
  MaxSequence,  \* bound: messages in the conversation
  MaxReads,     \* bound: message.read events
  MaxCrashes    \* bound: requests lost with their backend

ASSUME ConstantsAssumption ==
  /\ Agents \subseteq Users
  /\ Readers \subseteq Users
  /\ Leavers \subseteq Users
  /\ None \notin Users \cup Requests \cup Keys \cup Bodies
  /\ PageSize \in Nat \ {0}
  /\ MaxSequence \in Nat
  /\ MaxReads \in Nat
  /\ MaxCrashes \in Nat

VARIABLES
  lastSequence,  \* conversations.last_sequence
  e2ee,          \* conversations.e2ee_enabled
  participants,  \* the users with a row in conversation_participants
  lastRead,      \* conversation_participants.last_read_sequence
  messages,      \* the rows of messages, in the order they were committed
  unread,        \* message_receipts with read_at NULL: <<message, user>>
  read,          \* message_receipts with read_at set
  outbox,        \* the rows of message_events_outbox, in commit order
  anonymized,    \* users with anonymized_at set
  lock,          \* the request holding the row lock of the conversation
  req,           \* the requests in flight
  window,        \* what each reader has been shown
  crashes        \* requests lost so far

convVars   == <<lastSequence, e2ee>>
peopleVars == <<participants, lastRead, anonymized>>
tableVars  == <<messages, unread, read, outbox>>
vars == <<convVars, peopleVars, tableVars, lock, req, window, crashes>>

-----------------------------------------------------------------------------
(* Rows and requests *)

MessageRow ==
  [sender : Users, sequence : Nat, key : Keys \cup {None},
   body : Bodies \cup {None}, status : {"sent", "hidden", "deleted"},
   deletedAt : BOOLEAN, moderated : BOOLEAN]

\* user is the senderId of message.created, the userId of message.read.
Event ==
  [type : {"message.created", "message.read"}, user : Users, sequence : Nat,
   message : Nat, body : Bodies \cup {None}]

\* Where a request stands: in the access guard's wake ("arrived"), inside the
\* send transaction ("locked"), after its commit ("committed"), without an
\* answer ("lost"), between the two queries of a deletion ("found"), past
\* the flag check of an E2EE activation ("enabling").
Stages == {"idle", "arrived", "locked", "committed", "lost", "found", "enabling"}

Request ==
  [pc : Stages, user : Users \cup {None}, key : Keys \cup {None},
   body : Bodies \cup {None}, last : Nat, msg : Nat,
   row : MessageRow \cup {None}, shown : Bodies \cup {None, "masked"}]

IdleRequest ==
  [pc |-> "idle", user |-> None, key |-> None, body |-> None,
   last |-> 0, msg |-> 0, row |-> None, shown |-> None]

ClosedWindow == [lo |-> 0, hi |-> 0, seen |-> {}]

Init ==
  /\ lastSequence = 0 /\ e2ee = FALSE
  /\ participants = Users \ Agents        \* the customer and the seller
  /\ lastRead = [u \in Users |-> 0]
  /\ messages = <<>> /\ unread = {} /\ read = {} /\ outbox = <<>>
  /\ anonymized = {}
  /\ lock = None
  /\ req = [r \in Requests |-> IdleRequest]
  /\ window = [u \in Readers |-> ClosedWindow]
  /\ crashes = 0

-----------------------------------------------------------------------------
(* Access and the row lock *)

\* A participant passes; support and admin are added as participants, which
\* a send in progress delays: the foreign key wants a share of the locked row.
Access(u) ==
  \/ u \in participants /\ UNCHANGED participants
  \/ /\ u \in Agents \ participants
     /\ lock = None
     /\ participants' = participants \cup {u}

\* Mutant: the SELECT has lost its setLock('pessimistic_write').
NoRowLock(r) == TRUE

RowLockFree(r) == lock = None

\* Mutant: only the guard looks at the flag, before the send waits for the lock.
E2eeLeftToTheGuard(r) == FALSE

\* An activation that commits while the send waits is seen by the send: the
\* locking read returns the newest version of the row.
E2eeUnderLock(r) == e2ee

\* Mutant: the lookup skips the rows with deleted_at set, as list does.
ExistingUndeleted(u, k) ==
  {i \in DOMAIN messages : k # None /\ messages[i].sender = u /\ messages[i].key = k
                            /\ ~messages[i].deletedAt}

\* The row an earlier request of this sender inserted under this key.
Existing(u, k) ==
  {i \in DOMAIN messages : k # None /\ messages[i].sender = u /\ messages[i].key = k}

-----------------------------------------------------------------------------
(* POST messages *)

Pending == {r \in Requests : req[r].pc \in {"arrived", "locked", "lost"}}

\* Bound: a send arrives only while its row still fits under MaxSequence,
\* unless it will be answered with a row that is already there.
Admits(u, k) ==
  \/ lastSequence + Cardinality(Pending) < MaxSequence
  \/ Existing(u, k) # {}

\* JwtAuthGuard trusts the token alone: nothing here reads anonymized.
Arrive(r, u, k, b) ==
  /\ req[r].pc = "idle"
  /\ Admits(u, k)
  /\ Access(u)
  /\ req' = [req EXCEPT ![r] = [IdleRequest EXCEPT !.pc = "arrived", !.user = u,
                                                 !.key = k, !.body = b]]
  /\ UNCHANGED <<convVars, lastRead, anonymized, tableVars, lock, window, crashes>>

\* SELECT ... FOR UPDATE; the statements of this transaction go on from here.
LockConversation(r) ==
  /\ req[r].pc = "arrived"
  /\ RowLockFree(r)
  /\ ~E2eeUnderLock(r)
  /\ lock' = r
  /\ req' = [req EXCEPT ![r].pc = "locked", ![r].last = lastSequence]
  /\ UNCHANGED <<convVars, peopleVars, tableVars, window, crashes>>

\* 403, the transaction is rolled back.
RefuseE2ee(r) ==
  /\ req[r].pc = "arrived"
  /\ RowLockFree(r)
  /\ E2eeUnderLock(r)
  /\ req' = [req EXCEPT ![r] = IdleRequest]
  /\ UNCHANGED <<convVars, peopleVars, tableVars, lock, window, crashes>>

\* toDecrypted(existing, scan.cleaned): the row decides only whether there is
\* a text to show, the text itself is the one of the request being answered.
ReplayText(r, row) ==
  CASE row.status = "deleted" -> None
    [] row.status = "hidden"  -> "masked"
    [] OTHER                  -> req[r].body

\* The key is known: nothing is written, the transaction commits.
ReplayExisting(r) ==
  /\ req[r].pc = "locked"
  /\ \E i \in Existing(req[r].user, req[r].key) :
       req' = [req EXCEPT ![r].pc = "committed", ![r].msg = i,
                          ![r].shown = ReplayText(r, messages[i])]
  /\ lock' = None
  /\ UNCHANGED <<convVars, peopleVars, tableVars, window, crashes>>

NextSequence(r) == req[r].last + 1

\* Mutant: the payload takes the conversation's last_sequence, not nextSeq.
CreatedEventBehind(r, i) ==
  [type |-> "message.created", user |-> req[r].user, sequence |-> req[r].last,
   message |-> i, body |-> req[r].body]

CreatedEvent(r, i) ==
  [type |-> "message.created", user |-> req[r].user, sequence |-> NextSequence(r),
   message |-> i, body |-> req[r].body]

\* Message, receipts of the other participants, outbox event, and
\* bumpLastMessage, in one commit that releases the row lock.
InsertMessage(r) ==
  LET u == req[r].user
      i == Len(messages) + 1
  IN
  /\ req[r].pc = "locked"
  /\ u \in participants
  /\ Existing(u, req[r].key) = {}
  /\ messages' = Append(messages,
       [sender |-> u, sequence |-> NextSequence(r), key |-> req[r].key,
        body |-> req[r].body, status |-> "sent", deletedAt |-> FALSE,
        moderated |-> FALSE])
  /\ unread' = unread \cup {<<i, p>> : p \in participants \ {u}}
  /\ outbox' = Append(outbox, CreatedEvent(r, i))
  /\ lastSequence' = NextSequence(r)
  /\ lock' = None
  /\ req' = [req EXCEPT ![r].pc = "committed", ![r].msg = i, ![r].shown = req[r].body]
  /\ UNCHANGED <<e2ee, peopleVars, read, window, crashes>>

\* The broadcast to the room and the answer carry req[r].msg and req[r].shown.
Publish(r) ==
  /\ req[r].pc = "committed"
  /\ req' = [req EXCEPT ![r] = IdleRequest]
  /\ UNCHANGED <<convVars, peopleVars, tableVars, lock, window, crashes>>

\* Mutant: a lock of the session (advisory, or on a pooled connection that is
\* kept), which a dead transaction does not give back.
LockSurvivesCrash(r) == lock

LockAfterCrash(r) == IF lock = r THEN None ELSE lock

\* The backend or the connection dies: an open transaction is rolled back and
\* its lock released, a committed one stays, and the client hears nothing.
Crash(r) ==
  /\ req[r].pc \in {"arrived", "locked", "committed"}
  /\ crashes < MaxCrashes
  /\ crashes' = crashes + 1
  /\ lock' = LockAfterCrash(r)
  /\ req' = [req EXCEPT ![r].pc = "lost", ![r].last = 0, ![r].msg = 0, ![r].shown = None]
  /\ UNCHANGED <<convVars, peopleVars, tableVars, window>>

\* The client sends the same request again; without a key that may store the
\* message twice, so MaxSequence can be exceeded, by at most MaxCrashes.
Resend(r) ==
  /\ req[r].pc = "lost"
  /\ req' = [req EXCEPT ![r].pc = "arrived"]
  /\ UNCHANGED <<convVars, peopleVars, tableVars, lock, window, crashes>>

-----------------------------------------------------------------------------
(* DELETE messages/:id, moderation, anonymisation *)

\* softDelete reads the row with no lock; only its sender gets past the check.
FindToDelete(r, i) ==
  /\ req[r].pc = "idle"
  /\ req' = [req EXCEPT ![r] = [IdleRequest EXCEPT !.pc = "found", !.msg = i,
                                                 !.row = messages[i]]]
  /\ UNCHANGED <<convVars, peopleVars, tableVars, lock, window, crashes>>

\* Mutants: softDelete sets status and deletedAt and forgets the body; it empties
\* the body instead of setting it to NULL.
DeletedRowWithBody(entity) == [entity EXCEPT !.status = "deleted", !.deletedAt = TRUE]

DeletedRowEmptied(entity) ==
  [entity EXCEPT !.status = "deleted", !.deletedAt = TRUE, !.body = ""]

\* repository.save writes the columns in which the entity differs from the row
\* as it is reloaded then, so the entity, read earlier, wins over what was
\* written since its reading.
DeletedRow(entity) ==
  [entity EXCEPT !.status = "deleted", !.deletedAt = TRUE, !.body = None]

\* A moderation that falls between the reload and the UPDATE is in neither
\* side of the difference and keeps its mark; an earlier one loses it.
SaveDeleted(r) ==
  LET i == req[r].msg
      entity == req[r].row
  IN
  /\ req[r].pc = "found"
  /\ \E mark \in {entity.moderated, messages[i].moderated} :
       messages' = [messages EXCEPT ![i] = [DeletedRow(entity) EXCEPT !.moderated = mark]]
  /\ req' = [req EXCEPT ![r] = IdleRequest]
  /\ UNCHANGED <<convVars, peopleVars, unread, read, outbox, lock, window, crashes>>

\* ModerationService.resolve, action hide_message: one UPDATE by id that looks
\* at nothing else in the row.
HiddenRow(row) == [row EXCEPT !.status = "hidden", !.moderated = TRUE]

HideMessage(moderator, i) ==
  /\ messages' = [messages EXCEPT ![i] = HiddenRow(@)]
  /\ UNCHANGED <<convVars, peopleVars, unread, read, outbox, lock, req, window, crashes>>

\* Mutant: the anonymisation wipes the idempotency key with the content.
WipedRowAndKey(row) ==
  [row EXCEPT !.status = "deleted", !.deletedAt = TRUE, !.body = None, !.key = None]

\* One UPDATE over the rows of a sender.  An insert by that sender waits for
\* the row of users this transaction has changed, so it comes before or after.
WipedRow(row) == [row EXCEPT !.status = "deleted", !.deletedAt = TRUE, !.body = None]

Anonymize(u) ==
  /\ u \notin anonymized
  /\ anonymized' = anonymized \cup {u}
  /\ messages' = [i \in DOMAIN messages |->
                    IF messages[i].sender = u THEN WipedRow(messages[i]) ELSE messages[i]]
  /\ UNCHANGED <<convVars, participants, lastRead, unread, read, outbox, lock, req,
                 window, crashes>>

-----------------------------------------------------------------------------
(* POST messages/read *)

\* Mutant: the acknowledged message itself is left out.
CoveredStrictlyBy(u, upto) ==
  {m \in unread : m[2] = u /\ messages[m[1]].sequence < upto}

CoveredBy(u, upto) ==
  {m \in unread : m[2] = u /\ messages[m[1]].sequence <= upto}

\* last_read_sequence takes the client's value, larger or smaller than before.
\* A client acknowledges a sequence that was delivered to it.
MarkRead(u, upto) ==
  /\ Cardinality({n \in DOMAIN outbox : outbox[n].type = "message.read"}) < MaxReads
  /\ Access(u)
  /\ lastRead' = [lastRead EXCEPT ![u] = upto]
  /\ unread' = unread \ CoveredBy(u, upto)
  /\ read' = read \cup CoveredBy(u, upto)
  /\ outbox' = Append(outbox, [type |-> "message.read", user |-> u, sequence |-> upto,
                               message |-> 0, body |-> None])
  /\ UNCHANGED <<convVars, anonymized, messages, lock, req, window, crashes>>

-----------------------------------------------------------------------------
(* POST e2ee/enable *)

\* The flag is read before the transaction that sets it.
CheckE2ee(r, u) ==
  /\ req[r].pc = "idle"
  /\ ~e2ee
  /\ Access(u)
  /\ req' = [req EXCEPT ![r] = [IdleRequest EXCEPT !.pc = "enabling", !.user = u]]
  /\ UNCHANGED <<convVars, lastRead, anonymized, tableVars, lock, window, crashes>>

\* mls_groups is unique per conversation: of two activations that passed the
\* check, the second is refused.  The first waits for the row lock.
EnableE2ee(r) ==
  /\ req[r].pc = "enabling"
  /\ RowLockFree(r)
  /\ e2ee' = TRUE
  /\ req' = [req EXCEPT ![r] = IdleRequest]
  /\ UNCHANGED <<lastSequence, peopleVars, tableVars, lock, window, crashes>>

-----------------------------------------------------------------------------
(* GET messages: a client opens on the newest page, scrolls up, polls down *)

Listed == {i \in DOMAIN messages : ~messages[i].deletedAt}

\* ORDER BY sequence ASC LIMIT PageSize, then DESC.
Oldest(rows) ==
  {i \in rows : Cardinality({j \in rows : messages[j].sequence < messages[i].sequence})
                  < PageSize}

Newest(rows) ==
  {i \in rows : Cardinality({j \in rows : messages[j].sequence > messages[i].sequence})
                  < PageSize}

\* Mutant: the branch for afterSequence orders DESC like the two others.
NewestPageAfter(after) == Newest({i \in Listed : messages[i].sequence > after})

PageAfter(after) == Oldest({i \in Listed : messages[i].sequence > after})
PageBefore(before) == Newest({i \in Listed : messages[i].sequence < before})

IsFirst(i, rows) == i \in rows /\ \A j \in rows : messages[i].sequence <= messages[j].sequence
IsLast(i, rows)  == i \in rows /\ \A j \in rows : messages[i].sequence >= messages[j].sequence

\* No cursor: the newest page.
OpenList(u) ==
  LET page == Newest(Listed)
  IN
  /\ window[u] = ClosedWindow
  /\ Access(u)
  /\ \E i, j \in page :
       /\ IsFirst(i, page) /\ IsLast(j, page)
       /\ window' = [window EXCEPT ![u] = [lo |-> messages[i].sequence,
                                          hi |-> messages[j].sequence, seen |-> page]]
  /\ UNCHANGED <<convVars, lastRead, anonymized, tableVars, lock, req, crashes>>

\* afterSequence: the last sequence shown.
PollAfter(u) ==
  LET page == PageAfter(window[u].hi)
  IN
  /\ window[u] # ClosedWindow
  /\ \E j \in page :
       /\ IsLast(j, page)
       /\ window' = [window EXCEPT ![u].hi = messages[j].sequence, ![u].seen = @ \cup page]
  /\ UNCHANGED <<convVars, peopleVars, tableVars, lock, req, crashes>>

\* beforeSequence: the first sequence shown.
ScrollBefore(u) ==
  LET page == PageBefore(window[u].lo)
  IN
  /\ window[u] # ClosedWindow
  /\ \E i \in page :
       /\ IsFirst(i, page)
       /\ window' = [window EXCEPT ![u].lo = messages[i].sequence, ![u].seen = @ \cup page]
  /\ UNCHANGED <<convVars, peopleVars, tableVars, lock, req, crashes>>

-----------------------------------------------------------------------------

\* The steps a handler already under way takes.
Proceed(r) ==
  \/ LockConversation(r) \/ RefuseE2ee(r) \/ ReplayExisting(r) \/ InsertMessage(r)
  \/ Publish(r) \/ Resend(r) \/ SaveDeleted(r) \/ EnableE2ee(r)

Next ==
  \/ \E r \in Requests :
       \/ Proceed(r)
       \/ Crash(r)
       \/ \E u \in Users, k \in Keys \cup {None}, b \in Bodies : Arrive(r, u, k, b)
       \/ \E i \in DOMAIN messages : FindToDelete(r, i)
       \/ \E u \in Users : CheckE2ee(r, u)
  \/ \E m \in Moderators, i \in DOMAIN messages : HideMessage(m, i)
  \/ \E u \in Leavers : Anonymize(u)
  \/ \E u \in Users, upto \in 1..lastSequence : MarkRead(u, upto)
  \/ \E u \in Readers : OpenList(u) \/ PollAfter(u) \/ ScrollBefore(u)

Spec == Init /\ [][Next]_vars

\* The backend goes on with what it has begun; the client resends until it has
\* an answer.  PostgreSQL queues the transactions that wait for a row, so a
\* request that finds the lock free again and again is served: strong
\* fairness for the steps that need the lock, weak for the others.
Fairness ==
  \A r \in Requests : WF_vars(Proceed(r)) /\ SF_vars(LockConversation(r) \/ RefuseE2ee(r))
                      /\ SF_vars(EnableE2ee(r))

FairSpec == Spec /\ Fairness

-----------------------------------------------------------------------------
(* Properties *)

TypeOK ==
  /\ lastSequence \in Nat
  /\ e2ee \in BOOLEAN
  /\ participants \subseteq Users
  /\ lastRead \in [Users -> Nat]
  /\ messages \in Seq(MessageRow)
  /\ unread \subseteq (DOMAIN messages) \X Users
  /\ read \subseteq (DOMAIN messages) \X Users
  /\ outbox \in Seq(Event)
  /\ anonymized \subseteq Users
  /\ lock \in Requests \cup {None}
  /\ req \in [Requests -> Request]
  /\ window \in [Readers -> [lo : Nat, hi : Nat, seen : SUBSET Nat]]
  /\ crashes \in Nat

\* Whatever the interleaving of sends, crashes and resends, the sequences of the
\* committed rows are 1 .. last_sequence, each once: SELECT ... FOR UPDATE and
\* bumpLastMessage in MessagesService.send leave neither hole nor duplicate,
\* and the unique index on (conversation, sequence) never refuses an insert.
SequencesGapFree ==
  /\ {messages[i].sequence : i \in DOMAIN messages} = 1..lastSequence
  /\ \A i, j \in DOMAIN messages :
       messages[i].sequence = messages[j].sequence => i = j

\* However often a request is resent or raced by its copy, and whatever became
\* of the row meanwhile (deleted, hidden, wiped), a sender's key stores one
\* message: the lookup under the lock in MessagesService.send.
OneMessagePerKey ==
  \A i, j \in DOMAIN messages :
    /\ messages[i].key # None
    /\ messages[i].key = messages[j].key
    /\ messages[i].sender = messages[j].sender
    => i = j

CreatedAt(n, i) == outbox[n].type = "message.created" /\ outbox[n].message = i

\* The transactional outbox of MessagesService.send: every row of messages is
\* announced by one message.created event that carries its sender and its
\* sequence, nothing else is announced, and events are in sequence order.
OutboxAgreesWithMessages ==
  /\ \A i \in DOMAIN messages : \E n \in DOMAIN outbox : CreatedAt(n, i)
  /\ \A n \in DOMAIN outbox : outbox[n].type = "message.created" =>
       /\ outbox[n].message \in DOMAIN messages
       /\ outbox[n].sequence = messages[outbox[n].message].sequence
       /\ outbox[n].user = messages[outbox[n].message].sender
       /\ \A m \in 1..(n - 1) : outbox[m].type = "message.created" =>
             outbox[m].sequence < outbox[n].sequence

\* A client that opens a conversation, scrolls up and polls for news by the
\* cursors of MessagesService.list is never left with a hole: every message not
\* deleted between the first and the last sequence it was shown was shown to it.
\* It needs commits to come in sequence order, not only sequences to be unique.
ReaderSeesNoHole ==
  \A u \in Readers : window[u] # ClosedWindow =>
    \A i \in Listed :
      messages[i].sequence \in window[u].lo..window[u].hi => i \in window[u].seen

\* The two records MessagesService.markRead keeps of one fact agree, for clients
\* that acknowledge what they were shown: no message at or below a
\* participant's last_read_sequence has a receipt of theirs without read_at.
ReadCursorAgreesWithReceipts ==
  \A m \in unread : messages[m[1]].sequence > lastRead[m[2]]

\* Once E2eeService.enableE2ee has committed, no message in clear is stored in
\* the conversation, not even by a send that had passed the guard before.
NoClearTextAfterE2ee ==
  [][e2ee => e2ee' /\ Len(messages') = Len(messages)]_vars

\* A deleted message stays out of the lists and its content never comes back,
\* although softDelete writes back a row it has read earlier and hide_message
\* and the anonymisation write the same row without looking at it.
DeletionIsFinal ==
  [][\A i \in DOMAIN messages : messages[i].deletedAt =>
       i \in DOMAIN messages' /\ messages'[i].deletedAt /\ messages'[i].body = None]_vars

\* The rows in sequence order, as entries of the abstract log.
LogOfRows ==
  [n \in 1..lastSequence |->
     LET row == messages[CHOOSE i \in DOMAIN messages : messages[i].sequence = n]
     IN [author |-> row.sender, key |-> row.key, body |-> row.body]]

Log == INSTANCE MessageLog WITH NoKey <- None, NoBody <- None,
                                log <- LogOfRows, closed <- e2ee

\* Requests, locks, crashes and resends implement the append-only log: every
\* step of MessagesService, PrivacyService, ModerationService and E2eeService
\* posts one entry, erases bodies, closes the log, or changes nothing in it.
ImplementsLog == Log!LogSpec

\* A request that has entered its handler is answered in the end, resent if
\* need be: no send is stuck on a row lock that a dead request left behind.
EveryRequestAnswered ==
  \A r \in Requests : req[r].pc # "idle" ~> req[r].pc = "idle"

-----------------------------------------------------------------------------
(* The inductive invariant behind the safety properties *)

\* The request that holds the row lock is the one inside the send transaction,
\* what it read under the lock still is what the row says, and no activation
\* of E2EE has slipped in.
LockGuardsTheConversation ==
  /\ \A r \in Requests : lock = r <=> req[r].pc = "locked"
  /\ \A r \in Requests : req[r].pc = "locked" => req[r].last = lastSequence /\ ~e2ee

\* A send knows its sender and its content until it is answered.
SendsAreComplete ==
  \A r \in Requests : req[r].pc \in {"arrived", "locked", "committed", "lost"} =>
    req[r].user \in Users /\ req[r].body \in Bodies

\* The entity softDelete holds may be stale, but not in what identifies it.
DeletionsKnowTheirRow ==
  \A r \in Requests : req[r].pc = "found" =>
    /\ req[r].msg \in DOMAIN messages
    /\ req[r].row \in MessageRow
    /\ req[r].row.sender = messages[req[r].msg].sender
    /\ req[r].row.sequence = messages[req[r].msg].sequence
    /\ req[r].row.key = messages[req[r].msg].key

\* Rows are committed in sequence order, without a hole.
CommittedInSequence ==
  /\ Len(messages) = lastSequence
  /\ \A i \in DOMAIN messages : messages[i].sequence = i

\* What every step of the backend keeps true, and what the safety properties
\* follow from: a send alone with the row, and rows committed in order.
IInv ==
  /\ TypeOK
  /\ LockGuardsTheConversation
  /\ SendsAreComplete
  /\ DeletionsKnowTheirRow
  /\ CommittedInSequence

-----------------------------------------------------------------------------
(* What documents and tests say, and the code does not do *)

\* backend/test/e2e/messaging-full.e2e-spec.ts, lines 61 and 66: the same
\* Idempotency-Key gives back the SAME message, the other content is to be
\* ignored.  So the answer and the broadcast of MessagesService.send carry the
\* text of the stored row, unless that text is hidden or gone.
AnswerIsTheStoredMessage ==
  \A r \in Requests : req[r].pc = "committed" =>
    LET stored == messages[req[r].msg].body
    IN stored # None => req[r].shown \in {stored, None, "masked"}

\* PrivacyService.anonymizeUser, lines 94-97, and docs/PHASE2.md, lines 93 and
\* 96: the messages of an anonymised user are made unreadable, their body NULL.
AnonymizedIsUnreadable ==
  \A i \in DOMAIN messages : messages[i].sender \in anonymized => messages[i].body = None

=============================================================================
