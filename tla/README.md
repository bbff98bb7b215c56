# A TLA+ model of the messaging backend

This directory models the core of the repository: the one-conversation-per-order messaging
backend under `backend/src` (NestJS, PostgreSQL, Redis, NATS JetStream, S3, OpenSearch), the
WebSocket gateway under `ws-gateway/src`, and the part of the demo client under `frontend-demo`
that puts messages on a screen. The modules are checked with TLC on small instances; the
theorems of the eight modules named `...Proofs` are checked with TLAPS for every value of the
constants.

## 1. Inventory

| Component (under `backend/src/modules` unless said otherwise) | State it keeps | Operations | What is hard | What makes it correct |
|---|---|---|---|---|
| messages | `messages`, `message_receipts`, rows of `message_events_outbox`, `conversations.last_sequence` | `send`, `list`, `markRead`, `softDelete` | concurrent sends, resent requests, a backend that dies with a row lock, rows read without a lock and saved later, paging while others write | sequences without hole or duplicate; one message per idempotency key; outbox and rows agree; deletion is final; no hole for a paging client |
| conversations | `conversations`, `conversation_participants` | `getOrCreateForOrder`, `assertCanAccess`, `assertCanWrite`, `bumpLastMessage`, `listForUser` | two creations for one order; support joining on access | one conversation per order, with both participants; whoever is answered gets it |
| privacy | `users.anonymized_at`, the bodies of a user's messages | `anonymizeUser`, `exportUserData` | requests of the same user under way; the sessions revoked on another connection | nothing readable is left; no session is left |
| moderation | `message_reports`, `messages.status` | `report`, `listOpen`, `resolve`, `scan` | a report resolved twice at once, one way and the other, or about a deleted message; report and message written one after the other, in no transaction | an actioned report has its message out of sight, a deleted message stays deleted |
| e2ee | key packages, MLS groups and messages, `conversations.e2ee_enabled` | `publishKeyPackages`, `claimKeyPackage`, `enableE2ee`, `sendMlsMessage`, `listMlsMessages` | two claims of one package; activation racing a send in clear; epochs | a package is handed out once; no clear text after the switch; one order per group |
| outbox | `processed_at`, `attempts`, `next_attempt_at` | `processBatch`, `handle` | several workers (`SKIP LOCKED`), one transaction per batch, crash between effect and commit, a connection lost under a handler that goes on, backoff | every event is delivered, few twice, in an order per conversation |
| nats, `ws-gateway/src` | the stream, its deduplication window, the durable consumer | `publish`, `ensureStream`, the consume loop | not connected, redelivery, at most ten deliveries | what was committed reaches the sockets |
| notifications | `email_notifications` (dedup key, `sent_at`) | `notifyNewMessage` | email sent before its row is saved; throttle read before the send | at most one email per message and user, and per ten minutes |
| auth, users | `users`, `refresh_tokens` | `register`, `login`, `refresh` (`rotate`, `issue`), `logout` (`revoke`, `revokeAllForUser`) | two rotations of one token; a revocation racing a rotation; a rotation cut off between its two writes; an erasure racing both | a token that has a child is dead; after a revocation only what was under way lives on; no session after the erasure |
| search | `conversations.search_indexed`, the OpenSearch index | `enableIndexing`, `disableIndexing`, `indexMessageIfEnabled`, `search` | backfill racing the worker; opt-out racing the worker; an index that shows what it had at its last refresh; an index created with a guessed mapping | what an indexed conversation lacks is accounted for; a new message is found in the end |
| presence, realtime | Redis sets of sockets per user, heartbeat timers, Socket.IO rooms | `connect`, `heartbeat`, `disconnect`, `isOnline`, `areOnline`, `join`, the broadcasts | `SCARD` and `DEL` in two steps; a disconnect during the handshake; a process that dies with its sockets; a heartbeat that fails unnoticed; two programs that could both broadcast | a connected user is online, one whose sockets are gone goes offline; no event is emitted twice |
| attachments | `attachments`, S3 objects | `presignUpload`, `finalize`, `getDownloadUrl` | object and row deleted one after the other; uploads at any time while the URL is valid | an accepted file has its object, a refused one leaves neither |
| demo client | the current conversation, the screen, the socket | `openConversation`, `connectSocket` | answers that overtake each other, live messages before the list, a lost connection | one conversation on the screen, and what it lacks is accounted for |
| crypto | a cache of data keys | `encrypt`, `decrypt`, `unwrap` | cache limit and expiry | `decrypt` undoes `encrypt` |
| audit, database | `audit_log`, a pool of ten connections | `log` | a second connection taken inside a transaction; every failure of the save swallowed | no send starves, every gap in the log has a cause |
| rate limiting | a Redis counter per user and minute | `check` | first increment and `EXPIRE` in two steps | at most the limit per minute |

How they interact: the controllers call the services directly; services share state through
PostgreSQL (READ COMMITTED, row locks) and Redis; `send` and `markRead` leave events in the
outbox in their own transaction; the worker carries them to NATS, to the mailer and to the
search index; the gateway consumes the stream and emits to Socket.IO rooms. `privacy`,
`moderation` and `e2ee` write the rows that `messages` owns, which is why their statements
are actions of `Messaging`; what they keep for themselves is in modules of their own.

The hazards this gives rise to are listed, line by line, in `PROJECT.json`.

## 2. Plan

| Module | Abstract specification or promise | Runs | Proofs |
|---|---|---|---|
| `Messaging`, `MessageLog` | an append-only log, implemented | `messaging_*`, two disagreements | `MessagingProofs` |
| `Outbox`, `EventQueue` | an at-least-once queue, implemented; every repetition and every inversion explained | `outbox_*`, two disagreements | `OutboxProofs` |
| `Conversations` (creation, pool, audit log) | one conversation, no call that waits for ever | `components_progress`, `creation_race` | `ProgressProofs` |
| `Sessions` | revoked tokens are dead, survivors explained, nothing after an erasure | `components_safety` | `SessionsProofs` |
| `KeyPackages`, `MlsGroups` | one package per claim, one numbering per group | `components_safety` | `KeyPackagesProofs`, `MlsGroupsProofs` |
| `Delivery` (backend, stream, gateways) | at least once to the room, twice only after a fault | `components_progress` | `ProgressProofs` |
| `Search` | opt-in, backfill, worker, opt-out | `components_safety` (safety), `components_progress` (liveness) | `TwoCopiesProofs` |
| `Presence` | online and offline | `components_progress` | `TwoCopiesProofs` |
| `Attachments`, `Moderation` | two writes in no transaction | `components_safety` | `TwoCopiesProofs` |
| `ClientView` | one conversation on the screen | `components_safety` | `TwoCopiesProofs` |
| `MCSafety`, `MCProgress` | the sums of the components that TLC explores | `components_safety`, `components_progress` | `SafetyProofs`, `ProgressProofs` |

All of these are there. What could come next: a run of `Outbox` and `Delivery` together, which
meet in one variable (the stream) and are kept apart because their product is out of TLC's
reach.

## 3. `Messaging`: one conversation

Every statement of the services modelled here selects by `conversation_id` or by a row of one
conversation, so conversations do not interfere and one is enough.

State and code:

| Variable | In the program |
|---|---|
| `lastSequence`, `e2ee` | `conversations.last_sequence`, `e2ee_enabled` |
| `participants`, `lastRead` | `conversation_participants` and its `last_read_sequence` |
| `messages` | the rows of `messages`, in commit order |
| `unread`, `read` | `message_receipts` without and with `read_at` |
| `outbox` | `message_events_outbox`, in commit order |
| `anonymized` | `users.anonymized_at` |
| `lock` | the request that holds `SELECT ... FOR UPDATE` on the conversation |
| `req` | the HTTP requests in flight: what each handler holds in its local variables |
| `window` | what each paging client has been shown |
| `crashes` | how many requests were lost (bound) |

Actions and code:

| Action | Code |
|---|---|
| `Arrive` | the access guard (with `Access`, which adds support and admin as participants), then `MessagesService.send` up to its transaction |
| `LockConversation`, `RefuseE2ee` | the locking read and the test of `e2eeEnabled` under it |
| `ReplayExisting` | the key is known: the transaction ends with the old row |
| `InsertMessage` | message, receipts, outbox event, `bumpLastMessage`, commit |
| `Publish` | broadcast and answer |
| `Crash`, `Resend` | the connection or the process dies, at any stage; the client sends the same request again |
| `FindToDelete`, `SaveDeleted` | the two queries of `softDelete`, the second with what the first read |
| `HideMessage` | `ModerationService.resolve` with `hide_message` |
| `Anonymize` | the transaction of `PrivacyService.anonymizeUser` |
| `MarkRead` | `MessagesService.markRead` |
| `CheckE2ee`, `EnableE2ee` | the check of `E2eeService.enableE2ee` and its transaction |
| `OpenList`, `PollAfter`, `ScrollBefore` | `MessagesService.list` without cursor, with `afterSequence`, with `beforeSequence` |

Granularity. Under READ COMMITTED nothing of a transaction is visible before it commits, and
whatever a send reads after its locking read is written only by holders of the same lock or is
constant for it; so its remaining statements are one step, the commit. `softDelete`,
`enableE2ee` and the paging client hold state across queries and are split there.

What is abstracted, and why it may be:

- The content is a member of `Bodies`, as the scanner leaves it; encryption is left out because
  `decrypt` undoes `encrypt`. `status` `flagged` behaves as `sent` in all the code modelled.
- `conversations.status` and `left_at` are never written by the code, so "open" and "has not
  left" are constants.
- `messages` has no unique indexes in the model: that no insert would ever hit one is what
  `SequencesGapFree` and `OneMessagePerKey` say.
- A joining support agent waits for a send in progress: the foreign key of
  `conversation_participants` wants a share of the locked conversation row. For the same reason
  the insert of `mls_groups` waits in `EnableE2ee`.
- The anonymisation is one step: its update of `users` changes the unique `email`, so the
  foreign-key check of an insert by the same sender waits for it.
- `SaveDeleted` chooses whose `moderated_by` survives: TypeORM reloads the row before it
  computes the difference, and a moderation between the reload and the UPDATE is in neither.
- A deletion or an activation whose backend dies is one that never takes its second step.
- Broadcasts and audit rows keep no state that a property is about; that `audit.log` takes
  another connection is the subject of `Conversations`.
- `MarkRead` takes a sequence that exists. The DTO does not enforce it; clients send back what
  they were delivered, and the property about cursors is stated for such clients.

`MessageLog` is the promise: `docs/ARCHITECTURE.md`, "Idempotence & ordre". Its `log` is
refined by `LogOfRows`, the rows in sequence order, and `closed` by `e2ee`.

### Runs

All use `MCMessaging`. Every bound is a constant.

| Run | Shows | Instance |
|---|---|---|
| `messaging_safety` | type correctness, the inductive invariant, gap-free sequences, outbox and rows agree, no clear text after E2EE, deletion is final, the log is implemented | two users, two requests in flight, one key, two messages, one moderator, both users erasable; symmetric in requests and users |
| `messaging_reading` | a paging client sees no hole; cursor and receipts agree | a customer, a support agent who joins, pages of one, three messages, one acknowledgement; symmetric in requests |
| `messaging_live` | one message per key; every request is answered | one user, two requests, one key, two crashes; no symmetry |
| `replayed_answer` (violation) | a replayed key is answered with the new text | two contents, one key |
| `anonymised_sender` (violation) | a message sent after the erasure stays readable | one user |

Why the bounds suffice. Two requests give every race on the lock, on a key and between the two
queries of a deletion and any other writer of the row; a third would only repeat one of them.
Two messages give order; with pages of one, three messages give a page that is cut off, a page
before it and one after it. Two crashes give a crash of the retry. With `MaxCrashes` crashes the
conversation may exceed `MaxSequence` by as many messages, since a request without a key whose
answer is lost is stored twice.

Fairness (only in `FairSpec`): a handler goes on (`WF` of `Proceed`) because Node and
PostgreSQL do, and the client resends until answered. The steps that wait for the row lock get
`SF`: PostgreSQL queues the waiters of a row, so a waiter for whom the lock becomes free again
and again gets it. Nothing is assumed about clients starting requests.

Each property has a mutant in `PROJECT.json`: a plausible change of the code (no row lock, the
flag tested only in the guard, a lookup that skips deleted rows, a page ordered the wrong way,
a lock that survives its transaction, ...) under which TLC finds it violated.

### Disagreements between code and documents

- `send` ends with `toDecrypted(message, scan.cleaned)` for replays too, so the answer and the
  broadcast carry the row of the first request and the text of the second. The e2e test says the
  other content is to be ignored; it compares only the ids.
- `anonymizeUser` wipes the messages present when it runs. Access tokens stay valid until they
  expire and sends under way are not stopped, so a message can be stored after the wipe.

## 4. `Outbox`: from the committed row to the stream and the mailbox

`Outbox` takes over where `Messaging` ends. Its producer (`BeginSend`, `CommitSend`) is the
contract `Messaging` is proved to keep (`OutboxIsFaithful`, `SequencesAreGapFree`): one event per
message, committed in sequence order. What it adds is `created_at`, which defaults to `now()`,
the start of the sending transaction: it is fixed before the wait for the row lock that gives
the sequence. Event n is the event of the message of sequence n.

| Variable | In the program |
|---|---|
| `clock`, `open`, `events` | the starts of transactions, those still open, `created_at` of the committed rows |
| `processed`, `waiting`, `tries` | `processed_at`, `next_attempt_at` in the future, `attempts` |
| `stream`, `dedup` | the JetStream stream, the Msg-Ids of its duplicate window |
| `connected` | `NatsService.js` is defined in the process |
| `batch`, `todo`, `event`, `to`, `mailed`, `failed` | the transaction of a worker: the rows it locks, those to come, the one in hand, its recipients to come, the one whose email is not on record yet, the rows that threw |
| `sent`, `noted`, `recent` | the emails that left, the rows of `email_notifications`, those of the throttle window |
| `lost`, `failures`, `aborts` | history and bounds |

| Action | Code |
|---|---|
| `Fetch` | the SELECT of `processBatch`: due rows, oldest first, `LIMIT`, `FOR UPDATE SKIP LOCKED` |
| `Publish`, `PublishFails` | `handle` up to the presence lookup; a publish that throws may or may not have been stored |
| `SkipThrottled`, `SendMail`, `SaveMail`, `MailFails` | the loop of `notifyNewMessage`: throttle, email, dedup row, an exception before or after the email |
| `MarkProcessed`, `Commit` | the UPDATE in the transaction, and its commit |
| `Crash` | the process dies: rollback, and after a restart the next batch of `loop` |
| `Disconnect` | the connection of the transaction is lost: rollback, and the worker, which makes no query of it inside `handle`, goes on with its row |
| `BackoffElapses`, `WindowPasses`, `ThrottlePasses` | the three time limits, which may end at any moment |

What a batch writes to the outbox is visible at its commit only, so `processed`, `tries` and
`waiting` change there; publications, emails and `email_notifications` (another connection) are
outside the transaction and stay when it is rolled back. After `Disconnect` the batch is empty while
`InHands(w)` is not: the worker publishes and mails for the row it is at, or for the one it comes to
if it was between two queries, until its next UPDATE throws (`MarkProcessed` and `RowFails` then end
the batch). By that time another worker may have fetched and finished the same row. That PostgreSQL
notices a lost connection late, and keeps the locks until then, only delays the others; the model
frees them at once. Reading the throttle and sending the
email are one step, since no process reads what the email changes. Abstracted: `message.read`
events take the same path without emails; the search index, whose errors `handle` swallows, is
in the module `Search`; the length of a backoff is left open, as are downtimes.

| Run | Shows | Instance |
|---|---|---|
| `outbox_safety` | the inductive invariant; the workers implement `EventQueue`; copies and emails never exceed the handlings that failures and rollbacks account for; a recorded email was sent | two workers (symmetric), two events, batches of two, one recipient, one failure and one rollback (a `Crash` or a `Disconnect`) |
| `outbox_live` | every event is processed; a worker alone publishes an event before an older one only if their sends overlapped, or the older one failed or was rolled back (`OrderExplained`) | one worker, two events, one recipient, one failure and one rollback |
| `unpublished_event` (violation) | a process whose NATS initialisation failed marks events processed | one worker, one event |
| `stream_order` (violation) | two overlapping sends are published against their sequences | one worker, two events, no failure |

Two workers and two events give two overlapping batches and a batch in which one row fails and
the next goes on; one failure and one rollback, in either order, give a retry after each.
`outbox_live` has one worker, the harder case: nobody else takes over what it failed or lost. That a
second worker does not disturb a batch is what `outbox_safety` shows. Deadlock is not checked: with
every event processed and no more sends the system is at rest.

`EventQueue` is the promise of `docs/ARCHITECTURE.md` ("at-least-once") made precise: a committed
event is delivered any number of times, by workers that have taken it up; its recipients are mailed
only after it was, it is finished only after it was, and a finished event is never taken up again. It
may be delivered again all the same, by a worker that had taken it up before and has lost its locks:
nothing fences that worker off, and the promise says so. `ImplementsQueue` maps the rows to
`committed`, the copies in the stream to `copies`, `sent` to `mails`, `processed` to `done` and
`InHands` to `hands`. It says more than that processed events were published (`ProcessedWasPublished`, which
`unpublished_event` refutes for a process without NATS): a row marked after its handler threw would
be finished undelivered, and a row fetched without looking at `processed_at` be taken up once it is
finished.

Fairness (`FairSpec`): the loop of a worker sets its next timer after an error too, so `Work` is
weakly fair per worker; a backoff ends. No fairness is assumed of failures, rollbacks, clients or
the two windows.

Disagreements. `onModuleInit` of `NatsService` swallows a failed connection; `isEnabled()` is then
false for the life of the process and its worker marks events processed that were never
published, where the worker and `docs/PHASE5.md` promise at-least-once. And `ORDER BY created_at`
is not the order of the sequences, where `docs/PHASE5.md` promises a strict one per conversation.

## 5. The two instances of the other components

The remaining components share no variable with each other. Exploring them side by side would
only multiply their states, so `MCSafety` and `MCProgress` are sums: the variable `component` is
chosen in the initial state and never changes, the chosen component moves and the others stay in
their initial states. A behaviour of such an instance is a behaviour of one component, and every
behaviour of each component is there; an invariant of a component therefore holds in the instance
exactly if it holds in the component. For the temporal properties of `MCProgress` it matters that
a resting component owes nothing: in the initial states no action is enabled that a fairness
condition is about (no call has arrived, no row is committed, the index is refreshed, no time is
running), so the fairness of the resting ones constrains nothing and their `~>` have no premise.

The constants of `MCSafety` and `MCProgress` are those of the components. Neither uses symmetry.
Deadlock is not checked: with its bounded messages, tokens or faults used up, a component rests.

## 6. Components on the database

### `Conversations`: creation, the pool, the audit log

One order and the calls about it: `Creators` are calls of `getOrCreateForOrder`, `Writers` calls
of `MessagesService.send`, which matter here for the connections and locks they hold. `step[c]`
is the await the call is at, `free` the free connections of the pool (`DB_POOL_MAX`), `joined`
the uncommitted participants, `waitedInVain`, `auditFailed` and `lostTx` history.

| Action | Code |
|---|---|
| `CallArrives`, `FindExisting`, `FindNothing` | the controller and the first `findOne`, on any free connection |
| `PoolTimeout`, `AuditTimeout` | `connectionTimeoutMillis`: no connection is free; the call is answered 500, `audit.log` swallows the error |
| `BeginTransaction` | a connection is taken, and kept while the call waits for a lock |
| `InsertConversation`, `DuplicateConversation` | the INSERT under `UNIQUE (order_id)`: it waits for a creation that has inserted; if that one commits, 23505 |
| `InsertParticipants`, `Audit`, `CommitTransaction` | the rest of the transaction, with `audit.log` on a second connection |
| `LockRow` | the row lock of a send |
| `AuditFails` | the save of `audit.log` fails on its connection, for whatever reason, with or without the row left behind; `log` swallows that too |
| `LoseTransaction`, `FindFails` | the connection of the transaction, or of the query before it, is lost; the pool replaces it |

After 23505 PostgreSQL has aborted the transaction, so that the `findOne` of the catch fails in
its turn: `DuplicateConversation` ends in `failed`, which is the run `creation_race`. A query
outside a transaction needs a free connection and does not keep it beyond its step. Fairness:
the pool and PostgreSQL serve who waits, and the timeout of the pool is a timer of the process
(`WF` of `CallProceeds`). Weak fairness is enough since in `EveryCallEnds` one of the steps of a
call that waits stays enabled, or becomes so for good when the others have ended. Left out:
`last_message_at` and the order of `listForUser`.

### `Sessions`: registration, login, refresh, logout, erasure

One account. `at[q]` is where request q is, `token[q]` the refresh token it presented, `child[q]`
the one it has issued. No two statements of these services share a transaction, so each await is
a step of its own: `RotateFinds` (the row is read and what was read is looked at), `RotateSaves`
(the parent is revoked, by id, whatever it has become), `RotateIssues`, `RefreshAnswers` (the
user is read last of all). `RevokeFamily` is the answer to a revoked token; it ends every session of the user,
`revokeAllForUser`. `CrashSignIn` loses a request or its answer at any of these points. The erasure
is the transaction of `anonymizeUser` (`EraseBegins`, `EraseCommits`, `EraseRollsBack`), whose
revocation runs on another connection (`EraseRevokes`): it commits by itself. While that
transaction is open it has updated the unique `users.email`, so the foreign key of a new refresh
token waits for it: the guard `erasing = "no"` of `Issue`.

`before` and `overtaken` are history: the tokens of sessions that began before the last revocation,
and those of rotations that had found their token live by then. Token expiry leaves no trace (a
live token that has expired is answered 403) and access tokens are stateless; both are left out.

### `KeyPackages` and `MlsGroups`

`KeyPackages` is the pool of one user and cipher suite. A claim takes a snapshot
(`SelectKeyPackage`), then waits for the row lock of the oldest package and looks at the row
again, which is what PostgreSQL does for `FOR UPDATE` under READ COMMITTED (`LockKeyPackage`);
a row consumed meanwhile is skipped. Packages posted together have one `created_at`, so which of
them is oldest is open. `LoseClaim` rolls back.

`MlsGroups` is the group of one conversation. Activation: the check (`CheckNotE2ee`), the INSERT
under `UNIQUE (conversation_id)` (`InsertGroup`, `GroupExists`), the commit with its welcomes and
the flag (`CommitGroup`). Messages: the group row is locked and `MAX(sequence)` read under the lock
(`LockGroup`), then message and epoch are committed (`CommitMls`). `ListMls` is the client that pulls
pages from its last sequence on. Ciphertexts, devices and the epoch a client claims are data
nothing in the server reads.

### `Moderation`

The reports about one message: `resolve` reads the report (`ResolveFinds`), saves it
(`ResolveSaves`), then hides the message (`ResolveHides`), three statements in no transaction; it
does not look at what the status was. `ResolveCutShort` is a backend that dies, or an UPDATE that
fails, in between; `cutShort` keeps the reports whose last save was left alone that way.
`DeleteReported` is the sender, who
deletes at any time. One message is enough, since a report is about one message. The erasure of its
sender does not change the status.

## 7. Components beyond the database

### `Search`

One conversation; a document is named by the sequence of its message. `mapping` is how the index
came to be: by `ensureIndex`, or, when that failed at start, by the first document with a guessed
mapping. The index writes with `refresh: false`, so `searchable` lags behind `docs` until `Refresh`,
and `delete_by_query` removes what the last refresh shows (`DisablePurges`). `EnableReadsFlag`,
`EnableLists`, `EnableIndexes`, `EnableSetsFlag` are the awaits of `enableIndexing`, `JobReadsFlag`
and `JobIndexes` those of the job of the outbox worker, which may be repeated (`JobRedone`), be
refused by OpenSearch (`JobFails`) or fail to read the flag (`JobCannotRead`); the worker swallows
either error and marks the event processed. `EnableFails` and `EnableLosesQuery` are a document and a
query of the opt-in that fail. `Found` is what a term query on an id returns: nothing, where the
mapping is guessed and the id is analysed text, neither to a search nor to the purge. The history an
opt-in reads is an arbitrary part of the stored
messages: which of them have been deleted or do not decrypt is left open. `covered`,
`unseen`, `unread`, `gone` are history. Fairness: the index refreshes itself and the worker goes on.

### `Attachments`

The row of a file and its object. The client uploads to the signed URL when it likes, as often as
it likes, until `ExpirePut`; `finalize` is `FinalizeFinds`, then the HEAD (`FinalizeAccepts`,
`FinalizeMisses`, `FinalizeMismatches`), then `FinalizeDeletes` (S3) and `FinalizeRemoves` (row);
`FinalizeFails`
stops it at any of these. `presignUpload` makes a signature and a row, one step. Files do not
interfere; the virus scan is a TODO of the code, so `pending` stays.

### `Presence`

One user, whose sockets connect and disconnect; `hello[s]` and `bye[s]` are where the two handlers
of a socket are, which interleave. Time passes in ticks of thirty seconds, the period of the
heartbeat; the key lives for two. In a tick every running interval fires once (`owed`), in any
order with the rest, and renews the key (`Heartbeat`) or fails to, which is swallowed
(`MissHeartbeat`): the key may then expire under a connected socket, and the EXPIRE of later
heartbeats does nothing to a key that is gone. `StoreFails` and `ByeFails` are the commands of the two
handlers without an answer. `Tick` waits for a `handleConnection` that is between the answer of Redis and its
`setInterval`, which does not take thirty seconds. `Die` is the death of the process, which leaves
its sockets in the set. `overtook`, `timedOut` and `lapsed` are history. Fairness: time passes, handlers go on.

### `Delivery`

From the commit of an event to the room, in the two modes of `RealtimeService`. The gateways share
one durable consumer; `queue[g]` is what gateway g has been given and has not finished, `tries[e]` the
deliveries of e. An event that is not acknowledged within `ack_wait`, because the gateway died
(`AckWait`) or is slow (`SlowAck`), or whose handler threw (`HandlerThrows`), is delivered again, up to
`max_deliver` times. `calls[e]` counts the requests about to call `RealtimeService` for e: the send
that commits it, and every request that finds it committed with its key (`ReplayKey`), which
broadcasts the stored message again where the backend emits. A row that `Outbox` publishes again after
the window of duplicates is one more event here. `CreateConsumer` starts at new events, so what is
in the stream before is
skipped. Fairness: JetStream goes on delivering an event that has deliveries left, whatever the
gateways do to others (`SF` of `Move`), and a gateway goes on with its loop (`WF` of `Consume`).

### `ClientView`

The demo client. `openConversation` sets the current conversation at once and asks to join its
room; its header request and its list are merged, since nothing is shown before both; `ShowPage`
is its answer, which empties the screen whatever is current by then. Messages are emitted to the
room some time after their commit (`EmitToRoom`) and arrive some time after that (`ReceiveLive`).
`Disconnect` takes rooms, joins and messages on their way with it; `RefuseJoin` is the rate limiter
or the access check. The read acknowledgement that follows a list is `MarkRead` of `Messaging`.
`missed`, `barred` and `wiped` are history: why a message may not be on the screen.

## 8. Their runs

| Run | Shows | Instance |
|---|---|---|
| `components_safety` (`MCSafety`) | a package is handed out once (`HandedOnce`); the MLS numbering, the group and the pickup (`SequencedUnderLock`, `GroupIsWhole`, `PickupComplete`); dead parents, explained survivors, nothing after an erasure (`ParentIsRevoked`, `SurvivorsExplained`, `NoSessionAfterErasure`); what an index lacks is accounted for (`IndexComplete`); row and object agree (`RowAndObjectAgree`); the screen (`ViewOfOneConversation`, `MissingExplained`); actioned reports (`ActionedIsHidden`) | two claims of three packages; two members, two senders, three MLS messages in pages of one; two requests, three tokens; two calls of opt-in or opt-out, two messages; one file, two calls of `finalize`; two conversations, two messages, two openings in pages of one; two reports, two moderators; one loss or failure in each |
| `components_progress` (`MCProgress`) | one conversation, audit rows accounted for, every call ends (`OneConversation`, `AuditGapsExplained`, `EveryCallEnds`); a new message is found (`NewMessageSearchable`); connected means online, gone means offline (`ConnectedIsMember`, `EventuallyOffline`); delivery (`AckedWasEmitted`, `NoDoubleEmission`, `EveryEventEmitted`) | two creations, two sends, a pool of two, one lost transaction or query, one audit row that fails; two opt-ins, one message, two faults; two sockets, one death, one unanswered command of Redis; two gateways, two events, one of them with a key and one replay of it, two deliveries at most, two faults |
| `creation_race` (violation) | the second of two creations is answered with an error although the conversation is there | two creations, a pool of three, no send, no loss |

Why the bounds suffice. Every race in these components is between two requests, so there are two
slots of each kind; slots are used again, so that a third request comes after the first two. A
pool of two and four calls let the pool run dry while two of its holders wait for one lock and a
third connection. Three tokens are a session, its rotation and the child of a racing rotation;
two messages are one before and one after a backfill or a page; three MLS messages with pages of
one are a page that is cut off in the middle. One fault gives the fault at every point; where
the reaction to a fault can fail in its turn (`Delivery`, `Search` under liveness) there are two.
Two deliveries instead of ten reach the same limit sooner. One missed heartbeat is enough to let the
key of a user with one socket expire: nothing else renews it in its last tick.

`creation_race` is a disagreement with the comment of `getOrCreateForOrder`, which promises the
conversation "même en cas de concurrence".

What the models show besides, where no run is spent on it:

- With `WS_GATEWAY_DEDICATED` the deletion of a message reaches no client: `RealtimeService` returns
  early and `softDelete` writes no outbox event, so the case `message.deleted` of the gateway is
  never taken.
- Nothing takes the document of a deleted or anonymised message out of OpenSearch, although
  `docs/PHASE6.md` counts on it.
- An opt-out can leave documents behind: those written since the last refresh, and those of a job
  that had read the flag before it was cleared. Where the index was created with a guessed mapping it
  leaves all of them.
- A socket whose key expired after a missed heartbeat stays out of the set for as long as it lives,
  though its heartbeats go on; only another connection of the user makes the user look online again.
- A worker that has lost its connection can publish and mail an event that another worker has
  finished in the meantime.
- A client that disconnects while `handleConnection` awaits Redis leaves an interval that nobody
  clears; should the user be in the set again, it keeps renewing the key. `EventuallyOffline` excepts it.
- A `resolve` cut off between its two writes leaves a report closed as actioned and its message in
  sight; `ActionedIsHidden` excepts it, by name.
- A client presented with an answer that was lost rotates a revoked token and loses every session.

## 9. Proofs

`MessagingProofs` proves, from `ConstantsAssumption` alone (agents, readers and leavers are
users, `None` is a value of its own, the bounds are naturals):

| Theorem | Statement |
|---|---|
| `InvariantHolds` | `Spec => []IInv` |
| `TypeCorrect` | `Spec => []TypeOK` |
| `SequencesAreGapFree` | `Spec => []SequencesGapFree` |
| `KeysAreHonoured` | `Spec => []OneMessagePerKey` |
| `ClearTextStops` | `Spec => NoClearTextAfterE2ee` |
| `DeletionsLast` | `Spec => DeletionIsFinal` |
| `CursorsAgree` | `Spec => []ReadCursorAgreesWithReceipts` |
| `OutboxIsFaithful` | `Spec => []OutboxAgreesWithMessages` |
| `ReadersMissNothing` | `Spec => []ReaderSeesNoHole` |
| `LogIsImplemented` | `Spec => ImplementsLog`, the refinement of `MessageLog` |
| `AnonymizationEmptiesRows` | an action property: a row whose sender a step anonymises is empty after it, and stays so |
| `OnlyLateSendsAreReadable` | `AnonymizedIsUnreadable`, for behaviours in which no send of an anonymised user commits |
| `ReplaysOfOneTextAreRight` | `AnswerIsTheStoredMessage`, for clients whose text is a function of sender and key |

`SequencesGapFree` is not inductive: from a state in which two requests are inside the
transaction, or in which a request has read a `last_sequence` that is no longer the row's, an
insert breaks it. `IInv` adds what rules such states out: the lock holder is exactly the request
at stage `locked`; what it read is still so, and E2EE is off (`LockGuardsTheConversation`); a
send knows its sender and text (`SendsAreComplete`); the stale entity of a deletion still
identifies its row (`DeletionsKnowTheirRow`); row number n has sequence n
(`CommittedInSequence`). TLC checks `IInv` first, as an invariant of `messaging_safety`.

The preservation proof has one lemma per action. Steps that move one request and write no table
go through `RequestStep`, steps that rewrite rows through `RowsRewritten`, steps of readers
through `WindowStep`. The other theorems rest on what a step does to rows: `StepKeepsRows` (a
step that is no insert keeps sender, sequence and key of every row) and `InsertAdds` (what an
insert adds, given the lock). Three of them need an invariant of their own:
`DeletedRowsAreEmpty`, `CursorsBehind` and, for the readers, `WindowsBehind`: no window is ahead
of `last_sequence`, so that a row committed later is past every window. That a page has all the
rows between its first and its last one is a fact about the size of finite sets
(`OldestHasNoGap`, `NewestHasNoGap`). In the refinement an insert is a `Post`
(`InsertPosts`), an activation a `Close` or a stutter (`EnableCloses`), and whatever keeps the
rows an `Erase` of the bodies that go, perhaps of none (`KeptRowsErase`); `LogByRow` says that the
row `LogOfRows` looks up by its sequence is the row of that number.

The last two are about the disagreements of section 3, which TLC shows to be real; they say how
far these go. Their hypotheses are about the environment alone: which sends still come in, and
what clients send. `ReplaysOfOneTextAreRight` rests on two invariants, that a body stored under a
key is the text of that key (`StoredUnderItsKey`) and that a committed answer is about a row and
carries its text if that is still there (`AnsweredFromTheRow`).

`OutboxProofs` proves, from `OutboxAssumption` alone unless said otherwise:

| Theorem | Statement |
|---|---|
| `OutboxInvHolds` | `Spec => []OutboxInv` |
| `OutboxTypesAreCorrect` | `Spec => []TypeOK` |
| `RowsAreHandledOnce` | `Spec => []BatchesAreDisjoint` |
| `AtLeastOnce` | `Spec => []ProcessedWasPublished`, assuming `NatsOutcomes \subseteq {TRUE}`; `unpublished_event` shows that the assumption is needed |
| `RepeatsAreExplained` | `Spec => []ExtraDeliveriesExplained` |
| `MailRecordsAreTrue` | `Spec => []RecordedMailWasSent` |
| `QueueIsImplemented` | `Spec => ImplementsQueue`, the refinement of `EventQueue`, assuming `NatsOutcomes \subseteq {TRUE}` |
| `InversionsAreExplained` | `Spec => []OrderExplained`, assuming one worker |
| `OrderedWithoutOverlap` | `Spec /\ []OneSendAtATime => []StreamInOrder`, assuming one worker and no failures or rollbacks |

`OutboxInv` is proved in layers, each using the ones before: types and the place of every loop in
its batch; batches are disjoint and hold due rows (the row locks); a publication dropped as a
duplicate is in the stream, and rows handled without an error were published; an email in hand
was sent. `ExtraDeliveriesExplained` is not inductive: a publication adds a copy, so the count of
handlings has to grow in the same step, which it does only because the row is in no other batch
and not processed; and an email adds one, so recipients still to come must have had none in this
handling. A worker that has lost its batch publishes and mails in a handling that its rollback has
counted already: `DeliveriesAreCounted` keeps room in the count for every such worker (`MayPublish`,
`MayMail`).

In the refinement a fetch is a `TakeUp`, a publication one `Deliver` or, where the stream drops it,
a `LayDown` or
stutter (`PublicationDelivers`); an email and a commit are a `Notify` and a `Finish` of events
that were delivered, because a row handled without an error was published (`HandledIsDelivered`). For the
order, `OrderInv` adds that a batch leaves out no untroubled older row (`OldestInBatch`: the LIMIT after
the ORDER BY) and that an event has its turn after the untroubled ones that precede it
(`TurnsTaken`). With two workers it is false, as each may hold one of two events. `OrderedWithoutOverlap` is the
part of `docs/PHASE5.md`'s order that the code keeps: `created_at` then follows the sequences
(`StartOrder`).

The proofs about the other components and their sums assume their named `...Assumption` and
nothing else:

| Module | Theorems (each `Spec => []P`, or `Spec => P` for an action property) |
|---|---|
| `ProgressProofs` | `ConversationTypesAreCorrect` (`ConversationsTypeOK`), `OneConversationEver` (`OneConversation`), `AuditGapsAreExplained` (`AuditGapsExplained`), `RefusedCreationsFindIt` (`RefusedFoundIt`), `DeliveryTypesAreCorrect` (`DeliveryTypeOK`), `AckedEventsWereEmitted` (`AckedWasEmitted`), `NothingIsEmittedTwice` (`NoDoubleEmission`); of the sum `MCProgress`, `ProgressTypesAreCorrect` (`TypeOK`) and `ProgressIsSafe` (its five invariants) |
| `SessionsProofs` | `SessionTypesAreCorrect`, `ParentsAreRevoked` (`ParentIsRevoked`), `SurvivorsAreExplained` (`SurvivorsExplained`), `NothingAfterErasure` (`NoSessionAfterErasure`) |
| `KeyPackagesProofs` | `KeyPackageTypesAreCorrect`, `LocksHold` (`LocksExclude`), `PackagesAreHandedOnce` (`HandedOnce`) |
| `MlsGroupsProofs` | `MlsTypesAreCorrect` (`MlsGroupsTypeOK`), `MessagesAreSequenced` (`SequencedUnderLock`), `GroupsAreWhole` (`GroupIsWhole`), `PickupsAreComplete` (`PickupComplete`) |
| `TwoCopiesProofs` | `FilesAgree` (`RowAndObjectAgree`), `ReportsAreActedOn` (`ActionedIsHidden`), `IndexIsComplete` (`IndexComplete`), `ConnectedIsOnline` (`ConnectedIsMember`), `ScreenShowsOneConversation` (`ViewOfOneConversation`), `MissingIsExplained` (`MissingExplained`), `AttachmentTypesAreCorrect`, `SearchTypesAreCorrect`, `ViewTypesAreCorrect` (their `...TypeOK`) |
| `SafetyProofs` | of the sum `MCSafety`, `SafetyTypesAreCorrect` (`TypeOK`) and `SafetyIsKept` (its other properties) |

Why each needs more than the property:

- `OneConversation` would be broken by two transactions that have both inserted: `UniqueOrder` says
  that whoever has inserted is alone and that nothing is committed; `WholeConversation`, that an inserted
  conversation brings its participants. `AuditInv` adds that a call about to commit without an
  audit row has waited in vain or seen its save fail. `RefusedFoundIt` is what remains of the claim
  `creation_race` refutes: a
  creation that kept its transaction and found a connection fails only where the conversation is
  committed, so that asking again finds it.
- The type invariants that say more than types rest on counts: every connection of the pool is free
  or in a transaction (`PoolCounted`), what the gateways hold of an event never exceeds its
  deliveries (`DeliveriesCounted`), jobs and documents are of committed messages (`JobsOfStored`).
- In a sum one component moves and the others rest, so each step of the sum is a step or a stutter
  of each component (`SafetyParts`, `ProgressParts`): the components' theorems carry over.
- `ParentIsRevoked` is broken by a rotation that goes on to issue below a live parent:
  `RotatedIsRevoked`, which rests on the lemma that no step makes a token live again
  (`RevocationsLast`). `SurvivorsExplained` needs that a rotation still under way with an old token
  is on record as overtaken (`OldRotationsKnown`); `NoSessionAfterErasure`, that an erasure lasts and
  that no request begun after it is a login (`ErasedForGood`).
- `HandedOnce` is broken by a claim whose locked row another one holds or has consumed:
  `LocksExclude`.
- The MLS numbering is broken by two holders of the group row, or one whose number is stale:
  `GroupLocks`, which also ties the group to its welcomes. That the epoch counts the commits is a
  count of a set that grows by one (`EpochCounts`). The pickup needs that no cursor is ahead of
  the messages (`CursorBehind`) and that a page leaves nothing out below its last sequence
  (`PageIsWhole`), whose last sequence exists because the page is finite (`GreatestExists`).
- `AckedWasEmitted` needs that what a gateway is about to acknowledge it has emitted
  (`HandledWasEmitted`). `NoDoubleEmission` is broken by a state in which an event is in two queues
  and was delivered once: `EmissionsArePaid` counts, for each event, its emissions and the copies
  not yet handled (`Copies`) against its deliveries; `LegacyIsOnce` counts, in the other mode,
  emissions and calls to come against the send and its replays, and
  `FaultlessIsOnce` says that without a fault a delivered event is held until it is acknowledged.
- `RowAndObjectAgree` speaks of files no call is working on; `MissingObjects` and `NewObjects` say what
  holds while one is. `ActionedIsHidden` is inductive with the types: its third disjunct is the
  call that still has to hide the message.
- `IndexComplete` is broken by an opt-in that sets the flag: `NoMessageForgotten` says that whatever a
  message's job has done left a trace, also while the flag was off, and `BackfillsKeepUp` that what a
  backfill has read and is no longer to index is there or gone for a reason.
- `ConnectedIsMember` is broken by a set that expires under a connected socket: `TimersRun` says that
  such a socket has its interval, `FreshTtl` that once it has fired the set outlives the next tick,
  `ByeIsClosed` that only closed sockets are removed, `MembersWereStored` that what is or was
  in the set has been stored. A key that expires was not renewed in its last tick, so that each socket
  whose interval was running has missed a heartbeat.
- `MissingExplained` speaks of conversations at rest; `NothingUnexplained` says where each message is
  from the moment the list of the last call has been read (on its way, on the screen, on record, or
  in the page still to be shown), which needs `RoomAsked` (a message emitted to nobody is on
  record) and `LastCall` (the last call is about the current conversation).

Only model-checked: liveness (`EveryRequestAnswered`, `EveryEventProcessed`, `EveryCallEnds`,
`NewMessageSearchable`, `EventuallyOffline`, `EveryEventEmitted`), which is outside the prover's reach. Every
invariant, action property and refinement that a passing run checks is also the statement of a
theorem, or a conjunct of one.

## 10. Not modelled

- `EnvelopeCryptoService`: `encrypt` and `decrypt` are used as inverse of each other; its cache
  decides when a data key is unwrapped again, never which.
- The rate limiters: one atomic INCR per event; `ClientView` lets any join be refused.
- The content scanner is a pure function of a text, as are the mail templates; what they return is
  a member of a small set where it matters.
- `orders`: lookups of rows nothing changes. `last_message_at`, `listForUser` and `typing`: display.
- The export of `privacy` is a read-only dump.
- Of the demo client: login form, reports, export, typing and the list of conversations.
- The handshakes of the two Socket.IO servers verify a token and keep nothing but the user;
  a join at the ws-gateway does not check the access, one at the backend does.
- Infrastructure, load tests, seeds, metrics, tracing, logging, health probes, configuration and
  the HTTP plumbing carry none of the program's own logic.
