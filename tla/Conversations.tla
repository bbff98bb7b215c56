--------------------------- MODULE Conversations ---------------------------
(***************************************************************************)
(* ConversationsService.getOrCreateForOrder for one order, together with   *)
(* what it shares with the sends of the same backend: the pool of database *)
(* connections, from which AuditService.log takes a second one inside the  *)
(* transaction of its caller.                                              *)
(*                                                                         *)
(* A query outside a transaction holds its connection for that one query:  *)
(* it only needs one to be free.                                           *)
(***************************************************************************)
EXTENDS Naturals, FiniteSets

CONSTANTS
  Creators,   \* calls of getOrCreateForOrder
  Writers,    \* calls of MessagesService.send in the conversation
  PoolMax,    \* DB_POOL_MAX
  MaxLostTx,  \* bound: transactions and queries lost with their connection
  MaxAuditFaults  \* bound: rows of audit_log whose save fails

ASSUME ConversationsAssumption ==
  /\ PoolMax \in Nat \ {0} /\ MaxLostTx \in Nat /\ MaxAuditFaults \in Nat
  /\ Creators \cap Writers = {}

Calls == Creators \cup Writers

VARIABLES
  step,          \* step[c]: where the call is, see ConversationsTypeOK
  free,          \* connections of the pool that are free
  conversation,  \* the conversations rows of the order, by their creator
  joined,        \* joined[c]: the participants its transaction has added
  participants,  \* the participants committed
  answer,        \* answer[c]: the conversation row it returned, {} if none
  audited,       \* calls with a row in audit_log
  waitedInVain,  \* calls that got no connection, for themselves or audit.log
  auditFailed,   \* calls whose audit row failed to be saved on its connection
  lostTx         \* calls whose transaction, or first query, was lost

tableVars == <<conversation, participants, audited>>
conversationsVars == <<step, free, tableVars, joined, answer, waitedInVain, auditFailed, lostTx>>

ConversationsInit ==
  /\ step = [c \in Calls |-> "new"]
  /\ free = PoolMax
  /\ conversation = {} /\ participants = {}
  /\ joined = [c \in Calls |-> {}] /\ answer = [c \in Calls |-> {}]
  /\ audited = {} /\ waitedInVain = {} /\ auditFailed = {} /\ lostTx = {}

Goto(c, s) == step' = [step EXCEPT ![c] = s]

\* The call arrives and asks the pool for a connection.
CallArrives(c) ==
  /\ step[c] = "new"
  /\ Goto(c, "find")
  /\ UNCHANGED <<free, tableVars, joined, answer, waitedInVain, auditFailed, lostTx>>

\* connectionTimeoutMillis has passed without a free connection: 500.
PoolTimeout(c) ==
  /\ step[c] \in {"find", "begin"} /\ free = 0
  /\ Goto(c, "failed")
  /\ waitedInVain' = waitedInVain \cup {c}
  /\ UNCHANGED <<free, tableVars, joined, answer, auditFailed, lostTx>>

\* The conversation is there: it is returned, or the send goes on with it.
FindExisting(c) ==
  /\ step[c] = "find" /\ free > 0 /\ conversation # {}
  /\ IF c \in Creators
       THEN Goto(c, "done") /\ answer' = [answer EXCEPT ![c] = conversation]
       ELSE Goto(c, "begin") /\ UNCHANGED answer
  /\ UNCHANGED <<free, tableVars, joined, waitedInVain, auditFailed, lostTx>>

\* The query fails with its connection: 500.
FindFails(c) ==
  /\ step[c] = "find" /\ free > 0
  /\ Cardinality(lostTx) < MaxLostTx
  /\ lostTx' = lostTx \cup {c}
  /\ Goto(c, "failed")
  /\ UNCHANGED <<free, tableVars, joined, answer, waitedInVain, auditFailed>>

\* It is not: a creation opens its transaction, a send is answered 404.
FindNothing(c) ==
  /\ step[c] = "find" /\ free > 0 /\ conversation = {}
  /\ Goto(c, IF c \in Creators THEN "begin" ELSE "failed")
  /\ UNCHANGED <<free, tableVars, joined, answer, waitedInVain, auditFailed, lostTx>>

\* The transaction takes a connection, and keeps it while it waits for a lock.
BeginTransaction(c) ==
  /\ step[c] = "begin" /\ free > 0
  /\ free' = free - 1
  /\ Goto(c, "lock")
  /\ UNCHANGED <<tableVars, joined, answer, waitedInVain, auditFailed, lostTx>>

\* Mutant: conversations.order_id is not UNIQUE.
OrderIdShared(c) == TRUE

\* UNIQUE (order_id): the INSERT waits for a transaction that has inserted.
OrderIdFree(c) ==
  /\ conversation = {}
  /\ \A d \in Creators \ {c} : step[d] \notin {"inserted", "audit", "commit"}

InsertConversation(c) ==
  /\ c \in Creators /\ step[c] = "lock"
  /\ OrderIdFree(c)
  /\ Goto(c, "inserted")
  /\ UNCHANGED <<free, tableVars, joined, answer, waitedInVain, auditFailed, lostTx>>

InsertParticipants(c) ==
  /\ step[c] = "inserted"
  /\ joined' = [joined EXCEPT ![c] = {"customer", "seller"}]
  /\ Goto(c, "audit")
  /\ UNCHANGED <<free, tableVars, answer, waitedInVain, auditFailed, lostTx>>

\* 23505: PostgreSQL has aborted the transaction, so that the findOne of the
\* catch fails in its turn; it is that error that leaves, and rolls back.
DuplicateConversation(c) ==
  /\ c \in Creators /\ step[c] = "lock" /\ conversation # {}
  /\ Goto(c, "failed")
  /\ free' = free + 1
  /\ UNCHANGED <<tableVars, joined, answer, waitedInVain, auditFailed, lostTx>>

\* A send gets the lock of the conversation row.
LockRow(c) ==
  /\ c \in Writers /\ step[c] = "lock"
  /\ \A d \in Writers \ {c} : step[d] \notin {"audit", "commit"}
  /\ Goto(c, "audit")
  /\ UNCHANGED <<free, tableVars, joined, answer, waitedInVain, auditFailed, lostTx>>

\* Mutant: audit.log creates its row and does not save it.
AuditUnsaved(c) == audited

\* await this.repo.save(this.repo.create(input))
AuditSaved(c) == audited \cup {c}

\* audit.log saves its row on a connection of its own, in a transaction of
\* its own.
Audit(c) ==
  /\ step[c] = "audit" /\ free > 0
  /\ audited' = AuditSaved(c)
  /\ Goto(c, "commit")
  /\ UNCHANGED <<free, conversation, participants, joined, answer, waitedInVain, auditFailed,
                 lostTx>>

\* Mutant: the pool has no connectionTimeoutMillis.
AuditNeverGivesUp(c) == FALSE

\* The pool is exhausted, and the wait ends with an error that log() swallows.
AuditGivesUp(c) == free = 0

AuditTimeout(c) ==
  /\ step[c] = "audit" /\ AuditGivesUp(c)
  /\ waitedInVain' = waitedInVain \cup {c}
  /\ Goto(c, "commit")
  /\ UNCHANGED <<free, tableVars, joined, answer, auditFailed, lostTx>>

\* The save fails for another reason, a lost connection or a failed INSERT, and
\* log() swallows that error too; a connection lost after the INSERT has left
\* the row behind.
AuditFails(c) ==
  /\ step[c] = "audit" /\ free > 0
  /\ Cardinality(auditFailed) < MaxAuditFaults
  /\ auditFailed' = auditFailed \cup {c}
  /\ audited' \in {audited, AuditSaved(c)}
  /\ Goto(c, "commit")
  /\ UNCHANGED <<free, conversation, participants, joined, answer, waitedInVain, lostTx>>

CommitTransaction(c) ==
  /\ step[c] = "commit"
  /\ IF c \in Creators
       THEN /\ conversation' = conversation \cup {c}
            /\ participants' = participants \cup joined[c]
            /\ answer' = [answer EXCEPT ![c] = {c}]
       ELSE UNCHANGED <<conversation, participants, answer>>
  /\ free' = free + 1
  /\ Goto(c, "done")
  /\ UNCHANGED <<audited, joined, waitedInVain, auditFailed, lostTx>>

\* The query runner is released in a finally; the pool replaces a dead connection.
LoseTransaction(c) ==
  /\ step[c] \in {"lock", "inserted", "audit", "commit"}
  /\ Cardinality(lostTx) < MaxLostTx
  /\ lostTx' = lostTx \cup {c}
  /\ free' = free + 1
  /\ Goto(c, "failed")
  /\ UNCHANGED <<tableVars, joined, answer, waitedInVain, auditFailed>>

-----------------------------------------------------------------------------

\* What a call does by itself: the pool and PostgreSQL serve who waits.
CallProceeds(c) ==
  \/ PoolTimeout(c) \/ FindExisting(c) \/ FindNothing(c) \/ BeginTransaction(c)
  \/ InsertConversation(c) \/ InsertParticipants(c) \/ DuplicateConversation(c)
  \/ LockRow(c) \/ Audit(c) \/ AuditTimeout(c) \/ CommitTransaction(c)

ConversationsNext ==
  \E c \in Calls :
    \/ CallArrives(c) \/ CallProceeds(c)
    \/ FindFails(c) \/ AuditFails(c) \/ LoseTransaction(c)

ConversationsSpec == ConversationsInit /\ [][ConversationsNext]_conversationsVars

ConversationsFairness == \A c \in Calls : WF_conversationsVars(CallProceeds(c))

InTransaction == {c \in Calls : step[c] \in {"lock", "inserted", "audit", "commit"}}

\* Types, and the pool: every connection is free or held by a transaction.
ConversationsTypeOK ==
  /\ step \in [Calls -> {"new", "find", "begin", "lock", "inserted", "audit", "commit",
                         "done", "failed"}]
  /\ free \in 0..PoolMax
  /\ conversation \subseteq Creators /\ participants \subseteq {"customer", "seller"}
  /\ joined \in [Calls -> SUBSET {"customer", "seller"}]
  /\ answer \in [Calls -> SUBSET Creators]
  /\ audited \cup waitedInVain \cup auditFailed \cup lostTx \subseteq Calls
  /\ free + Cardinality(InTransaction) = PoolMax

\* "Récupère ou crée la conversation associée à une commande. Garantit
\* l'unicité même en cas de concurrence": there is one conversation, whole,
\* and every creation that is answered is answered with it.
OneConversation ==
  /\ Cardinality(conversation) <= 1
  /\ conversation # {} => participants = {"customer", "seller"}
  /\ \A c \in Creators : step[c] = "done" => answer[c] = conversation /\ answer[c] # {}

\* "Ne jamais bloquer la requête principale sur un échec d'audit": what was
\* committed without an audit row found the pool exhausted or failed to save
\* it, and nothing else loses one; a row without what it reports is of a
\* transaction that was lost or is about to commit.
AuditGapsExplained ==
  \A c \in Calls :
    /\ step[c] = "done" /\ c \notin audited =>
         c \in waitedInVain \cup auditFailed \/ (c \in Creators /\ c \notin conversation)
    /\ c \in audited => step[c] \in {"commit", "done"} \/ c \in lostTx

\* Calls that hold a connection and wait for a lock, and calls that hold the
\* lock and wait for a connection, all end.
EveryCallEnds ==
  \A c \in Calls : step[c] = "find" ~> step[c] \in {"done", "failed"}

\* "Récupère ou crée", and the catch of 23505 that reads the conversation of
\* the other creation: a call that neither lost its connection nor found the
\* pool exhausted returns a conversation.
CreationReturnsIt ==
  \A c \in Creators :
    step[c] = "failed" => c \in lostTx \cup waitedInVain
=============================================================================
