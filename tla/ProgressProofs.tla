--------------------------- MODULE ProgressProofs ---------------------------
(***************************************************************************)
(* Proofs about Conversations and Delivery, for any number of calls and    *)
(* connections, of gateways, events, deliveries and faults, and about the  *)
(* sum MCProgress that TLC explores.                                       *)
(*                                                                         *)
(* There is one conversation for the order, whoever is answered is         *)
(* answered with it, and the audit rows that are missing are explained;    *)
(* what a gateway acknowledges was emitted, and nothing is emitted more    *)
(* often than it was delivered.                                            *)
(***************************************************************************)
EXTENDS MCProgress, TwoCopiesProofs, SequenceTheorems, FiniteSetTheorems, TLAPS

-----------------------------------------------------------------------------
(* Conversations *)

Steps == {"new", "find", "begin", "lock", "inserted", "audit", "commit", "done", "failed"}

Both == {"customer", "seller"}

\* The types of what calls and tables hold; the pool is counted elsewhere.
CallTypes ==
  /\ step \in [Calls -> Steps]
  /\ conversation \subseteq Creators
  /\ joined \in [Calls -> SUBSET Both] /\ answer \in [Calls -> SUBSET Creators]

\* The transactions that have inserted the conversation and not ended.
Inserter(c) == c \in Creators /\ step[c] \in {"inserted", "audit", "commit"}

\* UNIQUE (order_id): one of them at most, and none once there is a row.
UniqueOrder ==
  /\ \A c, d \in Creators : Inserter(c) /\ Inserter(d) => c = d
  /\ \A c \in Creators : Inserter(c) => conversation = {}
  /\ \A c, d \in conversation : c = d

\* A conversation is whole: it is committed together with its participants.
WholeConversation ==
  /\ \A c \in Creators : step[c] \in {"audit", "commit"} => joined[c] = Both
  /\ participants = IF conversation = {} THEN {} ELSE Both

\* Whoever has been answered knows the conversation; only creations add one.
AnsweredWithIt ==
  \A c \in Creators : step[c] = "done" => answer[c] = conversation /\ answer[c] # {}

ConversationInv == CallTypes /\ UniqueOrder /\ WholeConversation /\ AnsweredWithIt

\* Nothing is there at the start.
LEMMA ConversationInvInit == ConversationsInit => ConversationInv
<1> SUFFICES ASSUME ConversationsInit PROVE ConversationInv
  OBVIOUS
<1> USE DEF ConversationsInit
<1>1. CallTypes
  BY DEF CallTypes, Steps
<1>2. UniqueOrder /\ WholeConversation /\ AnsweredWithIt
  BY DEF UniqueOrder, Inserter, WholeConversation, AnsweredWithIt, Calls
<1> QED
  BY <1>1, <1>2 DEF ConversationInv

\* A call that goes on without inserting, committing or being answered, and
\* that does not leave a transaction with the participants it has yet to add,
\* disturbs nothing.
LEMMA CallMoves ==
  ASSUME ConversationInv, NEW c \in Calls, NEW s \in Steps, Goto(c, s),
         UNCHANGED <<conversation, participants, joined, answer>>,
         c \in Creators => s # "done",
         c \in Creators /\ s \in {"inserted", "audit", "commit"} => Inserter(c),
         c \in Creators /\ s = "audit" => joined[c] = Both,
         c \in Creators /\ s = "commit" => step[c] \in {"audit", "commit"},
         s # "inserted"
  PROVE  ConversationInv'
<1> USE DEF ConversationInv
<1>1. CallTypes'
  BY DEF CallTypes, Goto
<1>2. \A d \in Creators : Inserter(d)' => Inserter(d)
  BY DEF Goto, Inserter, CallTypes, Calls
<1>3. UniqueOrder'
  BY <1>2 DEF UniqueOrder
<1>4. WholeConversation'
  <2>1. ASSUME NEW d \in Creators, step'[d] \in {"audit", "commit"} PROVE joined'[d] = Both
    <3>1. CASE d = c
      BY <2>1, <3>1 DEF Goto, CallTypes, Calls, WholeConversation
    <3>2. CASE d # c
      BY <2>1, <3>2 DEF Goto, CallTypes, Calls, WholeConversation
    <3> QED
      BY <3>1, <3>2
  <2> QED
    BY <2>1 DEF WholeConversation
<1>5. AnsweredWithIt'
  BY DEF AnsweredWithIt, Goto, CallTypes, Calls
<1> QED
  BY <1>1, <1>3, <1>4, <1>5

\* Every step of a call keeps the invariant.
LEMMA ConversationInvStep ==
  ConversationInv /\ [ConversationsNext]_conversationsVars => ConversationInv'
<1> SUFFICES ASSUME ConversationInv, [ConversationsNext]_conversationsVars
             PROVE  ConversationInv'
  OBVIOUS
<1>a. Creators \cap Writers = {}
  BY ConversationsAssumption
<1> USE <1>a DEF Steps, tableVars
<1>1. ASSUME NEW c \in Calls, CallArrives(c) PROVE ConversationInv'
  BY <1>1, CallMoves DEF CallArrives
<1>2. ASSUME NEW c \in Calls, PoolTimeout(c) PROVE ConversationInv'
  BY <1>2, CallMoves DEF PoolTimeout
<1>3. ASSUME NEW c \in Calls, FindExisting(c) PROVE ConversationInv'
  <2>1. CASE c \in Creators
    BY <1>3, <2>1 DEF FindExisting, Goto, ConversationInv, CallTypes, UniqueOrder,
                      Inserter, WholeConversation, AnsweredWithIt, Calls
  <2>2. CASE c \notin Creators
    BY <1>3, <2>2, CallMoves DEF FindExisting
  <2> QED
    BY <2>1, <2>2
<1>4. ASSUME NEW c \in Calls, FindNothing(c) PROVE ConversationInv'
  <2>1. CASE c \in Creators
    BY <1>4, <2>1, CallMoves DEF FindNothing
  <2>2. CASE c \notin Creators
    BY <1>4, <2>2, CallMoves DEF FindNothing
  <2> QED
    BY <2>1, <2>2
<1>5. ASSUME NEW c \in Calls, BeginTransaction(c) PROVE ConversationInv'
  BY <1>5, CallMoves DEF BeginTransaction
<1>6. ASSUME NEW c \in Calls, InsertConversation(c) PROVE ConversationInv'
  <2> USE <1>6 DEF InsertConversation, Goto, ConversationInv
  <2>1. CallTypes'
    BY DEF CallTypes
  <2>2. conversation = {} /\ \A d \in Creators \ {c} : ~Inserter(d)
    BY DEF OrderIdFree, Inserter
  <2>3. UniqueOrder'
    BY <2>2 DEF UniqueOrder, Inserter, CallTypes, Calls
  <2>4. WholeConversation' /\ AnsweredWithIt'
    BY DEF WholeConversation, AnsweredWithIt, CallTypes, Calls
  <2> QED
    BY <2>1, <2>3, <2>4
<1>7. ASSUME NEW c \in Calls, InsertParticipants(c) PROVE ConversationInv'
  <2> USE <1>7 DEF InsertParticipants, Goto, ConversationInv
  <2>1. CallTypes'
    BY DEF CallTypes, Both
  <2>2. UniqueOrder'
    BY DEF UniqueOrder, Inserter, CallTypes, Calls
  <2>3. WholeConversation' /\ AnsweredWithIt'
    BY DEF WholeConversation, AnsweredWithIt, CallTypes, Calls, Both
  <2> QED
    BY <2>1, <2>2, <2>3
<1>8. ASSUME NEW c \in Calls, DuplicateConversation(c) PROVE ConversationInv'
  BY <1>8, CallMoves DEF DuplicateConversation
<1>9. ASSUME NEW c \in Calls, LockRow(c) PROVE ConversationInv'
  BY <1>9, CallMoves DEF LockRow
<1>10. ASSUME NEW c \in Calls, Audit(c) \/ AuditTimeout(c) \/ AuditFails(c)
       PROVE  ConversationInv'
  BY <1>10, CallMoves DEF Audit, AuditTimeout, AuditFails, Inserter
<1>11. ASSUME NEW c \in Calls, CommitTransaction(c) PROVE ConversationInv'
  <2> USE <1>11 DEF CommitTransaction, Goto, ConversationInv
  <2>1. CASE c \in Creators
    <3>1. conversation = {} /\ conversation' = {c} /\ participants' = Both
      BY <2>1 DEF UniqueOrder, Inserter, WholeConversation
    <3>2. CallTypes'
      BY <2>1, <3>1 DEF CallTypes
    <3>3. UniqueOrder'
      BY <2>1, <3>1 DEF UniqueOrder, Inserter, CallTypes, Calls
    <3>4. WholeConversation'
      BY <3>1 DEF WholeConversation, CallTypes, Calls
    <3>5. AnsweredWithIt'
      BY <2>1, <3>1 DEF AnsweredWithIt, CallTypes, Calls
    <3> QED
      BY <3>2, <3>3, <3>4, <3>5
  <2>2. CASE c \notin Creators
    BY <2>2 DEF CallTypes, UniqueOrder, Inserter, WholeConversation, AnsweredWithIt, Calls
  <2> QED
    BY <2>1, <2>2
<1>12. ASSUME NEW c \in Calls, LoseTransaction(c) \/ FindFails(c) PROVE ConversationInv'
  BY <1>12, CallMoves DEF LoseTransaction, FindFails
<1>13. CASE UNCHANGED conversationsVars
  BY <1>13 DEF conversationsVars, ConversationInv, CallTypes, UniqueOrder, Inserter,
               WholeConversation, AnsweredWithIt
<1> QED
  BY <1>1, <1>2, <1>3, <1>4, <1>5, <1>6, <1>7, <1>8, <1>9, <1>10, <1>11, <1>12, <1>13
  DEF ConversationsNext, CallProceeds

\* getOrCreateForOrder creates one conversation at most, whole, and what it
\* answers is that one, for any number of creations and sends, whatever
\* transactions are lost and however small the pool is.
THEOREM OneConversationEver == ConversationsSpec => []OneConversation
<1>1. ConversationInv => OneConversation
  <2> SUFFICES ASSUME ConversationInv PROVE OneConversation
    OBVIOUS
  <2>1. Cardinality(conversation) <= 1
    <3>1. CASE conversation = {}
      BY <3>1, FS_EmptySet
    <3>2. CASE conversation # {}
      <4>1. PICK c \in conversation : conversation = {c}
        BY <3>2 DEF ConversationInv, UniqueOrder
      <4> QED
        BY <4>1, FS_Singleton
    <3> QED
      BY <3>1, <3>2
  <2> QED
    BY <2>1 DEF ConversationInv, WholeConversation, AnsweredWithIt, OneConversation, Both
<1> QED
  BY <1>1, ConversationInvInit, ConversationInvStep, PTL DEF ConversationsSpec

-----------------------------------------------------------------------------
(* The audit *)

\* What a call that is past its audit owes to it: a row, a wait in vain or a
\* save that failed.
\* Creations that found the conversation there have nothing to report.
AuditInv ==
  /\ CallTypes
  /\ \A c \in conversation : step[c] = "done"
  /\ \A c \in Calls : step[c] = "commit" /\ c \notin audited =>
       c \in waitedInVain \cup auditFailed
  /\ AuditGapsExplained

\* Nothing is audited at the start.
LEMMA AuditInvInit == ConversationsInit => AuditInv
BY ConversationInvInit
DEF ConversationsInit, AuditInv, AuditGapsExplained, ConversationInv

\* Every step keeps what missing audit rows are explained by.
LEMMA AuditInvStep ==
  AuditInv /\ ConversationInv /\ [ConversationsNext]_conversationsVars => AuditInv'
<1> SUFFICES ASSUME AuditInv, ConversationInv, [ConversationsNext]_conversationsVars
             PROVE  AuditInv'
  OBVIOUS
<1>a. Creators \cap Writers = {}
  BY ConversationsAssumption
<1>b. CallTypes'
  BY ConversationInvStep DEF ConversationInv
<1> USE <1>a, <1>b DEF tableVars, Goto, AuditInv, AuditGapsExplained, CallTypes, Calls
<1>1. ASSUME NEW c \in Calls,
             \/ CallArrives(c) \/ PoolTimeout(c) \/ FindNothing(c) \/ BeginTransaction(c)
             \/ InsertConversation(c) \/ InsertParticipants(c) \/ DuplicateConversation(c)
             \/ LockRow(c) \/ FindFails(c)
      PROVE  AuditInv'
  BY <1>1 DEF CallArrives, PoolTimeout, FindNothing, BeginTransaction, InsertConversation,
              InsertParticipants, DuplicateConversation, LockRow, FindFails
<1>2. ASSUME NEW c \in Calls, FindExisting(c) PROVE AuditInv'
  BY <1>2 DEF FindExisting
<1>3. ASSUME NEW c \in Calls, Audit(c) PROVE AuditInv'
  BY <1>3 DEF Audit, AuditSaved
<1>4. ASSUME NEW c \in Calls, AuditTimeout(c) \/ AuditFails(c) PROVE AuditInv'
  <2>1. CASE AuditTimeout(c)
    BY <2>1 DEF AuditTimeout
  <2>2. CASE AuditFails(c)
    BY <2>2 DEF AuditFails, AuditSaved
  <2> QED
    BY <1>4, <2>1, <2>2
<1>5. ASSUME NEW c \in Calls, CommitTransaction(c) PROVE AuditInv'
  BY <1>5 DEF CommitTransaction
<1>6. ASSUME NEW c \in Calls, LoseTransaction(c) PROVE AuditInv'
  BY <1>6 DEF LoseTransaction
<1>7. CASE UNCHANGED conversationsVars
  BY <1>7 DEF conversationsVars
<1> QED
  BY <1>1, <1>2, <1>3, <1>4, <1>5, <1>6, <1>7 DEF ConversationsNext, CallProceeds

\* log() swallows its failures, those of an exhausted pool and those of the save
\* itself, and nothing else loses an audit row; what it writes stands for a
\* transaction that commits or is lost.
THEOREM AuditGapsAreExplained == ConversationsSpec => []AuditGapsExplained
<1>1. AuditInv => AuditGapsExplained
  BY DEF AuditInv
<1> QED
  BY <1>1, ConversationInvInit, ConversationInvStep, AuditInvInit, AuditInvStep, PTL
  DEF ConversationsSpec

-----------------------------------------------------------------------------
(* The creations that fail *)

\* Where a creation that neither lost its connection nor waited in vain fails,
\* the conversation is there.
RefusedFoundIt ==
  \A c \in Creators : step[c] = "failed" /\ c \notin lostTx \cup waitedInVain =>
    conversation # {}

\* A creation fails by a timeout of the pool, with its connection, or on the
\* unique index, and a conversation is never removed.
LEMMA RefusedFoundItStep ==
  ConversationInv /\ RefusedFoundIt /\ [ConversationsNext]_conversationsVars => RefusedFoundIt'
<1> SUFFICES ASSUME ConversationInv, RefusedFoundIt, [ConversationsNext]_conversationsVars
             PROVE  RefusedFoundIt'
  OBVIOUS
<1>a. Creators \cap Writers = {}
  BY ConversationsAssumption
<1> USE <1>a DEF tableVars, Goto, ConversationInv, CallTypes, Calls, RefusedFoundIt
<1>1. ASSUME NEW c \in Calls,
             \/ CallArrives(c) \/ FindExisting(c) \/ FindNothing(c) \/ BeginTransaction(c)
             \/ InsertConversation(c) \/ InsertParticipants(c) \/ LockRow(c)
      PROVE  RefusedFoundIt'
  BY <1>1 DEF CallArrives, FindExisting, FindNothing, BeginTransaction, InsertConversation,
              InsertParticipants, LockRow
<1>2. ASSUME NEW c \in Calls, DuplicateConversation(c) PROVE RefusedFoundIt'
  BY <1>2 DEF DuplicateConversation
<1>3. ASSUME NEW c \in Calls,
             Audit(c) \/ AuditTimeout(c) \/ AuditFails(c) \/ CommitTransaction(c)
      PROVE  RefusedFoundIt'
  BY <1>3 DEF Audit, AuditTimeout, AuditFails, CommitTransaction
<1>4. ASSUME NEW c \in Calls, PoolTimeout(c) \/ FindFails(c) \/ LoseTransaction(c)
      PROVE  RefusedFoundIt'
  BY <1>4 DEF PoolTimeout, FindFails, LoseTransaction
<1>5. CASE UNCHANGED conversationsVars
  BY <1>5 DEF conversationsVars
<1> QED
  BY <1>1, <1>2, <1>3, <1>4, <1>5 DEF ConversationsNext, CallProceeds

\* What is left of CreationReturnsIt: a creation that fails without having lost
\* its connection, or found the pool exhausted, fails only when the conversation
\* of another creation is committed, so that getOrCreateForOrder called once
\* more finds it.  The 500 of a race is never the loss of the conversation.
THEOREM RefusedCreationsFindIt == ConversationsSpec => []RefusedFoundIt
<1>1. ConversationsInit => RefusedFoundIt
  BY DEF ConversationsInit, RefusedFoundIt, Calls
<1> QED
  BY <1>1, ConversationInvInit, ConversationInvStep, RefusedFoundItStep, PTL
  DEF ConversationsSpec

-----------------------------------------------------------------------------
(* The pool of connections *)

\* Who has audited, waited in vain, failed to audit or lost a connection.
Recorded == audited \cup waitedInVain \cup auditFailed \cup lostTx

\* Every connection is free or held by one transaction; the records are of calls.
PoolCounted ==
  /\ free \in Nat /\ IsFiniteSet(InTransaction)
  /\ free + Cardinality(InTransaction) = PoolMax
  /\ Recorded \subseteq Calls

\* All connections are free at the start.
LEMMA PoolCountedInit == ConversationsInit => PoolCounted
<1> SUFFICES ASSUME ConversationsInit PROVE PoolCounted
  OBVIOUS
<1>1. InTransaction = {}
  BY DEF ConversationsInit, InTransaction
<1>2. Cardinality(InTransaction) = 0 /\ IsFiniteSet(InTransaction)
  BY <1>1, FS_EmptySet
<1> QED
  BY <1>2, ConversationsAssumption DEF ConversationsInit, PoolCounted, Recorded

\* A call is in a transaction or not, according to where it goes.
LEMMA WhereItGoes ==
  ASSUME CallTypes, NEW c \in Calls, NEW s \in Steps, Goto(c, s)
  PROVE  InTransaction' = IF s \in {"lock", "inserted", "audit", "commit"}
                            THEN InTransaction \cup {c} ELSE InTransaction \ {c}
BY DEF CallTypes, Goto, InTransaction

\* A call that stays outside its transaction, or inside, moves no connection.
LEMMA PoolKept ==
  ASSUME CallTypes, PoolCounted, NEW c \in Calls, NEW s \in Steps, Goto(c, s),
         c \in InTransaction <=> s \in {"lock", "inserted", "audit", "commit"},
         free' = free, Recorded' \subseteq Calls
  PROVE  PoolCounted'
<1>1. InTransaction' = InTransaction
  BY WhereItGoes
<1> QED
  BY <1>1 DEF PoolCounted

\* A call that leaves its transaction gives its connection back.
LEMMA PoolReturned ==
  ASSUME CallTypes, PoolCounted, NEW c \in InTransaction, NEW s \in {"done", "failed"},
         Goto(c, s), free' = free + 1, Recorded' \subseteq Calls
  PROVE  PoolCounted'
<1>1. InTransaction' = InTransaction \ {c}
  BY WhereItGoes DEF Steps, InTransaction
<1>2. IsFiniteSet(InTransaction') /\ Cardinality(InTransaction') = Cardinality(InTransaction) - 1
  BY <1>1, FS_RemoveElement DEF PoolCounted
<1>3. Cardinality(InTransaction) \in Nat
  BY FS_CardinalityType DEF PoolCounted
<1>4. free' \in Nat /\ free' + Cardinality(InTransaction') = PoolMax
  BY <1>2, <1>3 DEF PoolCounted
<1> QED
  BY <1>2, <1>4 DEF PoolCounted

\* A call that begins its transaction takes a connection that is free.
LEMMA PoolTaken ==
  ASSUME CallTypes, PoolCounted, NEW c \in Calls, BeginTransaction(c)
  PROVE  PoolCounted'
<1>1. InTransaction' = InTransaction \cup {c} /\ c \notin InTransaction
  BY WhereItGoes DEF BeginTransaction, Steps, InTransaction
<1>2. IsFiniteSet(InTransaction') /\ Cardinality(InTransaction') = Cardinality(InTransaction) + 1
  BY <1>1, FS_AddElement DEF PoolCounted
<1>3. Cardinality(InTransaction) \in Nat
  BY FS_CardinalityType DEF PoolCounted
<1>4. free' \in Nat /\ free' + Cardinality(InTransaction') = PoolMax
  BY <1>2, <1>3 DEF PoolCounted, BeginTransaction
<1> QED
  BY <1>2, <1>4 DEF PoolCounted, BeginTransaction, tableVars, Recorded

\* Every step of a call leaves the connections counted.
LEMMA PoolCountedStep ==
  CallTypes /\ PoolCounted /\ [ConversationsNext]_conversationsVars => PoolCounted'
<1> SUFFICES ASSUME CallTypes, PoolCounted, [ConversationsNext]_conversationsVars
             PROVE  PoolCounted'
  OBVIOUS
<1>a. Recorded \subseteq Calls
  BY DEF PoolCounted
<1> USE <1>a DEF Steps, tableVars
<1>1. ASSUME NEW c \in Calls,
             CallArrives(c) \/ PoolTimeout(c) \/ FindExisting(c) \/ FindNothing(c) \/ FindFails(c)
      PROVE  PoolCounted'
  <2>1. /\ c \notin InTransaction
        /\ \E s \in {"find", "begin", "done", "failed"} : Goto(c, s)
    BY <1>1 DEF CallArrives, PoolTimeout, FindExisting, FindNothing, FindFails, InTransaction
  <2>2. free' = free /\ Recorded' \subseteq Calls
    BY <1>1 DEF CallArrives, PoolTimeout, FindExisting, FindNothing, FindFails, Recorded
  <2> QED
    BY <2>1, <2>2, PoolKept
<1>2. ASSUME NEW c \in Calls, BeginTransaction(c) PROVE PoolCounted'
  BY <1>2, PoolTaken
<1>3. ASSUME NEW c \in Calls,
             \/ InsertConversation(c) \/ InsertParticipants(c) \/ LockRow(c)
             \/ Audit(c) \/ AuditTimeout(c) \/ AuditFails(c)
      PROVE  PoolCounted'
  <2>1. /\ c \in InTransaction
        /\ \E s \in {"inserted", "audit", "commit"} : Goto(c, s)
    BY <1>3 DEF InsertConversation, InsertParticipants, LockRow, Audit, AuditTimeout,
                AuditFails, InTransaction
  <2>2. free' = free /\ Recorded' \subseteq Calls
    BY <1>3 DEF InsertConversation, InsertParticipants, LockRow, Audit, AuditTimeout,
                AuditFails, AuditSaved, Recorded
  <2> QED
    BY <2>1, <2>2, PoolKept
<1>4. ASSUME NEW c \in Calls,
             DuplicateConversation(c) \/ CommitTransaction(c) \/ LoseTransaction(c)
      PROVE  PoolCounted'
  <2>1. /\ c \in InTransaction /\ free' = free + 1
        /\ \E s \in {"done", "failed"} : Goto(c, s)
    BY <1>4 DEF DuplicateConversation, CommitTransaction, LoseTransaction, InTransaction
  <2>2. Recorded' \subseteq Calls
    BY <1>4 DEF DuplicateConversation, CommitTransaction, LoseTransaction, Recorded
  <2> QED
    BY <2>1, <2>2, PoolReturned
<1>5. CASE UNCHANGED conversationsVars
  <2>1. UNCHANGED InTransaction
    BY <1>5 DEF conversationsVars, InTransaction
  <2> QED
    BY <1>5, <2>1 DEF conversationsVars, PoolCounted, Recorded
<1> QED
  BY <1>1, <1>2, <1>3, <1>4, <1>5 DEF ConversationsNext, CallProceeds

\* No connection is leaked or given back twice, whichever calls find the
\* conversation there, are refused by its UNIQUE column, wait in vain for a
\* second connection or lose their transaction.
THEOREM ConversationTypesAreCorrect == ConversationsSpec => []ConversationsTypeOK
<1>1. ConversationInv /\ PoolCounted => ConversationsTypeOK
  <2> SUFFICES ASSUME ConversationInv, PoolCounted PROVE ConversationsTypeOK
    OBVIOUS
  <2>1. free \in 0..PoolMax
    <3>1. Cardinality(InTransaction) \in Nat
      BY FS_CardinalityType DEF PoolCounted
    <3> QED
      BY <3>1, ConversationsAssumption DEF PoolCounted
  <2>2. participants \subseteq Both
    BY DEF ConversationInv, WholeConversation
  <2> QED
    BY <2>1, <2>2 DEF ConversationsTypeOK, ConversationInv, CallTypes, PoolCounted, Recorded,
                      Steps, Both
<1>2. ConversationInv => CallTypes
  BY DEF ConversationInv
<1> QED
  BY <1>1, <1>2, ConversationInvInit, ConversationInvStep, PoolCountedInit, PoolCountedStep, PTL
  DEF ConversationsSpec

-----------------------------------------------------------------------------
(* Delivery *)

States == {"none", "row", "stream", "pending", "acked", "exhausted", "skipped"}

\* The types of the backend and of the stream, and those of the gateways.
StreamTypes ==
  /\ dedicated \in BOOLEAN /\ consumer \in BOOLEAN
  /\ event \in [Events -> States]
  /\ tries \in [Events -> Nat] /\ breaks \in Nat
  /\ calls \in [Events -> Nat] /\ replays \in [Events -> Nat]
  /\ emitted \in [Events -> Nat]

QueueTypes ==
  /\ queue \in [Gateways -> Seq(Events)]
  /\ handled \in [Gateways -> BOOLEAN]

DeliveryTypes == StreamTypes /\ QueueTypes

\* Nothing is delivered at the start.
LEMMA DeliveryTypesInit == DeliveryInit => DeliveryTypes
<1> SUFFICES ASSUME DeliveryInit PROVE DeliveryTypes
  OBVIOUS
<1>1. StreamTypes
  BY DEF DeliveryInit, StreamTypes, States
<1>2. <<>> \in Seq(Events)
  BY EmptySeq
<1>3. QueueTypes
  BY <1>2 DEF DeliveryInit, QueueTypes
<1> QED
  BY <1>1, <1>3 DEF DeliveryTypes

\* Every step keeps the types.
LEMMA DeliveryTypesStep == DeliveryTypes /\ [DeliveryNext]_deliveryVars => DeliveryTypes'
<1> SUFFICES ASSUME DeliveryTypes, [DeliveryNext]_deliveryVars PROVE DeliveryTypes'
  OBVIOUS
<1> USE DEF DeliveryTypes, StreamTypes, streamVars, gatewayVars, States, Emit
<1>1. ASSUME NEW e \in Events, CommitEvent(e) PROVE DeliveryTypes'
  BY <1>1 DEF CommitEvent, QueueTypes
<1>2. ASSUME NEW e \in Events, PublishCreated(e) PROVE DeliveryTypes'
  <2>1. emitted' \in [Events -> Nat]
    BY <1>2 DEF PublishCreated
  <2>2. calls' \in [Events -> Nat]
    BY <1>2 DEF PublishCreated
  <2> QED
    BY <1>2, <2>1, <2>2 DEF PublishCreated, QueueTypes
<1>3. ASSUME NEW e \in Events, ReplayKey(e) \/ LoseCall(e) \/ PublishRow(e)
      PROVE  DeliveryTypes'
  <2>0. CASE ReplayKey(e)
    BY <2>0 DEF ReplayKey, QueueTypes
  <2>1. CASE LoseCall(e)
    BY <2>1 DEF LoseCall, QueueTypes
  <2>2. CASE PublishRow(e)
    BY <2>2 DEF PublishRow, QueueTypes
  <2> QED
    BY <1>3, <2>0, <2>1, <2>2
<1>4. CASE CreateConsumer
  BY <1>4 DEF CreateConsumer, QueueTypes
<1>5. ASSUME NEW g \in Gateways, NEW e \in Events, Deliver(g, e) PROVE DeliveryTypes'
  <2>1. StreamTypes'
    BY <1>5 DEF Deliver
  <2>2. Append(queue[g], e) \in Seq(Events)
    BY AppendProperties DEF QueueTypes
  <2>3. QueueTypes'
    BY <1>5, <2>2 DEF Deliver, QueueTypes
  <2> QED
    BY <2>1, <2>3
<1>6. ASSUME NEW g \in Gateways, queue[g] # <<>> PROVE Head(queue[g]) \in Events
  BY <1>6, HeadTailProperties DEF QueueTypes
<1>7. ASSUME NEW g \in Gateways, queue[g] # <<>>, NextEvent(g) PROVE QueueTypes'
  <2>1. Tail(queue[g]) \in Seq(Events)
    BY <1>7, HeadTailProperties DEF QueueTypes
  <2> QED
    BY <1>7, <2>1 DEF NextEvent, QueueTypes
<1>8. ASSUME NEW g \in Gateways, HandleEvent(g) PROVE DeliveryTypes'
  BY <1>6, <1>8 DEF HandleEvent, QueueTypes
<1>9. ASSUME NEW g \in Gateways, Ack(g) PROVE DeliveryTypes'
  <2>1. StreamTypes'
    BY <1>6, <1>9 DEF Ack
  <2> QED
    BY <1>7, <1>9, <2>1 DEF Ack
<1>10. ASSUME NEW g \in Gateways, HandlerThrows(g) PROVE DeliveryTypes'
  <2>1. StreamTypes'
    BY <1>6, <1>10 DEF HandlerThrows, AfterNak, Again
  <2> QED
    BY <1>7, <1>10, <2>1 DEF HandlerThrows
<1>11. ASSUME NEW e \in Events, AckWait(e) \/ SlowAck(e) PROVE DeliveryTypes'
  <2>1. AfterAckWait(e) \in States
    BY DEF AfterAckWait, Again
  <2>2. CASE AckWait(e)
    BY <2>1, <2>2 DEF AckWait, QueueTypes
  <2>3. CASE SlowAck(e)
    BY <2>1, <2>3 DEF SlowAck, QueueTypes
  <2> QED
    BY <1>11, <2>2, <2>3
<1>12. ASSUME NEW g \in Gateways, GatewayDies(g) PROVE DeliveryTypes'
  BY <1>12, EmptySeq DEF GatewayDies, QueueTypes
<1>13. CASE UNCHANGED deliveryVars
  BY <1>13 DEF deliveryVars, QueueTypes
<1> QED
  BY <1>1, <1>2, <1>3, <1>4, <1>5, <1>8, <1>9, <1>10, <1>11, <1>12, <1>13
  DEF DeliveryNext, Move, Consume

-----------------------------------------------------------------------------
(* Deliveries are counted, and bounded *)

\* An event that has not left the stream has its deliveries before it, and
\* one that no gateway was ever given is in no queue.
DeliveriesCounted ==
  \A e \in Events :
    /\ tries[e] <= MaxDeliver
    /\ event[e] \in {"none", "row"} => tries[e] = 0
    /\ event[e] = "stream" => tries[e] < MaxDeliver
    /\ tries[e] = 0 => e \notin Held

\* What is taken off a queue was in it.
LEMMA HeldLess ==
  ASSUME DeliveryTypes, NEW g \in Gateways, queue[g] # <<>>, NextEvent(g)
  PROVE  Held' \subseteq Held /\ Head(queue[g]) \in Held
<1>1. queue[g] \in Seq(Events) /\ queue \in [Gateways -> Seq(Events)]
  BY DEF DeliveryTypes, QueueTypes
<1>2. /\ Len(queue[g]) \in Nat /\ Len(queue[g]) >= 1 /\ queue[g][1] = Head(queue[g])
      /\ Len(Tail(queue[g])) = Len(queue[g]) - 1 /\ Head(queue[g]) \in Events
      /\ \A i \in 1..Len(Tail(queue[g])) : Tail(queue[g])[i] = queue[g][i + 1]
  BY <1>1, HeadTailProperties, LenProperties, EmptySeq
<1>3. Head(queue[g]) \in Held
  BY <1>2 DEF Held, Contains
<1>4. ASSUME NEW d \in Held' PROVE d \in Held
  <2>1. PICK h \in Gateways : Contains(queue'[h], d)
    BY DEF Held
  <2>2. CASE h = g
    <3>1. PICK i \in 1..Len(Tail(queue[g])) : Tail(queue[g])[i] = d
      BY <1>1, <2>1, <2>2 DEF Contains, NextEvent
    <3>2. i + 1 \in 1..Len(queue[g]) /\ queue[g][i + 1] = d
      BY <1>2, <3>1
    <3> QED
      BY <3>2 DEF Held, Contains
  <2>3. CASE h # g
    BY <1>1, <2>1, <2>3 DEF Held, NextEvent
  <2> QED
    BY <2>2, <2>3
<1> QED
  BY <1>3, <1>4

\* What is put into a queue has been delivered.
LEMMA HeldMore ==
  ASSUME DeliveryTypes, NEW g \in Gateways, NEW e \in Events, Deliver(g, e)
  PROVE  Held' \subseteq Held \cup {e}
<1>1. queue[g] \in Seq(Events) /\ queue \in [Gateways -> Seq(Events)]
  BY DEF DeliveryTypes, QueueTypes
<1>2. /\ Len(queue[g]) \in Nat /\ Len(Append(queue[g], e)) = Len(queue[g]) + 1
      /\ Append(queue[g], e)[Len(queue[g]) + 1] = e
      /\ \A i \in 1..Len(queue[g]) : Append(queue[g], e)[i] = queue[g][i]
  BY <1>1, AppendProperties, LenProperties
<1> SUFFICES ASSUME NEW d \in Held', d # e PROVE d \in Held
  OBVIOUS
<1>3. PICK h \in Gateways : Contains(queue'[h], d)
  BY DEF Held
<1>4. CASE h = g
  <2>1. PICK i \in 1..Len(Append(queue[g], e)) : Append(queue[g], e)[i] = d
    BY <1>1, <1>3, <1>4 DEF Contains, Deliver
  <2>2. i \in 1..Len(queue[g])
    BY <1>2, <2>1
  <2>3. queue[g][i] = d
    BY <1>2, <2>1, <2>2
  <2> QED
    BY <2>2, <2>3 DEF Held, Contains
<1>5. CASE h # g
  BY <1>1, <1>3, <1>5 DEF Held, Deliver
<1> QED
  BY <1>4, <1>5

\* An event goes back to the stream only if it has deliveries left.
LEMMA AgainIsBounded ==
  ASSUME DeliveryTypes, DeliveriesCounted, NEW e \in Events
  PROVE  /\ Again(e) \in {"stream", "exhausted"}
         /\ Again(e) = "stream" => tries[e] < MaxDeliver
BY DEF Again

\* Every step keeps the counts.
LEMMA DeliveriesCountedStep ==
  DeliveryTypes /\ DeliveriesCounted /\ [DeliveryNext]_deliveryVars => DeliveriesCounted'
<1> SUFFICES ASSUME DeliveryTypes, DeliveriesCounted, [DeliveryNext]_deliveryVars
             PROVE  DeliveriesCounted'
  OBVIOUS
<1> USE DEF DeliveryTypes, StreamTypes, streamVars, gatewayVars, States
<1>0. ASSUME UNCHANGED queue PROVE UNCHANGED Held
  BY <1>0 DEF Held
<1>1. ASSUME NEW e \in Events,
             \/ CommitEvent(e) \/ ReplayKey(e) \/ PublishCreated(e) \/ LoseCall(e)
             \/ PublishRow(e)
      PROVE  DeliveriesCounted'
  BY <1>0, <1>1, DeliveryAssumption
  DEF CommitEvent, ReplayKey, PublishCreated, LoseCall, PublishRow, DeliveriesCounted
<1>2. CASE CreateConsumer
  BY <1>0, <1>2 DEF CreateConsumer, DeliveriesCounted
<1>3. ASSUME NEW g \in Gateways, NEW e \in Events, Deliver(g, e) PROVE DeliveriesCounted'
  <2>1. Held' \subseteq Held \cup {e}
    BY <1>3, HeldMore
  <2>2. /\ tries' = [tries EXCEPT ![e] = tries[e] + 1] /\ event[e] = "stream"
        /\ event' = [event EXCEPT ![e] = "pending"]
    BY <1>3 DEF Deliver
  <2>3. tries[e] < MaxDeliver /\ tries[e] \in Nat /\ MaxDeliver \in Nat
    BY <2>2, DeliveryAssumption DEF DeliveriesCounted
  <2> QED
    BY <2>1, <2>2, <2>3 DEF DeliveriesCounted
<1>4. ASSUME NEW g \in Gateways, HandleEvent(g) PROVE DeliveriesCounted'
  BY <1>0, <1>4 DEF HandleEvent, DeliveriesCounted
<1>5. ASSUME NEW g \in Gateways, Ack(g) PROVE DeliveriesCounted'
  <2>1. Held' \subseteq Held
    BY <1>5, HeldLess DEF Ack
  <2> QED
    BY <1>5, <2>1 DEF Ack, DeliveriesCounted
<1>6. ASSUME NEW g \in Gateways, HandlerThrows(g) PROVE DeliveriesCounted'
  <2>1. Held' \subseteq Held /\ Head(queue[g]) \in Events
    BY <1>6, HeldLess DEF HandlerThrows, Held
  <2> QED
    BY <1>6, <2>1, AgainIsBounded DEF HandlerThrows, AfterNak, DeliveriesCounted
<1>7. ASSUME NEW e \in Events, AckWait(e) \/ SlowAck(e) PROVE DeliveriesCounted'
  BY <1>0, <1>7, AgainIsBounded DEF AckWait, SlowAck, AfterAckWait, DeliveriesCounted
<1>8. ASSUME NEW g \in Gateways, GatewayDies(g) PROVE DeliveriesCounted'
  <2>1. Held' \subseteq Held
    <3>1. \A d : ~Contains(<<>>, d)
      BY DEF Contains
    <3> QED
      BY <1>8, <3>1 DEF Held, GatewayDies, QueueTypes
  <2> QED
    BY <1>8, <2>1 DEF GatewayDies, DeliveriesCounted
<1>9. CASE UNCHANGED deliveryVars
  BY <1>0, <1>9 DEF deliveryVars, DeliveriesCounted
<1> QED
  BY <1>1, <1>2, <1>3, <1>4, <1>5, <1>6, <1>7, <1>8, <1>9 DEF DeliveryNext, Move, Consume

\* An event is delivered max_deliver times at most, whoever naks it, is slow
\* or dies with it, and a gateway holds only what was delivered to it.
THEOREM DeliveryTypesAreCorrect == DeliverySpec => []DeliveryTypeOK
<1>1. DeliveryInit => DeliveriesCounted
  BY DeliveryAssumption, EmptySeq DEF DeliveryInit, DeliveriesCounted, Held, Contains
<1>2. DeliveryTypes /\ DeliveriesCounted => DeliveryTypeOK
  BY DeliveryAssumption
  DEF DeliveryTypes, StreamTypes, QueueTypes, States, DeliveriesCounted, DeliveryTypeOK
<1> QED
  BY <1>1, <1>2, DeliveryTypesInit, DeliveryTypesStep, DeliveriesCountedStep, PTL
  DEF DeliverySpec

-----------------------------------------------------------------------------
(* An acknowledged event was emitted *)

\* What a gateway is about to acknowledge it has emitted.
HandledWasEmitted ==
  \A g \in Gateways : handled[g] => queue[g] # <<>> /\ emitted[Head(queue[g])] >= 1

\* Every step keeps that, and what is acknowledged.
LEMMA EmittedStep ==
  DeliveryTypes /\ HandledWasEmitted /\ AckedWasEmitted /\ [DeliveryNext]_deliveryVars
    => (HandledWasEmitted /\ AckedWasEmitted)'
<1> SUFFICES ASSUME DeliveryTypes, HandledWasEmitted, AckedWasEmitted, [DeliveryNext]_deliveryVars
             PROVE  (HandledWasEmitted /\ AckedWasEmitted)'
  OBVIOUS
<1> USE DEF DeliveryTypes, StreamTypes, QueueTypes, HandledWasEmitted, AckedWasEmitted,
            streamVars, gatewayVars, Emit
<1>h. \A g \in Gateways : queue[g] # <<>> => Head(queue[g]) \in Events
  BY HeadTailProperties
<1>1. ASSUME NEW e \in Events,
             \/ CommitEvent(e) \/ ReplayKey(e) \/ LoseCall(e) \/ PublishRow(e) \/ AckWait(e)
             \/ SlowAck(e)
      PROVE  (HandledWasEmitted /\ AckedWasEmitted)'
  BY <1>1 DEF CommitEvent, ReplayKey, LoseCall, PublishRow, AckWait, SlowAck, AfterAckWait, Again
<1>2. ASSUME NEW e \in Events, PublishCreated(e)
      PROVE  (HandledWasEmitted /\ AckedWasEmitted)'
  <2>1. UNCHANGED <<event, queue, handled>>
    BY <1>2 DEF PublishCreated
  <2>2. CASE emitted' = [emitted EXCEPT ![e] = @ + 1]
    BY <1>h, <2>1, <2>2
  <2>3. CASE emitted' = emitted
    BY <2>1, <2>3
  <2> QED
    BY <1>2, <2>2, <2>3 DEF PublishCreated
<1>3. CASE CreateConsumer
  BY <1>3 DEF CreateConsumer
<1>4. ASSUME NEW g \in Gateways, NEW e \in Events, Deliver(g, e)
      PROVE  (HandledWasEmitted /\ AckedWasEmitted)'
  <2>1. \/ queue[g] = <<>>
        \/ Append(queue[g], e) # <<>> /\ Head(Append(queue[g], e)) = Head(queue[g])
    <3>1. queue[g] \in Seq(Events)
      OBVIOUS
    <3>2. Append(queue[g], e) # <<>>
      BY <3>1, AppendProperties
    <3>3. Head(Append(queue[g], e)) = IF queue[g] = <<>> THEN e ELSE Head(queue[g])
      BY <3>1, HeadTailAppend
    <3> QED
      BY <3>2, <3>3
  <2> QED
    BY <1>4, <2>1 DEF Deliver
<1>5. ASSUME NEW g \in Gateways, HandleEvent(g)
      PROVE  (HandledWasEmitted /\ AckedWasEmitted)'
  <2>1. /\ Head(queue[g]) \in Events /\ queue[g] # <<>> /\ UNCHANGED <<event, queue>>
        /\ emitted' = [emitted EXCEPT ![Head(queue[g])] = @ + 1]
        /\ handled' = [handled EXCEPT ![g] = TRUE]
    BY <1>h, <1>5 DEF HandleEvent
  <2>2. /\ \A e \in Events : emitted[e] >= 1 => emitted'[e] >= 1
        /\ emitted'[Head(queue[g])] >= 1
    BY <2>1
  <2>3. AckedWasEmitted'
    BY <2>1, <2>2
  <2>4. HandledWasEmitted'
    BY <1>h, <2>1, <2>2
  <2> QED
    BY <2>3, <2>4
<1>6. ASSUME NEW g \in Gateways, Ack(g)
      PROVE  (HandledWasEmitted /\ AckedWasEmitted)'
  BY <1>h, <1>6 DEF Ack, NextEvent
<1>7. ASSUME NEW g \in Gateways, HandlerThrows(g)
      PROVE  (HandledWasEmitted /\ AckedWasEmitted)'
  BY <1>h, <1>7 DEF HandlerThrows, NextEvent, AfterNak, Again
<1>8. ASSUME NEW g \in Gateways, GatewayDies(g)
      PROVE  (HandledWasEmitted /\ AckedWasEmitted)'
  BY <1>8 DEF GatewayDies
<1>9. CASE UNCHANGED deliveryVars
  BY <1>9 DEF deliveryVars
<1> QED
  BY <1>1, <1>2, <1>3, <1>4, <1>5, <1>6, <1>7, <1>8, <1>9 DEF DeliveryNext, Move, Consume

\* An event that the stream will not deliver again has been emitted, whatever
\* handlers throw, acknowledgements come late and gateways die.
THEOREM AckedEventsWereEmitted == DeliverySpec => []AckedWasEmitted
<1>1. DeliveryInit => HandledWasEmitted /\ AckedWasEmitted
  BY DEF DeliveryInit, HandledWasEmitted, AckedWasEmitted
<1> QED
  BY <1>1, DeliveryTypesInit, DeliveryTypesStep, EmittedStep, PTL DEF DeliverySpec
-----------------------------------------------------------------------------
(* Nothing is emitted more often than it was delivered *)

\* In legacy mode the gateways have nothing, and what has been emitted or is about
\* to be is owed to the send or to a replay of its key.
LegacyIsOnce ==
  ~dedicated =>
    /\ ~consumer /\ \A g \in Gateways : queue[g] = <<>>
    /\ \A e \in Events :
         emitted[e] + calls[e] <= IF event[e] = "none" THEN 0 ELSE 1 + replays[e]

\* Every step keeps that.
LEMMA LegacyStep ==
  DeliveryTypes /\ LegacyIsOnce /\ [DeliveryNext]_deliveryVars => LegacyIsOnce'
<1> SUFFICES ASSUME DeliveryTypes, LegacyIsOnce, [DeliveryNext]_deliveryVars PROVE LegacyIsOnce'
  OBVIOUS
<1> USE DEF DeliveryTypes, StreamTypes, LegacyIsOnce, streamVars, gatewayVars, Emit, States
<1>1. ASSUME NEW e \in Events, CommitEvent(e) PROVE LegacyIsOnce'
  BY <1>1 DEF CommitEvent
<1>2. ASSUME NEW e \in Events, PublishCreated(e) PROVE LegacyIsOnce'
  <2>1. CASE dedicated
    BY <1>2, <2>1 DEF PublishCreated
  <2>2. CASE ~dedicated
    BY <1>2, <2>2 DEF PublishCreated, BackendEmits
  <2> QED
    BY <2>1, <2>2
<1>0. ASSUME NEW e \in Events, ReplayKey(e) PROVE LegacyIsOnce'
  BY <1>0 DEF ReplayKey
<1>3. ASSUME NEW e \in Events, LoseCall(e) PROVE LegacyIsOnce'
  BY <1>3 DEF LoseCall
<1>4. ASSUME NEW e \in Events, PublishRow(e) PROVE LegacyIsOnce'
  BY <1>4 DEF PublishRow
<1>5. ASSUME NEW e \in Events, AckWait(e) PROVE LegacyIsOnce'
  BY <1>5 DEF AckWait, AfterAckWait, Again
<1>6. ASSUME NEW e \in Events, SlowAck(e) PROVE LegacyIsOnce'
  BY <1>6 DEF SlowAck, AfterAckWait, Again
<1>7. CASE CreateConsumer
  BY <1>7 DEF CreateConsumer
<1>8. ASSUME NEW g \in Gateways, NEW e \in Events, Deliver(g, e) PROVE LegacyIsOnce'
  BY <1>8 DEF Deliver
<1>9. ASSUME NEW g \in Gateways, HandleEvent(g) PROVE LegacyIsOnce'
  BY <1>9 DEF HandleEvent
<1>10. ASSUME NEW g \in Gateways, Ack(g) PROVE LegacyIsOnce'
  BY <1>10 DEF Ack
<1>11. ASSUME NEW g \in Gateways, HandlerThrows(g) PROVE LegacyIsOnce'
  BY <1>11 DEF HandlerThrows, AfterNak, Again
<1>12. ASSUME NEW g \in Gateways, GatewayDies(g) PROVE LegacyIsOnce'
  BY <1>12 DEF GatewayDies
<1>13. CASE UNCHANGED deliveryVars
  BY <1>13 DEF deliveryVars
<1> QED
  BY <1>0, <1>1, <1>2, <1>3, <1>4, <1>5, <1>6, <1>7, <1>8, <1>9, <1>10, <1>11, <1>12, <1>13
  DEF DeliveryNext, Move, Consume

\* Without a fault an event is delivered once, and held until it is acknowledged.
FaultlessIsOnce ==
  breaks = 0 => \A e \in Events :
    /\ tries[e] <= 1
    /\ event[e] \in {"none", "row", "stream", "skipped"} => tries[e] = 0
    /\ event[e] = "pending" => e \in Held

\* Every step keeps that.
LEMMA FaultlessStep ==
  DeliveryTypes /\ FaultlessIsOnce /\ [DeliveryNext]_deliveryVars => FaultlessIsOnce'
<1> SUFFICES ASSUME DeliveryTypes, FaultlessIsOnce, [DeliveryNext]_deliveryVars, breaks' = 0
             PROVE  \A e \in Events :
                      /\ tries'[e] <= 1
                      /\ event'[e] \in {"none", "row", "stream", "skipped"} => tries'[e] = 0
                      /\ event'[e] = "pending" => e \in Held'
  BY DEF FaultlessIsOnce
<1> USE DEF DeliveryTypes, StreamTypes, FaultlessIsOnce, streamVars, gatewayVars, Emit, States
<1> DEFINE Once(d) == /\ tries'[d] <= 1
                      /\ event'[d] \in {"none", "row", "stream", "skipped"} => tries'[d] = 0
                      /\ event'[d] = "pending" => d \in Held'
<1>0. ASSUME UNCHANGED queue PROVE UNCHANGED Held
  BY <1>0 DEF Held
<1>1. ASSUME NEW e \in Events,
             CommitEvent(e) \/ ReplayKey(e) \/ PublishCreated(e) \/ PublishRow(e)
      PROVE  \A d \in Events : Once(d)
  BY <1>0, <1>1 DEF CommitEvent, ReplayKey, PublishCreated, PublishRow
<1>2. ASSUME NEW e \in Events, LoseCall(e) \/ SlowAck(e) PROVE FALSE
  BY <1>2 DEF LoseCall, SlowAck
<1>3. ASSUME NEW e \in Events, AckWait(e) PROVE FALSE
  BY <1>3 DEF AckWait
<1>4. CASE CreateConsumer
  BY <1>0, <1>4 DEF CreateConsumer
<1>5. ASSUME NEW g \in Gateways, NEW e \in Events, Deliver(g, e)
      PROVE  \A d \in Events : Once(d)
  <2>1. queue[g] \in Seq(Events)
    BY DEF QueueTypes
  <2>2. /\ Len(queue[g]) \in Nat /\ Len(Append(queue[g], e)) = Len(queue[g]) + 1
        /\ Append(queue[g], e)[Len(queue[g]) + 1] = e
        /\ \A i \in 1..Len(queue[g]) : Append(queue[g], e)[i] = queue[g][i]
    BY <2>1, AppendProperties, LenProperties
  <2>3. queue' = [queue EXCEPT ![g] = Append(queue[g], e)] /\ queue \in [Gateways -> Seq(Events)]
    BY <1>5 DEF Deliver, QueueTypes
  <2>4. e \in Held'
    BY <2>2, <2>3 DEF Held, Contains
  <2>5. ASSUME NEW d \in Held PROVE d \in Held'
    <3>1. PICK h \in Gateways : Contains(queue[h], d)
      BY DEF Held
    <3>2. CASE h = g
      <4>1. PICK i \in 1..Len(queue[g]) : queue[g][i] = d
        BY <3>1, <3>2 DEF Contains
      <4>2. i \in 1..Len(Append(queue[g], e)) /\ Append(queue[g], e)[i] = d
        BY <2>2, <4>1
      <4>3. queue'[g] = Append(queue[g], e)
        BY <2>3
      <4>4. Contains(queue'[g], d)
        BY <4>2, <4>3 DEF Contains
      <4> QED
        BY <4>4 DEF Held
    <3>3. CASE h # g
      BY <2>3, <3>1, <3>3 DEF Held
    <3> QED
      BY <3>2, <3>3
  <2> QED
    BY <1>5, <2>4, <2>5 DEF Deliver
<1>6. ASSUME NEW g \in Gateways, HandleEvent(g) PROVE \A d \in Events : Once(d)
  BY <1>0, <1>6 DEF HandleEvent
<1>7. ASSUME NEW g \in Gateways, Ack(g) PROVE \A d \in Events : Once(d)
  <2>1. queue[g] \in Seq(Events) /\ queue[g] # <<>>
    BY <1>7 DEF Ack, QueueTypes
  <2>2. /\ Len(queue[g]) \in Nat /\ Len(Tail(queue[g])) = Len(queue[g]) - 1
        /\ \A i \in 1..Len(Tail(queue[g])) : Tail(queue[g])[i] = queue[g][i + 1]
        /\ Head(queue[g]) \in Events
    BY <2>1, HeadTailProperties, LenProperties
  <2>3. queue' = [queue EXCEPT ![g] = Tail(queue[g])] /\ queue \in [Gateways -> Seq(Events)]
    BY <1>7 DEF Ack, NextEvent, QueueTypes
  <2>4. ASSUME NEW d \in Held, d # Head(queue[g]) PROVE d \in Held'
    <3>1. PICK h \in Gateways : Contains(queue[h], d)
      BY DEF Held
    <3>2. CASE h = g
      <4>1. PICK i \in 1..Len(queue[g]) : queue[g][i] = d
        BY <3>1, <3>2 DEF Contains
      <4>2. i # 1
        BY <2>1, <2>4, <4>1
      <4>3. i - 1 \in 1..Len(Tail(queue[g])) /\ Tail(queue[g])[i - 1] = d
        BY <2>2, <4>1, <4>2
      <4> QED
        BY <2>3, <4>3 DEF Held, Contains
    <3>3. CASE h # g
      BY <2>3, <3>1, <3>3 DEF Held
    <3> QED
      BY <3>2, <3>3
  <2> QED
    BY <1>7, <2>2, <2>4 DEF Ack
<1>8. ASSUME NEW g \in Gateways, HandlerThrows(g) \/ GatewayDies(g) PROVE FALSE
  BY <1>8 DEF HandlerThrows, GatewayDies
<1>9. CASE UNCHANGED deliveryVars
  BY <1>0, <1>9 DEF deliveryVars
<1> QED
  BY <1>1, <1>2, <1>3, <1>4, <1>5, <1>6, <1>7, <1>8, <1>9 DEF DeliveryNext, Move, Consume

\* The copies of an event in the queues that no handler has returned for.
Copies(e) ==
  {c \in Gateways \X (Nat \ {0}) :
     /\ c[2] <= Len(queue[c[1]]) /\ queue[c[1]][c[2]] = e
     /\ ~(c[2] = 1 /\ handled[c[1]])}

\* Emissions, and copies that may still be emitted, are deliveries.
Paid(e) == IsFiniteSet(Copies(e)) /\ emitted[e] + Cardinality(Copies(e)) <= tries[e]
EmissionsArePaid == dedicated => \A e \in Events : Paid(e)

\* Fewer copies, no more emissions and no fewer deliveries leave an event paid.
LEMMA PaidSmaller ==
  ASSUME DeliveryTypes, DeliveryTypes', NEW e \in Events, Paid(e), Copies(e)' \subseteq Copies(e),
         emitted'[e] = emitted[e], tries'[e] = tries[e]
  PROVE  Paid(e)'
<1> DEFINE C == Copies(e)
           D == Copies(e)'
<1>1. IsFiniteSet(D) /\ Cardinality(D) <= Cardinality(C)
  <2> SUFFICES ASSUME IsFiniteSet(C), D \subseteq C
               PROVE  IsFiniteSet(D) /\ Cardinality(D) <= Cardinality(C)
    BY DEF Paid
  <2> HIDE DEF C, D
  <2> QED
    BY FS_Subset
<1>2. Cardinality(C) \in Nat /\ Cardinality(D) \in Nat
  BY <1>1, FS_CardinalityType DEF Paid
<1>3. emitted[e] \in Nat /\ tries[e] \in Nat
  BY DEF DeliveryTypes, StreamTypes
<1>4. emitted[e] + Cardinality(C) <= tries[e]
  BY DEF Paid
<1>5. emitted'[e] + Cardinality(D) <= tries'[e]
  <2> HIDE DEF C, D
  <2> QED
    BY <1>1, <1>2, <1>3, <1>4
<1> QED
  BY <1>1, <1>5 DEF Paid

\* A delivery pays for the copy it makes.
LEMMA PaidByDelivery ==
  ASSUME DeliveryTypes, DeliveryTypes', EmissionsArePaid, dedicated,
         NEW g \in Gateways, NEW e \in Events, Deliver(g, e), NEW d \in Events
  PROVE  Paid(d)'
<1>q. queue[g] \in Seq(Events) /\ queue \in [Gateways -> Seq(Events)]
  BY DEF DeliveryTypes, QueueTypes
<1>1. /\ Len(queue[g]) \in Nat /\ Len(Append(queue[g], e)) = Len(queue[g]) + 1
      /\ Append(queue[g], e)[Len(queue[g]) + 1] = e
      /\ \A i \in 1..Len(queue[g]) : Append(queue[g], e)[i] = queue[g][i]
  BY <1>q, AppendProperties, LenProperties
<1>2. queue' = [queue EXCEPT ![g] = Append(queue[g], e)] /\ handled' = handled
  BY DEF Deliver
<1> DEFINE x == <<g, Len(queue[g]) + 1>>
<1>3. ASSUME NEW c \in Copies(d)' PROVE c \in Copies(d) \/ (c = x /\ d = e)
  <2>1. c \in Gateways \X (Nat \ {0}) /\ c[1] \in Gateways /\ c[2] \in Nat /\ c[2] >= 1
    BY DEF Copies
  <2>2. /\ c[2] <= Len(queue'[c[1]]) /\ queue'[c[1]][c[2]] = d
        /\ ~(c[2] = 1 /\ handled'[c[1]])
    BY DEF Copies
  <2>3. CASE c[1] # g
    BY <1>q, <1>2, <2>1, <2>2, <2>3 DEF Copies
  <2>4. CASE c[1] = g /\ c[2] <= Len(queue[g])
    BY <1>q, <1>1, <1>2, <2>1, <2>2, <2>4 DEF Copies
  <2>5. CASE c[1] = g /\ ~(c[2] <= Len(queue[g]))
    <3>1. c[2] = Len(queue[g]) + 1
      BY <1>q, <1>1, <1>2, <2>1, <2>2, <2>5
    <3> QED
      BY <1>q, <1>1, <1>2, <2>1, <2>2, <2>5, <3>1
  <2> QED
    BY <2>3, <2>4, <2>5
<1>4. Paid(d) /\ emitted' = emitted
  BY DEF EmissionsArePaid, Deliver
<1>5. CASE d # e
  <2>1. tries'[d] = tries[d]
    BY <1>5 DEF Deliver, DeliveryTypes, StreamTypes
  <2>2. Copies(d)' \subseteq Copies(d)
    BY <1>3, <1>5
  <2> QED
    BY <1>4, <2>1, <2>2, PaidSmaller
<1>6. CASE d = e
  <2> DEFINE C == Copies(d)
             D == Copies(d)'
  <2>1. tries'[d] = tries[d] + 1 /\ emitted'[d] \in Nat /\ tries[d] \in Nat
    BY <1>4, <1>6 DEF Deliver, DeliveryTypes, StreamTypes
  <2>2. D \subseteq C \cup {x} /\ IsFiniteSet(C) /\ emitted[d] + Cardinality(C) <= tries[d]
    BY <1>3, <1>4 DEF Paid
  <2> HIDE DEF C, D
  <2>3. /\ IsFiniteSet(C \cup {x}) /\ Cardinality(C) \in Nat
        /\ Cardinality(C \cup {x}) <= Cardinality(C) + 1
    <3>1. /\ IsFiniteSet(C \cup {x})
          /\ Cardinality(C \cup {x}) = IF x \in C THEN Cardinality(C) ELSE Cardinality(C) + 1
      BY <2>2, FS_AddElement
    <3>2. Cardinality(C) \in Nat
      BY <2>2, FS_CardinalityType
    <3> QED
      BY <3>1, <3>2
  <2>4. IsFiniteSet(D) /\ Cardinality(D) <= Cardinality(C \cup {x}) /\ Cardinality(D) \in Nat
    BY <2>2, <2>3, FS_Subset, FS_CardinalityType
  <2>5. Cardinality(C \cup {x}) \in Nat
    BY <2>3, FS_CardinalityType
  <2>6. emitted'[d] + Cardinality(D) <= tries'[d]
    BY <1>4, <2>1, <2>2, <2>3, <2>4, <2>5
  <2> QED
    BY <2>4, <2>6 DEF Paid, C, D
<1> QED
  BY <1>5, <1>6

\* An emission uses up the copy it emits.
LEMMA PaidByHandling ==
  ASSUME DeliveryTypes, DeliveryTypes', EmissionsArePaid, dedicated,
         NEW g \in Gateways, HandleEvent(g), NEW d \in Events
  PROVE  Paid(d)'
<1> DEFINE e == Head(queue[g])
           x == <<g, 1>>
           C == Copies(d)
           D == Copies(d)'
<1>1. /\ queue[g] \in Seq(Events) /\ queue[g] # <<>> /\ ~handled[g] /\ UNCHANGED <<queue, tries>>
      /\ handled' = [handled EXCEPT ![g] = TRUE] /\ handled \in [Gateways -> BOOLEAN]
      /\ emitted' = [emitted EXCEPT ![e] = @ + 1]
  BY DEF HandleEvent, Emit, streamVars, DeliveryTypes, QueueTypes
<1>2. e \in Events /\ Len(queue[g]) \in Nat /\ Len(queue[g]) >= 1 /\ queue[g][1] = e
  BY <1>1, HeadTailProperties, LenProperties, EmptySeq
<1>3. D \subseteq C \ (IF d = e THEN {x} ELSE {})
  <2> SUFFICES ASSUME NEW c \in D PROVE c \in C /\ (d = e => c # x)
    OBVIOUS
  <2>1. /\ c \in Gateways \X (Nat \ {0}) /\ c[1] \in Gateways
        /\ c[2] <= Len(queue'[c[1]]) /\ queue'[c[1]][c[2]] = d /\ ~(c[2] = 1 /\ handled'[c[1]])
    BY DEF Copies
  <2>2. ~(c[2] = 1 /\ c[1] = g)
    BY <1>1, <2>1
  <2>3. ~(c[2] = 1 /\ handled[c[1]])
    BY <1>1, <2>1
  <2> QED
    BY <1>1, <2>1, <2>2, <2>3 DEF Copies
<1>4. Paid(d) /\ emitted[d] \in Nat /\ emitted[e] \in Nat /\ tries[d] \in Nat
  BY <1>2 DEF EmissionsArePaid, DeliveryTypes, StreamTypes
<1>5. CASE d # e
  <2>1. emitted'[d] = emitted[d]
    BY <1>1, <1>2, <1>5 DEF DeliveryTypes, StreamTypes
  <2> QED
    BY <1>1, <1>3, <1>4, <1>5, <2>1, PaidSmaller
<1>6. CASE d = e
  <2>1. emitted'[d] = emitted[d] + 1
    BY <1>1, <1>2, <1>6 DEF DeliveryTypes, StreamTypes
  <2>2. x \in C
    BY <1>1, <1>2, <1>6 DEF Copies
  <2>3. D \subseteq C \ {x} /\ IsFiniteSet(C) /\ emitted[d] + Cardinality(C) <= tries[d]
    BY <1>3, <1>4, <1>6 DEF Paid
  <2> HIDE DEF C, D
  <2>4. IsFiniteSet(C \ {x}) /\ Cardinality(C \ {x}) = Cardinality(C) - 1
    BY <2>2, <2>3, FS_RemoveElement
  <2>5. IsFiniteSet(D) /\ Cardinality(D) <= Cardinality(C \ {x})
    BY <2>3, <2>4, FS_Subset
  <2>6. Cardinality(C) \in Nat /\ Cardinality(D) \in Nat
    BY <2>3, <2>5, FS_CardinalityType
  <2>7. emitted'[d] + Cardinality(D) <= tries'[d]
    <3>1. tries'[d] = tries[d] /\ emitted[d] \in Nat /\ tries[d] \in Nat
      BY <1>1, <1>4
    <3> QED
      BY <2>1, <2>3, <2>4, <2>5, <2>6, <3>1
  <2> QED
    BY <2>5, <2>7 DEF Paid, C, D
<1> QED
  BY <1>5, <1>6

\* The loop that goes on to the next event makes no copy.
LEMMA PaidByNext ==
  ASSUME DeliveryTypes, DeliveryTypes', EmissionsArePaid, dedicated,
         NEW g \in Gateways, queue[g] # <<>>, NextEvent(g), UNCHANGED <<emitted, tries>>,
         NEW d \in Events
  PROVE  Paid(d)'
<1> DEFINE C == Copies(d)
           D == Copies(d)'
           Later(c) == IF c[1] = g THEN <<g, c[2] + 1>> ELSE c
           f == [c \in D |-> Later(c)]
<1>q. /\ queue[g] \in Seq(Events) /\ queue \in [Gateways -> Seq(Events)]
      /\ handled \in [Gateways -> BOOLEAN]
  BY DEF DeliveryTypes, QueueTypes
<1>1. /\ Len(queue[g]) \in Nat /\ Len(Tail(queue[g])) = Len(queue[g]) - 1
      /\ \A i \in 1..Len(Tail(queue[g])) : Tail(queue[g])[i] = queue[g][i + 1]
  BY <1>q, HeadTailProperties, LenProperties
<1>2. /\ queue' = [queue EXCEPT ![g] = Tail(queue[g])]
      /\ handled' = [handled EXCEPT ![g] = FALSE]
  BY DEF NextEvent
<1>3. ASSUME NEW c \in D PROVE Later(c) \in C
  <2>1. /\ c \in Gateways \X (Nat \ {0}) /\ c = <<c[1], c[2]>> /\ c[1] \in Gateways
        /\ c[2] \in Nat \ {0}
        /\ c[2] <= Len(queue'[c[1]]) /\ queue'[c[1]][c[2]] = d /\ ~(c[2] = 1 /\ handled'[c[1]])
    BY DEF Copies
  <2>2. CASE c[1] = g
    <3>1. c[2] \in 1..Len(Tail(queue[g])) /\ Tail(queue[g])[c[2]] = d
      BY <1>q, <1>1, <1>2, <2>1, <2>2
    <3>2. /\ <<g, c[2] + 1>> \in Gateways \X (Nat \ {0}) /\ c[2] + 1 # 1
          /\ c[2] + 1 <= Len(queue[g]) /\ queue[g][c[2] + 1] = d
      BY <1>1, <2>1, <3>1
    <3> QED
      BY <2>2, <3>2 DEF Copies
  <2>3. CASE c[1] # g
    BY <1>q, <1>2, <2>1, <2>3 DEF Copies
  <2> QED
    BY <2>2, <2>3
<1>4. ASSUME NEW b \in D, NEW c \in D, Later(b) = Later(c) PROVE b = c
  <2>1. /\ b = <<b[1], b[2]>> /\ b[2] \in Nat /\ c = <<c[1], c[2]>> /\ c[2] \in Nat
    BY DEF Copies
  <2>2. b[1] = g <=> c[1] = g
    BY <1>4, <2>1
  <2>3. CASE b[1] = g
    <3>1. b[2] + 1 = c[2] + 1
      BY <1>4, <2>2, <2>3
    <3> QED
      BY <2>1, <2>2, <2>3, <3>1
  <2>4. CASE b[1] # g
    BY <1>4, <2>2, <2>4
  <2> QED
    BY <2>3, <2>4
<1>5. f \in Injection(D, C)
  <2>1. f \in [D -> C] /\ \A c \in D : f[c] = Later(c)
    BY <1>3
  <2>2. \A b, c \in D : f[b] = f[c] => b = c
    BY <1>4, <2>1
  <2> QED
    BY <2>1, <2>2 DEF Injection, IsInjective
<1>6. Paid(d)
  BY DEF EmissionsArePaid
<1>7. /\ IsFiniteSet(C) /\ emitted[d] + Cardinality(C) <= tries[d]
      /\ emitted[d] \in Nat /\ tries[d] \in Nat
  BY <1>6 DEF Paid, DeliveryTypes, StreamTypes
<1> HIDE DEF C, D, f
<1>8. IsFiniteSet(D) /\ Cardinality(D) <= Cardinality(C)
  BY <1>5, <1>7, FS_Injection
<1>9. Cardinality(C) \in Nat /\ Cardinality(D) \in Nat
  BY <1>7, <1>8, FS_CardinalityType
<1>10. emitted'[d] + Cardinality(D) <= tries'[d]
  BY <1>7, <1>8, <1>9
<1> QED
  BY <1>8, <1>10 DEF Paid, D

\* Every step leaves every event paid.
LEMMA PaidStep ==
  DeliveryTypes /\ DeliveryTypes' /\ LegacyIsOnce /\ EmissionsArePaid /\ [DeliveryNext]_deliveryVars
    => EmissionsArePaid'
<1> SUFFICES ASSUME DeliveryTypes, DeliveryTypes', LegacyIsOnce, EmissionsArePaid,
                    [DeliveryNext]_deliveryVars, dedicated', NEW d \in Events
             PROVE  Paid(d)'
  BY DEF EmissionsArePaid
<1>d. dedicated' = dedicated
  BY DEF DeliveryNext, deliveryVars, streamVars, gatewayVars, CommitEvent, ReplayKey, PublishCreated,
         LoseCall, Move, PublishRow, AckWait, Deliver, SlowAck, CreateConsumer, Consume,
         HandleEvent, Ack, HandlerThrows, GatewayDies
<1>c. dedicated /\ Paid(d)
  BY <1>d DEF EmissionsArePaid
<1>0. ASSUME UNCHANGED <<queue, handled, emitted, tries>> PROVE Paid(d)'
  <2>1. Copies(d)' \subseteq Copies(d)
    BY <1>0 DEF Copies
  <2> QED
    BY <1>0, <1>c, <2>1, PaidSmaller
<1>1. ASSUME NEW e \in Events,
             \/ CommitEvent(e) \/ ReplayKey(e) \/ PublishCreated(e) \/ LoseCall(e)
             \/ PublishRow(e) \/ AckWait(e) \/ SlowAck(e)
      PROVE  Paid(d)'
  BY <1>0, <1>c, <1>1 DEF CommitEvent, ReplayKey, PublishCreated, BackendEmits, LoseCall, PublishRow,
     AckWait, SlowAck, streamVars, gatewayVars
<1>2. CASE CreateConsumer
  BY <1>0, <1>2 DEF CreateConsumer, gatewayVars
<1>3. ASSUME NEW g \in Gateways, NEW e \in Events, Deliver(g, e) PROVE Paid(d)'
  BY <1>c, <1>3, PaidByDelivery
<1>4. ASSUME NEW g \in Gateways, HandleEvent(g) PROVE Paid(d)'
  BY <1>c, <1>4, PaidByHandling
<1>5. ASSUME NEW g \in Gateways, Ack(g) \/ HandlerThrows(g) PROVE Paid(d)'
  <2>1. queue[g] # <<>> /\ NextEvent(g) /\ UNCHANGED <<emitted, tries>>
    BY <1>5 DEF Ack, HandlerThrows
  <2> QED
    BY <1>c, <2>1, PaidByNext
<1>6. ASSUME NEW g \in Gateways, GatewayDies(g) PROVE Paid(d)'
  <2>1. /\ queue' = [queue EXCEPT ![g] = <<>>] /\ handled' = [handled EXCEPT ![g] = FALSE]
        /\ UNCHANGED <<emitted, tries>> /\ queue \in [Gateways -> Seq(Events)]
        /\ handled \in [Gateways -> BOOLEAN]
    BY <1>6 DEF GatewayDies, streamVars, DeliveryTypes, QueueTypes
  <2>2. ASSUME NEW c \in Copies(d)' PROVE c \in Copies(d)
    <3>1. /\ c \in Gateways \X (Nat \ {0}) /\ c[1] \in Gateways /\ c[2] \in Nat \ {0}
          /\ c[2] <= Len(queue'[c[1]]) /\ queue'[c[1]][c[2]] = d
          /\ ~(c[2] = 1 /\ handled'[c[1]])
      BY DEF Copies
    <3>2. c[1] # g
      <4>1. Len(<<>>) = 0 /\ ~(c[2] <= 0)
        BY <3>1
      <4> QED
        BY <2>1, <3>1, <4>1
    <3> QED
      BY <2>1, <3>1, <3>2 DEF Copies
  <2> QED
    BY <1>c, <2>1, <2>2, PaidSmaller
<1>7. CASE UNCHANGED deliveryVars
  BY <1>0, <1>7 DEF deliveryVars, streamVars, gatewayVars
<1> QED
  BY <1>1, <1>2, <1>3, <1>4, <1>5, <1>6, <1>7 DEF DeliveryNext, Move, Consume

\* At the start nothing is delivered and nothing is owed.
LEMMA CountsInit == DeliveryInit => LegacyIsOnce /\ FaultlessIsOnce /\ EmissionsArePaid
<1> SUFFICES ASSUME DeliveryInit PROVE LegacyIsOnce /\ FaultlessIsOnce /\ EmissionsArePaid
  OBVIOUS
<1>1. LegacyIsOnce /\ FaultlessIsOnce
  BY DEF DeliveryInit, LegacyIsOnce, FaultlessIsOnce
<1>2. ASSUME NEW e \in Events PROVE Paid(e)
  <2>1. \A c \in Gateways \X (Nat \ {0}) : Len(queue[c[1]]) = 0 /\ ~(c[2] <= 0)
    BY DEF DeliveryInit
  <2>2. Copies(e) = {}
    BY <2>1 DEF Copies
  <2> QED
    BY <2>2, FS_EmptySet DEF Paid, DeliveryInit
<1> QED
  BY <1>1, <1>2 DEF EmissionsArePaid

\* What the three counts say together.
LEMMA CountsSuffice ==
  DeliveryTypes /\ LegacyIsOnce /\ FaultlessIsOnce /\ EmissionsArePaid => NoDoubleEmission
<1> SUFFICES ASSUME DeliveryTypes, LegacyIsOnce, FaultlessIsOnce, EmissionsArePaid, NEW e \in Events
             PROVE  /\ emitted[e] <= IF dedicated THEN tries[e] ELSE 1 + replays[e]
                    /\ tries[e] > 1 => breaks > 0
  BY DEF NoDoubleEmission
<1>1. /\ emitted[e] \in Nat /\ tries[e] \in Nat /\ breaks \in Nat
      /\ calls[e] \in Nat /\ replays[e] \in Nat
  BY DEF DeliveryTypes, StreamTypes
<1>2. CASE dedicated
  <2> DEFINE C == Copies(e)
  <2>1. IsFiniteSet(C) /\ emitted[e] + Cardinality(C) <= tries[e]
    BY <1>2 DEF EmissionsArePaid, Paid
  <2> HIDE DEF C
  <2>2. Cardinality(C) \in Nat
    BY <2>1, FS_CardinalityType
  <2> QED
    BY <1>1, <1>2, <2>1, <2>2 DEF FaultlessIsOnce
<1>3. CASE ~dedicated
  BY <1>1, <1>3 DEF LegacyIsOnce, FaultlessIsOnce
<1> QED
  BY <1>2, <1>3

\* An event is emitted by the backend, once for its send and once for every
\* replay of its key, or once per delivery by the gateways, whatever is replayed,
\* and it is delivered again only after a fault.
THEOREM NothingIsEmittedTwice == DeliverySpec => []NoDoubleEmission
<1> QED
  BY DeliveryTypesInit, DeliveryTypesStep, CountsInit, LegacyStep, FaultlessStep, PaidStep,
     CountsSuffice, PTL
  DEF DeliverySpec

-----------------------------------------------------------------------------
(* The sum *)

\* What TLC explores together is what each component does alone.
LEMMA ProgressParts ==
  FairSpec => ConversationsSpec /\ SearchSpec /\ PresenceSpec /\ DeliverySpec
<1>1. Init => ConversationsInit /\ SearchInit /\ PresenceInit /\ DeliveryInit
  BY DEF Init
<1>2. [Next]_<<component, conversationsVars, searchVars, presenceVars, deliveryVars>> =>
        /\ [ConversationsNext]_conversationsVars /\ [SearchNext]_searchVars
        /\ [PresenceNext]_presenceVars /\ [DeliveryNext]_deliveryVars
  BY DEF Next
<1> QED
  BY <1>1, <1>2, PTL
  DEF FairSpec, ConversationsSpec, SearchSpec, PresenceSpec, DeliverySpec

\* Every variable of the four components keeps its type, with what the types
\* say of the pool, of the deliveries, of the jobs and of the socket sets.
THEOREM ProgressTypesAreCorrect == FairSpec => []TypeOK
<1>1. ConversationsTypeOK /\ SearchTypeOK /\ PresenceTypeOK /\ DeliveryTypeOK => TypeOK
  BY DEF TypeOK
<1> QED
  BY <1>1, ProgressParts, ConversationTypesAreCorrect, SearchTypesAreCorrect,
     ConnectedIsOnline, DeliveryTypesAreCorrect, PTL

\* And what each of them keeps alone it keeps in the sum.
THEOREM ProgressIsSafe ==
  FairSpec => [](/\ OneConversation /\ AuditGapsExplained /\ ConnectedIsMember
                 /\ AckedWasEmitted /\ NoDoubleEmission)
BY ProgressParts, OneConversationEver, AuditGapsAreExplained, ConnectedIsOnline,
   AckedEventsWereEmitted, NothingIsEmittedTwice, PTL
=============================================================================
