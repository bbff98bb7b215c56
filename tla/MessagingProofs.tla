--------------------------- MODULE MessagingProofs ---------------------------
(***************************************************************************)
(* Safety of Messaging for every value of its constants: any number of     *)
(* users, requests in flight, keys, contents, messages and crashes; and    *)
(* how far the two claims go that the code does not keep.                  *)
(***************************************************************************)
EXTENDS Messaging, SequenceTheorems, FiniteSetTheorems, TLAPS

LEMMA InitIInv == Init => IInv
<1> SUFFICES ASSUME Init PROVE IInv
  OBVIOUS
<1> USE ConstantsAssumption DEF Init
<1>1. IdleRequest \in Request
  BY DEF IdleRequest, Request, Stages
<1>2. ClosedWindow \in [lo : Nat, hi : Nat, seen : SUBSET Nat]
  BY DEF ClosedWindow
<1>3. TypeOK
  <2>1. lastSequence \in Nat /\ crashes \in Nat /\ lastRead \in [Users -> Nat]
    OBVIOUS
  <2>2. messages \in Seq(MessageRow) /\ outbox \in Seq(Event)
    OBVIOUS
  <2>3. req \in [Requests -> Request]
    BY <1>1
  <2>4. window \in [Readers -> [lo : Nat, hi : Nat, seen : SUBSET Nat]]
    BY <1>2
  <2>5. /\ e2ee \in BOOLEAN /\ participants \subseteq Users /\ anonymized \subseteq Users
        /\ unread \subseteq (DOMAIN messages) \X Users /\ read \subseteq (DOMAIN messages) \X Users
        /\ lock \in Requests \cup {None}
    OBVIOUS
  <2> QED
    BY <2>1, <2>2, <2>3, <2>4, <2>5 DEF TypeOK
<1>4. \A r \in Requests : req[r].pc = "idle" /\ lock # r
  BY DEF IdleRequest
<1>5. CommittedInSequence
  BY DEF CommittedInSequence
<1> QED
  BY <1>3, <1>4, <1>5 DEF IInv, LockGuardsTheConversation, SendsAreComplete, DeletionsKnowTheirRow

-----------------------------------------------------------------------------
(* Records and sequences: what an update of a request or of a row yields *)

\* A step of one request leaves the others where they are.
LEMMA OneRequestMoves ==
  ASSUME TypeOK, NEW r \in Requests, NEW q \in Request, req' = [req EXCEPT ![r] = q]
  PROVE  /\ req' \in [Requests -> Request]
         /\ req'[r] = q
         /\ \A s \in Requests : s # r => req'[s] = req[s]
BY DEF TypeOK

LEMMA RequestTaken ==
  ASSUME NEW q \in Request, NEW p \in Stages
  PROVE  /\ [q EXCEPT !.pc = p] \in Request
         /\ \A l \in Nat : [q EXCEPT !.pc = p, !.last = l] \in Request
BY DEF Request

LEMMA RequestAnswered ==
  ASSUME NEW q \in Request, NEW p \in Stages, NEW l \in Nat, NEW m \in Nat,
         NEW s \in Bodies \cup {None, "masked"}
  PROVE  /\ [q EXCEPT !.pc = p, !.last = l, !.msg = m, !.shown = s] \in Request
         /\ [q EXCEPT !.pc = p, !.msg = m, !.shown = s] \in Request
<1> DEFINE q1 == [q EXCEPT !.pc = p]
           q2 == [q1 EXCEPT !.last = l]
           q3 == [q2 EXCEPT !.msg = m]
           q4 == [q3 EXCEPT !.shown = s]
<1>1. q1 \in Request
  BY DEF Request
<1> HIDE DEF q1
<1>2. q2 \in Request
  BY <1>1 DEF Request
<1> HIDE DEF q2
<1>3. q3 \in Request
  BY <1>2 DEF Request
<1> HIDE DEF q3
<1>4. q4 \in Request
  BY <1>3 DEF Request
<1>5. [q EXCEPT !.pc = p, !.last = l, !.msg = m, !.shown = s] \in Request
  BY <1>4 DEF q4, q3, q2, q1
<1>6. [q EXCEPT !.pc = p, !.msg = m, !.shown = s] \in Request
  BY DEF Request
<1> QED
  BY <1>5, <1>6

LEMMA RequestFilled ==
  ASSUME NEW q \in Request, NEW p \in Stages, NEW u \in Users, NEW k \in Keys \cup {None},
         NEW b \in Bodies
  PROVE  [q EXCEPT !.pc = p, !.user = u, !.key = k, !.body = b] \in Request
<1> DEFINE q1 == [q EXCEPT !.pc = p]
           q2 == [q1 EXCEPT !.user = u]
           q3 == [q2 EXCEPT !.key = k]
           q4 == [q3 EXCEPT !.body = b]
<1>1. q1 \in Request
  BY DEF Request
<1> HIDE DEF q1
<1>2. q2 \in Request
  BY <1>1 DEF Request
<1> HIDE DEF q2
<1>3. q3 \in Request
  BY <1>2 DEF Request
<1> HIDE DEF q3
<1>4. q4 \in Request
  BY <1>3 DEF Request
<1>5. [q EXCEPT !.pc = p, !.user = u, !.key = k, !.body = b] \in Request
  BY <1>4 DEF q4, q3, q2, q1
<1> QED
  BY <1>5

LEMMA RequestBegun ==
  ASSUME NEW q \in Request, NEW p \in Stages
  PROVE  /\ \A u \in Users : [q EXCEPT !.pc = p, !.user = u] \in Request
         /\ \A i \in Nat, row \in MessageRow :
               [q EXCEPT !.pc = p, !.msg = i, !.row = row] \in Request
BY DEF Request

LEMMA IdleIsARequest == IdleRequest \in Request
BY ConstantsAssumption DEF IdleRequest, Request, Stages

LEMMA RowReplaced ==
  ASSUME NEW rows \in Seq(MessageRow), NEW i \in DOMAIN rows, NEW row \in MessageRow
  PROVE  /\ [rows EXCEPT ![i] = row] \in Seq(MessageRow)
         /\ DOMAIN [rows EXCEPT ![i] = row] = DOMAIN rows
         /\ Len([rows EXCEPT ![i] = row]) = Len(rows)
         /\ [rows EXCEPT ![i] = row][i] = row
         /\ \A j \in DOMAIN rows : j # i => [rows EXCEPT ![i] = row][j] = rows[j]
OBVIOUS

LEMMA RowOfMessages ==
  ASSUME NEW rows \in Seq(MessageRow), NEW i \in DOMAIN rows
  PROVE  rows[i] \in MessageRow /\ i \in Nat
OBVIOUS

\* An erasure or a moderation leaves what identifies a row.
LEMMA DeletionKeepsIdentity ==
  ASSUME NEW row \in MessageRow, NEW mark \in BOOLEAN
  PROVE  /\ [DeletedRow(row) EXCEPT !.moderated = mark] \in MessageRow
         /\ [DeletedRow(row) EXCEPT !.moderated = mark].sender = row.sender
         /\ [DeletedRow(row) EXCEPT !.moderated = mark].sequence = row.sequence
         /\ [DeletedRow(row) EXCEPT !.moderated = mark].key = row.key
         /\ [DeletedRow(row) EXCEPT !.moderated = mark].deletedAt = TRUE
         /\ [DeletedRow(row) EXCEPT !.moderated = mark].body = None
BY DEF DeletedRow, MessageRow

\* Hiding and wiping a row keep what identifies it.
LEMMA RowsKeepIdentity ==
  ASSUME NEW row \in MessageRow
  PROVE  /\ HiddenRow(row) \in MessageRow
         /\ HiddenRow(row).sender = row.sender
         /\ HiddenRow(row).sequence = row.sequence
         /\ HiddenRow(row).key = row.key
         /\ HiddenRow(row).deletedAt = row.deletedAt
         /\ HiddenRow(row).body = row.body
         /\ WipedRow(row) \in MessageRow
         /\ WipedRow(row).sender = row.sender
         /\ WipedRow(row).sequence = row.sequence
         /\ WipedRow(row).key = row.key
         /\ WipedRow(row).deletedAt = TRUE
         /\ WipedRow(row).body = None
BY DEF HiddenRow, WipedRow, MessageRow

-----------------------------------------------------------------------------
(* The steps that move one request and leave the tables alone *)

\* A request as the invariant wants it, whatever the stage it is in.
Sound(r, q, holder) ==
  /\ q \in Request
  /\ holder = r <=> q.pc = "locked"
  /\ q.pc = "locked" => q.last = lastSequence /\ ~e2ee
  /\ q.pc \in {"arrived", "locked", "committed", "lost"} => q.user \in Users /\ q.body \in Bodies
  /\ q.pc = "found" =>
       /\ q.msg \in DOMAIN messages
       /\ q.row \in MessageRow
       /\ q.row.sender = messages[q.msg].sender
       /\ q.row.sequence = messages[q.msg].sequence
       /\ q.row.key = messages[q.msg].key

\* A step that moves one request and writes no row keeps the invariant.
LEMMA RequestStep ==
  ASSUME IInv, NEW r \in Requests, NEW q, Sound(r, q, lock'),
         req' = [req EXCEPT ![r] = q],
         lock' \in Requests \cup {None},
         \A s \in Requests \ {r} : lock' = s <=> lock = s,
         participants' \subseteq Users, crashes' \in Nat,
         UNCHANGED <<convVars, lastRead, anonymized, tableVars, window>>
  PROVE  IInv'
<1> USE DEF IInv, convVars, tableVars
<1>1. /\ req' \in [Requests -> Request]
      /\ req'[r] = q
      /\ \A s \in Requests : s # r => req'[s] = req[s]
  BY OneRequestMoves DEF Sound
<1>2. TypeOK'
  BY <1>1 DEF TypeOK
<1>3. LockGuardsTheConversation'
  BY <1>1 DEF Sound, LockGuardsTheConversation
<1>4. SendsAreComplete'
  BY <1>1 DEF Sound, SendsAreComplete
<1>5. DeletionsKnowTheirRow'
  BY <1>1 DEF Sound, DeletionsKnowTheirRow
<1>6. CommittedInSequence'
  BY DEF CommittedInSequence
<1> QED
  BY <1>2, <1>3, <1>4, <1>5, <1>6

\* assertCanAccess adds at most the user who asks to the participants.
LEMMA AccessAddsAUser ==
  ASSUME TypeOK, NEW u \in Users, Access(u)
  PROVE  participants' \subseteq Users /\ participants \subseteq participants' /\ u \in participants'
BY DEF Access, TypeOK

LEMMA ArriveStep ==
  ASSUME IInv, NEW r \in Requests, NEW u \in Users, NEW k \in Keys \cup {None},
         NEW b \in Bodies, Arrive(r, u, k, b)
  PROVE  IInv'
<1> DEFINE q == [IdleRequest EXCEPT !.pc = "arrived", !.user = u, !.key = k, !.body = b]
<1>1. q.pc = "arrived" /\ q.user = u /\ q.body = b
  BY DEF IdleRequest
<1>2. q \in Request
  BY IdleIsARequest, RequestFilled DEF Stages
<1>3. lock # r
  BY DEF IInv, LockGuardsTheConversation, Arrive
<1>4. Sound(r, q, lock)
  BY <1>1, <1>2, <1>3 DEF Sound
<1>5. participants' \subseteq Users
  BY AccessAddsAUser DEF Arrive, IInv
<1> HIDE DEF q
<1> QED
  BY <1>4, <1>5, RequestStep DEF Arrive, IInv, TypeOK, convVars, tableVars, q

LEMMA CheckE2eeStep ==
  ASSUME IInv, NEW r \in Requests, NEW u \in Users, CheckE2ee(r, u)
  PROVE  IInv'
<1> DEFINE q == [IdleRequest EXCEPT !.pc = "enabling", !.user = u]
<1>1. q.pc = "enabling"
  BY DEF IdleRequest
<1>2. q \in Request
  BY IdleIsARequest, RequestBegun DEF Stages
<1>3. lock # r
  BY DEF IInv, LockGuardsTheConversation, CheckE2ee
<1>4. Sound(r, q, lock)
  BY <1>1, <1>2, <1>3 DEF Sound
<1>5. participants' \subseteq Users
  BY AccessAddsAUser DEF CheckE2ee, IInv
<1> HIDE DEF q
<1> QED
  BY <1>4, <1>5, RequestStep DEF CheckE2ee, IInv, TypeOK, convVars, tableVars, q

LEMMA FindToDeleteStep ==
  ASSUME IInv, NEW r \in Requests, NEW i \in DOMAIN messages, FindToDelete(r, i)
  PROVE  IInv'
<1> DEFINE q == [IdleRequest EXCEPT !.pc = "found", !.msg = i, !.row = messages[i]]
<1>1. q.pc = "found" /\ q.msg = i /\ q.row = messages[i]
  BY DEF IdleRequest
<1>2. messages[i] \in MessageRow /\ i \in Nat
  BY RowOfMessages DEF IInv, TypeOK
<1>3. q \in Request
  BY <1>2, IdleIsARequest, RequestBegun DEF Stages
<1>4. lock # r
  BY DEF IInv, LockGuardsTheConversation, FindToDelete
<1>5. Sound(r, q, lock)
  BY <1>1, <1>2, <1>3, <1>4 DEF Sound
<1> HIDE DEF q
<1> QED
  BY <1>5, RequestStep
  DEF FindToDelete, IInv, TypeOK, convVars, peopleVars, tableVars, q

LEMMA LockConversationStep ==
  ASSUME IInv, NEW r \in Requests, LockConversation(r)
  PROVE  IInv'
<1> DEFINE q == [req[r] EXCEPT !.pc = "locked", !.last = lastSequence]
<1>1. req[r] \in Request /\ lastSequence \in Nat
  BY DEF IInv, TypeOK
<1>2. q \in Request
  BY <1>1, RequestTaken DEF Stages
<1>3. /\ q.pc = "locked" /\ q.last = lastSequence
      /\ q.user = req[r].user /\ q.body = req[r].body
  BY <1>1 DEF Request
<1>4. Sound(r, q, lock')
  BY <1>2, <1>3 DEF Sound, LockConversation, E2eeUnderLock, IInv, SendsAreComplete
<1>5. req' = [req EXCEPT ![r] = q]
  BY DEF LockConversation, IInv, TypeOK
<1>6. \A s \in Requests \ {r} : lock' = s <=> lock = s
  BY ConstantsAssumption DEF LockConversation, RowLockFree
<1> HIDE DEF q
<1> QED
  BY <1>4, <1>5, <1>6, RequestStep
  DEF LockConversation, IInv, TypeOK, convVars, peopleVars, tableVars

\* A handler that ends leaves its slot idle and holds no lock.
LEMMA RequestEnds ==
  ASSUME IInv, NEW r \in Requests, req[r].pc # "locked",
         req' = [req EXCEPT ![r] = IdleRequest],
         UNCHANGED <<convVars, peopleVars, tableVars, lock, window, crashes>>
  PROVE  IInv'
<1>1. IdleRequest.pc = "idle"
  BY DEF IdleRequest
<1>2. Sound(r, IdleRequest, lock)
  BY <1>1, IdleIsARequest DEF Sound, IInv, LockGuardsTheConversation
<1> QED
  BY <1>2, RequestStep DEF IInv, TypeOK, convVars, peopleVars, tableVars

LEMMA ResendStep ==
  ASSUME IInv, NEW r \in Requests, Resend(r)
  PROVE  IInv'
<1> DEFINE q == [req[r] EXCEPT !.pc = "arrived"]
<1>1. req[r] \in Request
  BY DEF IInv, TypeOK
<1>2. q \in Request
  BY <1>1, RequestTaken DEF Stages
<1>3. q.pc = "arrived" /\ q.user = req[r].user /\ q.body = req[r].body
  BY <1>1 DEF Request
<1>4. Sound(r, q, lock)
  BY <1>2, <1>3 DEF Sound, Resend, IInv, SendsAreComplete, LockGuardsTheConversation
<1>5. req' = [req EXCEPT ![r] = q]
  BY DEF Resend, IInv, TypeOK
<1> HIDE DEF q
<1> QED
  BY <1>4, <1>5, RequestStep DEF Resend, IInv, TypeOK, convVars, peopleVars, tableVars

LEMMA CrashStep ==
  ASSUME IInv, NEW r \in Requests, Crash(r)
  PROVE  IInv'
<1> DEFINE q == [req[r] EXCEPT !.pc = "lost", !.last = 0, !.msg = 0, !.shown = None]
<1>1. req[r] \in Request
  BY DEF IInv, TypeOK
<1>2. q \in Request
  BY <1>1, RequestAnswered DEF Stages
<1>3. q.pc = "lost" /\ q.user = req[r].user /\ q.body = req[r].body
  BY <1>1 DEF Request
<1>4. lock' # r /\ \A s \in Requests \ {r} : lock' = s <=> lock = s
  BY ConstantsAssumption DEF Crash, LockAfterCrash
<1>5. Sound(r, q, lock')
  BY <1>2, <1>3, <1>4 DEF Sound, Crash, IInv, SendsAreComplete
<1>6. req' = [req EXCEPT ![r] = q]
  BY DEF Crash, IInv, TypeOK
<1>7. /\ lock' \in Requests \cup {None} /\ crashes' \in Nat /\ participants' \subseteq Users
      /\ UNCHANGED <<convVars, lastRead, anonymized, tableVars, window>>
  BY DEF Crash, LockAfterCrash, IInv, TypeOK, convVars, peopleVars, tableVars
<1> HIDE DEF q
<1> QED
  BY <1>4, <1>5, <1>6, <1>7, RequestStep

LEMMA ReplayExistingStep ==
  ASSUME IInv, NEW r \in Requests, ReplayExisting(r)
  PROVE  IInv'
<1>1. PICK i \in Existing(req[r].user, req[r].key) :
        req' = [req EXCEPT ![r].pc = "committed", ![r].msg = i,
                           ![r].shown = ReplayText(r, messages[i])]
  BY DEF ReplayExisting
<1> DEFINE q == [req[r] EXCEPT !.pc = "committed", !.msg = i,
                               !.shown = ReplayText(r, messages[i])]
<1>2. req[r] \in Request /\ i \in Nat
  BY DEF IInv, TypeOK, Existing
<1>3. req[r].user \in Users /\ req[r].body \in Bodies
  BY DEF IInv, SendsAreComplete, ReplayExisting
<1>4. messages[i] \in MessageRow
  BY RowOfMessages DEF IInv, TypeOK, Existing
<1>5. ReplayText(r, messages[i]) \in Bodies \cup {None, "masked"}
  BY <1>3, <1>4 DEF ReplayText, MessageRow
<1>6. q \in Request
  BY <1>2, <1>5, RequestAnswered DEF Stages
<1>7. q.pc = "committed" /\ q.user = req[r].user /\ q.body = req[r].body
  BY <1>2 DEF Request
<1>8. lock = r /\ lock' = None
  BY DEF ReplayExisting, IInv, LockGuardsTheConversation
<1>9. Sound(r, q, lock')
  BY <1>3, <1>6, <1>7, <1>8, ConstantsAssumption DEF Sound
<1>10. req' = [req EXCEPT ![r] = q]
  BY <1>1 DEF IInv, TypeOK
<1> HIDE DEF q
<1> QED
  BY <1>8, <1>9, <1>10, RequestStep, ConstantsAssumption
  DEF ReplayExisting, IInv, TypeOK, convVars, peopleVars, tableVars

-----------------------------------------------------------------------------
(* The steps that write the tables *)

\* The commit of a send: the row lock is what makes the new sequence the next one.
LEMMA InsertMessageStep ==
  ASSUME IInv, NEW r \in Requests, InsertMessage(r)
  PROVE  IInv'
<1> DEFINE u == req[r].user
           i == Len(messages) + 1
           row == [sender |-> u, sequence |-> NextSequence(r), key |-> req[r].key,
                   body |-> req[r].body, status |-> "sent", deletedAt |-> FALSE,
                   moderated |-> FALSE]
           q == [req[r] EXCEPT !.pc = "committed", !.msg = i, !.shown = req[r].body]
<1>1. /\ req[r] \in Request /\ messages \in Seq(MessageRow) /\ lastSequence \in Nat
      /\ participants \subseteq Users /\ i \in Nat
  BY DEF IInv, TypeOK
<1>2. u \in Users /\ req[r].body \in Bodies
  BY DEF IInv, SendsAreComplete, InsertMessage
<1>3. NextSequence(r) = i /\ i = lastSequence + 1
  BY DEF NextSequence, InsertMessage, IInv, LockGuardsTheConversation, CommittedInSequence
<1>4. req[r].key \in Keys \cup {None}
  BY <1>1 DEF Request
<1>5. row \in MessageRow
  BY <1>1, <1>2, <1>3, <1>4 DEF MessageRow
<1> HIDE DEF row
<1>6. messages' = Append(messages, row)
  BY DEF InsertMessage, row
<1>7. /\ messages' \in Seq(MessageRow) /\ Len(messages') = i
      /\ DOMAIN messages' = DOMAIN messages \cup {i}
      /\ \A j \in DOMAIN messages : messages'[j] = messages[j]
      /\ messages'[i] = row
  BY <1>1, <1>5, <1>6
<1>8. CreatedEvent(r, i) \in Event
  BY <1>1, <1>2, <1>3 DEF CreatedEvent, Event
<1>9. q \in Request /\ q.pc = "committed" /\ q.user = u /\ q.body = req[r].body
  <2>1. q \in Request
    BY <1>1, <1>2, RequestAnswered DEF Stages
  <2> QED
    BY <2>1, <1>1 DEF Request
<1>10. lock = r /\ lock' = None
  BY DEF InsertMessage, IInv, LockGuardsTheConversation
<1>11. req' = [req EXCEPT ![r] = q]
  BY DEF InsertMessage, IInv, TypeOK
<1> HIDE DEF q
<1>12. /\ req' \in [Requests -> Request]
       /\ req'[r] = q
       /\ \A s \in Requests : s # r => req'[s] = req[s]
  BY <1>9, <1>11, OneRequestMoves DEF IInv
<1>13. \A s \in Requests : req'[s].pc # "locked"
  BY <1>9, <1>10, <1>12 DEF IInv, LockGuardsTheConversation
<1>14. TypeOK'
  <2>1. unread' \subseteq (DOMAIN messages') \X Users /\ read' \subseteq (DOMAIN messages') \X Users
    BY <1>1, <1>7 DEF InsertMessage, IInv, TypeOK
  <2>2. outbox' \in Seq(Event)
    BY <1>8 DEF InsertMessage, IInv, TypeOK
  <2> QED
    BY <2>1, <2>2, <1>1, <1>3, <1>7, <1>10, <1>12 DEF InsertMessage, IInv, TypeOK, peopleVars
<1>15. LockGuardsTheConversation'
  BY <1>10, <1>13, ConstantsAssumption DEF LockGuardsTheConversation
<1>16. SendsAreComplete'
  BY <1>2, <1>9, <1>12 DEF IInv, SendsAreComplete
<1>17. DeletionsKnowTheirRow'
  BY <1>7, <1>9, <1>12 DEF IInv, DeletionsKnowTheirRow
<1>18. CommittedInSequence'
  BY <1>3, <1>7 DEF IInv, CommittedInSequence, InsertMessage, row
<1> QED
  BY <1>14, <1>15, <1>16, <1>17, <1>18 DEF IInv

\* A step that rewrites rows and leaves what identifies them.
LEMMA RowsRewritten ==
  ASSUME IInv,
         messages' \in Seq(MessageRow), Len(messages') = Len(messages),
         \A i \in DOMAIN messages : /\ messages'[i].sender = messages[i].sender
                                    /\ messages'[i].sequence = messages[i].sequence
                                    /\ messages'[i].key = messages[i].key,
         \/ UNCHANGED req
         \/ \E r \in Requests : req[r].pc # "locked" /\ req' = [req EXCEPT ![r] = IdleRequest],
         anonymized' \subseteq Users,
         UNCHANGED <<convVars, participants, lastRead, unread, read, outbox, lock, window, crashes>>
  PROVE  IInv'
<1> USE DEF IInv, convVars
<1>1. DOMAIN messages' = DOMAIN messages
  BY DEF TypeOK
<1>2. IdleRequest.pc = "idle"
  BY DEF IdleRequest
<1>3. /\ req' \in [Requests -> Request]
      /\ \A r \in Requests : req'[r] = req[r] \/ (req'[r].pc = "idle" /\ req[r].pc # "locked")
  BY <1>2, IdleIsARequest DEF TypeOK
<1>4. TypeOK'
  BY <1>1, <1>3 DEF TypeOK
<1>5. LockGuardsTheConversation'
  BY <1>3 DEF LockGuardsTheConversation
<1>6. SendsAreComplete'
  BY <1>3 DEF SendsAreComplete
<1>7. DeletionsKnowTheirRow'
  BY <1>1, <1>3 DEF DeletionsKnowTheirRow
<1>8. CommittedInSequence'
  BY <1>1 DEF CommittedInSequence
<1> QED
  BY <1>4, <1>5, <1>6, <1>7, <1>8

\* What a deletion writes, and where.
LEMMA SaveDeletedWrites ==
  ASSUME IInv, NEW r \in Requests, SaveDeleted(r)
  PROVE  \E row \in MessageRow :
           /\ req[r].msg \in DOMAIN messages
           /\ messages' = [messages EXCEPT ![req[r].msg] = row]
           /\ row.sender = messages[req[r].msg].sender
           /\ row.sequence = messages[req[r].msg].sequence
           /\ row.key = messages[req[r].msg].key
           /\ row.deletedAt = TRUE /\ row.body = None
<1> DEFINE i == req[r].msg
           entity == req[r].row
<1>1. /\ i \in DOMAIN messages /\ entity \in MessageRow
      /\ entity.sender = messages[i].sender /\ entity.sequence = messages[i].sequence
      /\ entity.key = messages[i].key
  BY DEF SaveDeleted, IInv, DeletionsKnowTheirRow
<1>2. PICK mark \in {entity.moderated, messages[i].moderated} :
        messages' = [messages EXCEPT ![i] = [DeletedRow(entity) EXCEPT !.moderated = mark]]
  BY DEF SaveDeleted
<1>3. messages[i] \in MessageRow
  BY <1>1, RowOfMessages DEF IInv, TypeOK
<1>4. mark \in BOOLEAN
  BY <1>1, <1>2, <1>3 DEF MessageRow
<1> DEFINE row == [DeletedRow(entity) EXCEPT !.moderated = mark]
<1>5. /\ row \in MessageRow
      /\ row.sender = entity.sender /\ row.sequence = entity.sequence /\ row.key = entity.key
      /\ row.deletedAt = TRUE /\ row.body = None
  BY <1>1, <1>4, DeletionKeepsIdentity
<1> HIDE DEF row
<1> QED
  BY <1>1, <1>2, <1>5 DEF row

LEMMA SaveDeletedStep ==
  ASSUME IInv, NEW r \in Requests, SaveDeleted(r)
  PROVE  IInv'
<1>1. PICK row \in MessageRow :
           /\ req[r].msg \in DOMAIN messages
           /\ messages' = [messages EXCEPT ![req[r].msg] = row]
           /\ row.sender = messages[req[r].msg].sender
           /\ row.sequence = messages[req[r].msg].sequence
           /\ row.key = messages[req[r].msg].key
  BY SaveDeletedWrites
<1>2. /\ messages' \in Seq(MessageRow) /\ Len(messages') = Len(messages)
      /\ messages'[req[r].msg] = row
      /\ \A j \in DOMAIN messages : j # req[r].msg => messages'[j] = messages[j]
  BY <1>1, RowReplaced DEF IInv, TypeOK
<1>3. \A i \in DOMAIN messages : /\ messages'[i].sender = messages[i].sender
                                 /\ messages'[i].sequence = messages[i].sequence
                                 /\ messages'[i].key = messages[i].key
  BY <1>1, <1>2
<1> QED
  BY <1>2, <1>3, RowsRewritten DEF SaveDeleted, IInv, TypeOK, convVars, peopleVars

LEMMA HideMessageStep ==
  ASSUME IInv, NEW m, NEW i \in DOMAIN messages, HideMessage(m, i)
  PROVE  IInv'
<1>1. messages[i] \in MessageRow
  BY RowOfMessages DEF IInv, TypeOK
<1>2. HiddenRow(messages[i]) \in MessageRow
  BY <1>1, RowsKeepIdentity
<1>3. messages' = [messages EXCEPT ![i] = HiddenRow(messages[i])]
  BY DEF HideMessage
<1>4. /\ messages' \in Seq(MessageRow) /\ Len(messages') = Len(messages)
      /\ messages'[i] = HiddenRow(messages[i])
      /\ \A j \in DOMAIN messages : j # i => messages'[j] = messages[j]
  BY <1>2, <1>3, RowReplaced DEF IInv, TypeOK
<1>5. /\ messages'[i].sender = messages[i].sender
      /\ messages'[i].sequence = messages[i].sequence
      /\ messages'[i].key = messages[i].key
  BY <1>1, <1>4, RowsKeepIdentity
<1>6. \A j \in DOMAIN messages : /\ messages'[j].sender = messages[j].sender
                                 /\ messages'[j].sequence = messages[j].sequence
                                 /\ messages'[j].key = messages[j].key
  BY <1>4, <1>5
<1> QED
  BY <1>4, <1>6, RowsRewritten DEF HideMessage, IInv, TypeOK, convVars, peopleVars

LEMMA AnonymizeStep ==
  ASSUME IInv, NEW u \in Leavers, Anonymize(u)
  PROVE  IInv'
<1>1. \A i \in DOMAIN messages :
        /\ messages'[i] \in MessageRow
        /\ messages'[i].sender = messages[i].sender
        /\ messages'[i].sequence = messages[i].sequence
        /\ messages'[i].key = messages[i].key
  <2> SUFFICES ASSUME NEW i \in DOMAIN messages
               PROVE  /\ messages'[i] \in MessageRow
                      /\ messages'[i].sender = messages[i].sender
                      /\ messages'[i].sequence = messages[i].sequence
                      /\ messages'[i].key = messages[i].key
    OBVIOUS
  <2>1. messages[i] \in MessageRow
    BY RowOfMessages DEF IInv, TypeOK
  <2>2. messages'[i] = WipedRow(messages[i]) \/ messages'[i] = messages[i]
    BY DEF Anonymize
  <2> QED
    BY <2>1, <2>2, RowsKeepIdentity
<1>2. messages' \in Seq(MessageRow) /\ Len(messages') = Len(messages)
  <2>1. messages \in Seq(MessageRow)
    BY DEF IInv, TypeOK
  <2>2. messages' = [i \in 1..Len(messages) |-> messages'[i]]
    BY <2>1 DEF Anonymize
  <2> QED
    BY <1>1, <2>1, <2>2
<1>3. anonymized' \subseteq Users
  BY ConstantsAssumption DEF Anonymize, IInv, TypeOK
<1> QED
  BY <1>1, <1>2, <1>3, RowsRewritten DEF Anonymize, convVars

LEMMA MarkReadStep ==
  ASSUME IInv, NEW u \in Users, NEW upto \in 1..lastSequence, MarkRead(u, upto)
  PROVE  IInv'
<1> USE DEF IInv, MarkRead, convVars
<1>1. upto \in Nat
  BY DEF TypeOK
<1>2. participants' \subseteq Users
  BY AccessAddsAUser
<1>3. [type |-> "message.read", user |-> u, sequence |-> upto, message |-> 0, body |-> None] \in Event
  BY <1>1 DEF Event
<1>4. outbox' \in Seq(Event)
  BY <1>3 DEF TypeOK
<1>5. CoveredBy(u, upto) \subseteq unread
  BY DEF CoveredBy
<1>6. TypeOK'
  BY <1>1, <1>2, <1>4, <1>5 DEF TypeOK
<1> QED
  BY <1>6 DEF LockGuardsTheConversation, SendsAreComplete, DeletionsKnowTheirRow, CommittedInSequence

LEMMA EnableE2eeStep ==
  ASSUME IInv, NEW r \in Requests, EnableE2ee(r)
  PROVE  IInv'
<1> USE DEF IInv, EnableE2ee, RowLockFree, peopleVars, tableVars
<1>1. IdleRequest.pc = "idle"
  BY DEF IdleRequest
<1>2. /\ req' \in [Requests -> Request]
      /\ req'[r] = IdleRequest
      /\ \A s \in Requests : s # r => req'[s] = req[s]
  BY IdleIsARequest, OneRequestMoves
<1>3. TypeOK'
  BY <1>2 DEF TypeOK
<1>4. \A s \in Requests : req'[s].pc # "locked" /\ lock' # s
  BY <1>1, <1>2, ConstantsAssumption DEF LockGuardsTheConversation
<1>5. LockGuardsTheConversation'
  BY <1>4 DEF LockGuardsTheConversation
<1>6. SendsAreComplete' /\ DeletionsKnowTheirRow' /\ CommittedInSequence'
  BY <1>1, <1>2 DEF SendsAreComplete, DeletionsKnowTheirRow, CommittedInSequence
<1> QED
  BY <1>3, <1>5, <1>6

-----------------------------------------------------------------------------
(* The readers, who write nothing but their own window *)

Window == [lo : Nat, hi : Nat, seen : SUBSET Nat]

\* A step of a paging client writes nothing the invariant is about.
LEMMA WindowStep ==
  ASSUME IInv, window' \in [Readers -> Window], participants' \subseteq Users,
         UNCHANGED <<convVars, lastRead, anonymized, tableVars, lock, req, crashes>>
  PROVE  IInv'
<1> USE DEF IInv, convVars, tableVars, Window
<1>1. TypeOK'
  BY DEF TypeOK
<1> QED
  BY <1>1 DEF LockGuardsTheConversation, SendsAreComplete, DeletionsKnowTheirRow, CommittedInSequence

\* A page of the list is made of rows, and a row has a sequence.
LEMMA PagesAreRows ==
  ASSUME IInv, NEW rows \in SUBSET Listed
  PROVE  /\ Newest(rows) \subseteq Nat /\ Oldest(rows) \subseteq Nat
         /\ \A i \in Newest(rows) \cup Oldest(rows) : messages[i].sequence \in Nat
<1>1. Newest(rows) \subseteq DOMAIN messages /\ Oldest(rows) \subseteq DOMAIN messages
  BY DEF Newest, Oldest, Listed
<1>2. \A i \in DOMAIN messages : i \in Nat /\ messages[i].sequence \in Nat
  <2> SUFFICES ASSUME NEW i \in DOMAIN messages PROVE i \in Nat /\ messages[i].sequence \in Nat
    OBVIOUS
  <2>1. messages[i] \in MessageRow /\ i \in Nat
    BY RowOfMessages DEF IInv, TypeOK
  <2> QED
    BY <2>1 DEF MessageRow
<1> QED
  BY <1>1, <1>2

LEMMA OpenListStep ==
  ASSUME IInv, NEW u \in Readers, OpenList(u)
  PROVE  IInv'
<1> DEFINE page == Newest(Listed)
<1>1. page \subseteq Nat /\ \A i \in page : messages[i].sequence \in Nat
  BY PagesAreRows
<1> HIDE DEF page
<1>2. PICK i \in page, j \in page :
        window' = [window EXCEPT ![u] = [lo |-> messages[i].sequence,
                                        hi |-> messages[j].sequence, seen |-> page]]
  BY DEF OpenList, page
<1>3. [lo |-> messages[i].sequence, hi |-> messages[j].sequence, seen |-> page] \in Window
  BY <1>1 DEF Window
<1>4. window' \in [Readers -> Window]
  BY <1>2, <1>3 DEF IInv, TypeOK, Window
<1>5. participants' \subseteq Users
  BY AccessAddsAUser, ConstantsAssumption DEF OpenList, IInv
<1> QED
  BY <1>4, <1>5, WindowStep DEF OpenList

LEMMA PollAfterStep ==
  ASSUME IInv, NEW u \in Readers, PollAfter(u)
  PROVE  IInv'
<1> DEFINE page == PageAfter(window[u].hi)
<1>1. page \subseteq Nat /\ \A i \in page : messages[i].sequence \in Nat
  BY PagesAreRows DEF PageAfter
<1> HIDE DEF page
<1>2. PICK j \in page :
        window' = [window EXCEPT ![u].hi = messages[j].sequence, ![u].seen = @ \cup page]
  BY DEF PollAfter, page
<1>3. window' \in [Readers -> Window]
  BY <1>1, <1>2 DEF IInv, TypeOK, Window
<1> QED
  BY <1>3, WindowStep DEF PollAfter, IInv, TypeOK, peopleVars

LEMMA ScrollBeforeStep ==
  ASSUME IInv, NEW u \in Readers, ScrollBefore(u)
  PROVE  IInv'
<1> DEFINE page == PageBefore(window[u].lo)
<1>1. page \subseteq Nat /\ \A i \in page : messages[i].sequence \in Nat
  BY PagesAreRows DEF PageBefore
<1> HIDE DEF page
<1>2. PICK i \in page :
        window' = [window EXCEPT ![u].lo = messages[i].sequence, ![u].seen = @ \cup page]
  BY DEF ScrollBefore, page
<1>3. window' \in [Readers -> Window]
  BY <1>1, <1>2 DEF IInv, TypeOK, Window
<1> QED
  BY <1>3, WindowStep DEF ScrollBefore, IInv, TypeOK, peopleVars

-----------------------------------------------------------------------------
(* Every step keeps the invariant *)

\* Every step of the backend keeps the invariant, one lemma per action.
LEMMA NextIInv == IInv /\ [Next]_vars => IInv'
<1> SUFFICES ASSUME IInv, [Next]_vars PROVE IInv'
  OBVIOUS
<1>1. CASE UNCHANGED vars
  BY <1>1 DEF vars, convVars, peopleVars, tableVars, IInv, TypeOK, LockGuardsTheConversation,
     SendsAreComplete, DeletionsKnowTheirRow, CommittedInSequence
<1>2. ASSUME NEW r \in Requests, Proceed(r) PROVE IInv'
  <2>1. CASE LockConversation(r)
    BY <2>1, LockConversationStep
  <2>2. CASE RefuseE2ee(r)
    BY <2>2, RequestEnds DEF RefuseE2ee
  <2>3. CASE ReplayExisting(r)
    BY <2>3, ReplayExistingStep
  <2>4. CASE InsertMessage(r)
    BY <2>4, InsertMessageStep
  <2>5. CASE Publish(r)
    BY <2>5, RequestEnds DEF Publish
  <2>6. CASE Resend(r)
    BY <2>6, ResendStep
  <2>7. CASE SaveDeleted(r)
    BY <2>7, SaveDeletedStep
  <2>8. CASE EnableE2ee(r)
    BY <2>8, EnableE2eeStep
  <2> QED
    BY <1>2, <2>1, <2>2, <2>3, <2>4, <2>5, <2>6, <2>7, <2>8 DEF Proceed
<1>3. ASSUME NEW r \in Requests, Crash(r) PROVE IInv'
  BY <1>3, CrashStep
<1>4. ASSUME NEW r \in Requests, NEW u \in Users, NEW k \in Keys \cup {None}, NEW b \in Bodies,
             Arrive(r, u, k, b)
      PROVE  IInv'
  BY <1>4, ArriveStep
<1>5. ASSUME NEW r \in Requests, NEW i \in DOMAIN messages, FindToDelete(r, i) PROVE IInv'
  BY <1>5, FindToDeleteStep
<1>6. ASSUME NEW r \in Requests, NEW u \in Users, CheckE2ee(r, u) PROVE IInv'
  BY <1>6, CheckE2eeStep
<1>7. ASSUME NEW m \in Moderators, NEW i \in DOMAIN messages, HideMessage(m, i) PROVE IInv'
  BY <1>7, HideMessageStep
<1>8. ASSUME NEW u \in Leavers, Anonymize(u) PROVE IInv'
  BY <1>8, AnonymizeStep
<1>9. ASSUME NEW u \in Users, NEW upto \in 1..lastSequence, MarkRead(u, upto) PROVE IInv'
  BY <1>9, MarkReadStep
<1>10. ASSUME NEW u \in Readers, OpenList(u) \/ PollAfter(u) \/ ScrollBefore(u) PROVE IInv'
  BY <1>10, OpenListStep, PollAfterStep, ScrollBeforeStep
<1> QED
  BY <1>1, <1>2, <1>3, <1>4, <1>5, <1>6, <1>7, <1>8, <1>9, <1>10 DEF Next

\* In every state of every run of the backend: the holder of the conversation's
\* row lock is the one send inside its transaction, what it read under the lock
\* is still so, and rows are committed in sequence order without a hole.
THEOREM InvariantHolds == Spec => []IInv
<1>1. Init => IInv
  BY InitIInv
<1>2. IInv /\ [Next]_vars => IInv'
  BY NextIInv
<1> QED
  BY <1>1, <1>2, PTL DEF Spec

\* The variables of the model keep their types: rows, events and requests stay
\* what the columns of the tables and the handlers of MessagesService admit.
THEOREM TypeCorrect == Spec => []TypeOK
<1>1. IInv => TypeOK
  BY DEF IInv
<1> QED
  BY <1>1, InvariantHolds, PTL

\* For any number of concurrent sends, crashes and resends, the sequences that
\* MessagesService.send hands out are 1 .. last_sequence, each once.
THEOREM SequencesAreGapFree == Spec => []SequencesGapFree
<1>1. IInv => SequencesGapFree
  <2> SUFFICES ASSUME IInv PROVE SequencesGapFree
    OBVIOUS
  <2>1. DOMAIN messages = 1..lastSequence /\ \A i \in DOMAIN messages : messages[i].sequence = i
    BY DEF IInv, TypeOK, CommittedInSequence
  <2> QED
    BY <2>1 DEF SequencesGapFree
<1> QED
  BY <1>1, InvariantHolds, PTL

-----------------------------------------------------------------------------
(* What a step that inserts nothing does to the rows *)

\* A row keeps its sender, its sequence and its key; its body stays or goes; a
\* deletion stays.
SameRow(new, old) ==
  /\ new.sender = old.sender /\ new.sequence = old.sequence /\ new.key = old.key
  /\ new.body = old.body \/ new.body = None
  /\ old.deletedAt => new.deletedAt

SameRows ==
  /\ DOMAIN messages' = DOMAIN messages
  /\ \A i \in DOMAIN messages : SameRow(messages'[i], messages[i])

LEMMA SaveDeletedKeepsRows ==
  ASSUME IInv, NEW r \in Requests, SaveDeleted(r)
  PROVE  SameRows
<1>1. PICK row \in MessageRow :
           /\ req[r].msg \in DOMAIN messages
           /\ messages' = [messages EXCEPT ![req[r].msg] = row]
           /\ row.sender = messages[req[r].msg].sender
           /\ row.sequence = messages[req[r].msg].sequence
           /\ row.key = messages[req[r].msg].key
           /\ row.deletedAt = TRUE /\ row.body = None
  BY SaveDeletedWrites
<1>2. /\ DOMAIN messages' = DOMAIN messages
      /\ messages'[req[r].msg] = row
      /\ \A j \in DOMAIN messages : j # req[r].msg => messages'[j] = messages[j]
  BY <1>1, RowReplaced DEF IInv, TypeOK
<1> QED
  BY <1>1, <1>2 DEF SameRows, SameRow

LEMMA HideMessageKeepsRows ==
  ASSUME IInv, NEW m, NEW i \in DOMAIN messages, HideMessage(m, i)
  PROVE  SameRows
<1>1. messages[i] \in MessageRow
  BY RowOfMessages DEF IInv, TypeOK
<1>2. HiddenRow(messages[i]) \in MessageRow /\ SameRow(HiddenRow(messages[i]), messages[i])
  BY <1>1, RowsKeepIdentity DEF SameRow
<1>3. messages' = [messages EXCEPT ![i] = HiddenRow(messages[i])]
  BY DEF HideMessage
<1>4. /\ DOMAIN messages' = DOMAIN messages
      /\ messages'[i] = HiddenRow(messages[i])
      /\ \A j \in DOMAIN messages : j # i => messages'[j] = messages[j]
  BY <1>2, <1>3, RowReplaced DEF IInv, TypeOK
<1>5. SameRow(messages'[i], messages[i])
  BY <1>2, <1>4
<1> QED
  BY <1>4, <1>5 DEF SameRows, SameRow

LEMMA AnonymizeKeepsRows ==
  ASSUME IInv, NEW u \in Leavers, Anonymize(u)
  PROVE  SameRows
<1>1. DOMAIN messages' = DOMAIN messages
  BY DEF Anonymize
<1>2. ASSUME NEW i \in DOMAIN messages PROVE SameRow(messages'[i], messages[i])
  <2>1. messages[i] \in MessageRow
    BY RowOfMessages DEF IInv, TypeOK
  <2>2. messages'[i] = WipedRow(messages[i]) \/ messages'[i] = messages[i]
    BY DEF Anonymize
  <2> QED
    BY <2>1, <2>2, RowsKeepIdentity DEF SameRow
<1> QED
  BY <1>1, <1>2 DEF SameRows

\* The only step that adds a row or moves last_sequence is the insert; the only
\* others that touch the outbox or the cursors are those of markRead.
LEMMA StepKeepsRows ==
  ASSUME IInv, [Next]_vars, \A r \in Requests : ~InsertMessage(r)
  PROVE  SameRows /\ lastSequence' = lastSequence
<1>1. lastSequence' = lastSequence
  BY DEF Next, Proceed, LockConversation, RefuseE2ee, ReplayExisting, Publish, Resend,
         SaveDeleted, EnableE2ee, Crash, Arrive, FindToDelete, CheckE2ee, HideMessage,
         Anonymize, MarkRead, OpenList, PollAfter, ScrollBefore, convVars, vars
<1>2. CASE UNCHANGED messages
  BY <1>1, <1>2 DEF SameRows, SameRow
<1>3. CASE \E r \in Requests : SaveDeleted(r)
  BY <1>1, <1>3, SaveDeletedKeepsRows
<1>4. CASE \E m \in Moderators, i \in DOMAIN messages : HideMessage(m, i)
  BY <1>1, <1>4, HideMessageKeepsRows
<1>5. CASE \E u \in Leavers : Anonymize(u)
  BY <1>1, <1>5, AnonymizeKeepsRows
<1>6. \/ UNCHANGED messages
      \/ \E r \in Requests : SaveDeleted(r)
      \/ \E m \in Moderators, i \in DOMAIN messages : HideMessage(m, i)
      \/ \E u \in Leavers : Anonymize(u)
  BY DEF Next, Proceed, LockConversation, RefuseE2ee, ReplayExisting, Publish, Resend,
         EnableE2ee, Crash, Arrive, FindToDelete, CheckE2ee,
         MarkRead, OpenList, PollAfter, ScrollBefore, tableVars, vars
<1> QED
  BY <1>1, <1>2, <1>3, <1>4, <1>5, <1>6

\* What an insert adds, once the lock has done its work.
LEMMA InsertAdds ==
  ASSUME IInv, NEW r \in Requests, InsertMessage(r)
  PROVE  /\ lastSequence' = lastSequence + 1
         /\ Len(messages) = lastSequence
         /\ DOMAIN messages' = DOMAIN messages \cup {lastSequence'}
         /\ \A i \in DOMAIN messages : messages'[i] = messages[i]
         /\ messages'[lastSequence'].sender = req[r].user
         /\ messages'[lastSequence'].sequence = lastSequence'
         /\ messages'[lastSequence'].key = req[r].key
         /\ messages'[lastSequence'].body = req[r].body
         /\ messages'[lastSequence'].deletedAt = FALSE
<1>1. messages \in Seq(MessageRow) /\ lastSequence \in Nat
  BY DEF IInv, TypeOK
<1>2. NextSequence(r) = lastSequence + 1 /\ Len(messages) = lastSequence
  BY DEF NextSequence, InsertMessage, IInv, LockGuardsTheConversation, CommittedInSequence
<1> DEFINE row == [sender |-> req[r].user, sequence |-> NextSequence(r), key |-> req[r].key,
                   body |-> req[r].body, status |-> "sent", deletedAt |-> FALSE,
                   moderated |-> FALSE]
<1>3. /\ row.sender = req[r].user /\ row.sequence = NextSequence(r)
      /\ row.key = req[r].key /\ row.body = req[r].body /\ row.deletedAt = FALSE
  OBVIOUS
<1> HIDE DEF row
<1>4. messages' = Append(messages, row) /\ lastSequence' = NextSequence(r)
  BY DEF InsertMessage, row
<1> QED
  BY <1>1, <1>2, <1>3, <1>4

-----------------------------------------------------------------------------
(* The safety properties that need more than the invariant *)

\* A sender's Idempotency-Key stores one message however often it is resent and
\* whatever became of the row: the lookup of MessagesService.send is made under
\* the row lock and looks at deleted and hidden rows too.
THEOREM KeysAreHonoured == Spec => []OneMessagePerKey
<1>1. Init => OneMessagePerKey
  BY DEF Init, OneMessagePerKey
<1>2. ASSUME IInv, OneMessagePerKey, [Next]_vars PROVE OneMessagePerKey'
  <2>1. CASE \E r \in Requests : InsertMessage(r)
    <3>1. PICK r \in Requests : InsertMessage(r)
      BY <2>1
    <3>2. \A i \in DOMAIN messages :
            ~(req[r].key # None /\ messages[i].sender = req[r].user /\ messages[i].key = req[r].key)
      BY <3>1 DEF InsertMessage, Existing
    <3>3. /\ DOMAIN messages' = DOMAIN messages \cup {lastSequence'}
          /\ \A i \in DOMAIN messages : messages'[i] = messages[i]
          /\ messages'[lastSequence'].sender = req[r].user
          /\ messages'[lastSequence'].key = req[r].key
      BY <1>2, <3>1, InsertAdds
    <3>4. \A i \in DOMAIN messages' : i \in DOMAIN messages \/ i = lastSequence'
      BY <3>3
    <3>5. ASSUME NEW i \in DOMAIN messages', NEW j \in DOMAIN messages',
                 messages'[i].key # None, messages'[i].key = messages'[j].key,
                 messages'[i].sender = messages'[j].sender
          PROVE  i = j
      BY <1>2, <3>2, <3>3, <3>4, <3>5 DEF OneMessagePerKey
    <3> QED
      BY <3>5 DEF OneMessagePerKey
  <2>2. CASE \A r \in Requests : ~InsertMessage(r)
    BY <1>2, <2>2, StepKeepsRows DEF OneMessagePerKey, SameRows, SameRow
  <2> QED
    BY <2>1, <2>2
<1> QED
  BY <1>1, <1>2, InvariantHolds, PTL DEF Spec


\* Once E2eeService.enableE2ee has committed, no message in clear is stored:
\* a send that waited for the row lock reads the flag again under it.
THEOREM ClearTextStops == Spec => NoClearTextAfterE2ee
<1>1. IInv /\ [Next]_vars => [e2ee => e2ee' /\ Len(messages') = Len(messages)]_vars
  <2> SUFFICES ASSUME IInv, [Next]_vars, e2ee
               PROVE  e2ee' /\ Len(messages') = Len(messages)
    OBVIOUS
  <2>1. \A r \in Requests : ~InsertMessage(r)
    BY DEF InsertMessage, IInv, LockGuardsTheConversation
  <2>2. DOMAIN messages' = DOMAIN messages
    BY <2>1, StepKeepsRows DEF SameRows
  <2>3. messages \in Seq(MessageRow) /\ messages' \in Seq(MessageRow)
    BY NextIInv DEF IInv, TypeOK
  <2>4. Len(messages') = Len(messages)
    BY <2>2, <2>3
  <2>5. e2ee'
    BY DEF Next, Proceed, LockConversation, RefuseE2ee, ReplayExisting, InsertMessage, Publish,
           Resend, SaveDeleted, EnableE2ee, Crash, Arrive, FindToDelete, CheckE2ee, HideMessage,
           Anonymize, MarkRead, OpenList, PollAfter, ScrollBefore, convVars, vars
  <2> QED
    BY <2>4, <2>5
<1> QED
  BY <1>1, InvariantHolds, PTL DEF Spec, NoClearTextAfterE2ee

\* A row with deleted_at set has no body.
DeletedRowsAreEmpty ==
  \A i \in DOMAIN messages : messages[i].deletedAt => messages[i].body = None

\* What softDelete and the anonymisation write has no body, so a row that
\* becomes deleted becomes empty.
DeletedTogether(new, old) ==
  new.deletedAt => old.deletedAt \/ new.body = None

\* A step that sets deleted_at on a row leaves it without a body.
LEMMA DeletionEmptiesRows ==
  ASSUME IInv, [Next]_vars, NEW i \in DOMAIN messages
  PROVE  DeletedTogether(messages'[i], messages[i])
<1>1. CASE \E r \in Requests : InsertMessage(r)
  BY <1>1, InsertAdds DEF DeletedTogether
<1>2. CASE \E r \in Requests : SaveDeleted(r)
  <2>1. PICK r \in Requests : SaveDeleted(r)
    BY <1>2
  <2>2. PICK row \in MessageRow :
           /\ req[r].msg \in DOMAIN messages
           /\ messages' = [messages EXCEPT ![req[r].msg] = row]
           /\ row.body = None
    BY <2>1, SaveDeletedWrites
  <2>3. messages'[i] = row \/ messages'[i] = messages[i]
    BY <2>2
  <2> QED
    BY <2>2, <2>3 DEF DeletedTogether
<1>3. CASE \E m \in Moderators, j \in DOMAIN messages : HideMessage(m, j)
  <2>1. messages'[i] = HiddenRow(messages[i]) \/ messages'[i] = messages[i]
    BY <1>3 DEF HideMessage
  <2>2. messages[i] \in MessageRow
    BY RowOfMessages DEF IInv, TypeOK
  <2> QED
    BY <2>1, <2>2, RowsKeepIdentity DEF DeletedTogether
<1>4. CASE \E u \in Leavers : Anonymize(u)
  <2>1. messages'[i] = WipedRow(messages[i]) \/ messages'[i] = messages[i]
    BY <1>4 DEF Anonymize
  <2>2. messages[i] \in MessageRow
    BY RowOfMessages DEF IInv, TypeOK
  <2>3. WipedRow(messages[i]).body = None
    BY <2>2, RowsKeepIdentity
  <2> QED
    BY <2>1, <2>3 DEF DeletedTogether
<1>5. CASE UNCHANGED messages
  BY <1>5 DEF DeletedTogether
<1>6. \/ \E r \in Requests : InsertMessage(r)
      \/ \E r \in Requests : SaveDeleted(r)
      \/ \E m \in Moderators, j \in DOMAIN messages : HideMessage(m, j)
      \/ \E u \in Leavers : Anonymize(u)
      \/ UNCHANGED messages
  BY DEF Next, Proceed, LockConversation, RefuseE2ee, ReplayExisting, Publish, Resend,
         EnableE2ee, Crash, Arrive, FindToDelete, CheckE2ee,
         MarkRead, OpenList, PollAfter, ScrollBefore, tableVars, vars
<1> QED
  BY <1>1, <1>2, <1>3, <1>4, <1>5, <1>6

\* What a step does to a row that is there before it, insert or not.
LEMMA RowsPersist ==
  ASSUME IInv, [Next]_vars, NEW i \in DOMAIN messages
  PROVE  i \in DOMAIN messages' /\ SameRow(messages'[i], messages[i])
<1>1. CASE \E r \in Requests : InsertMessage(r)
  BY <1>1, InsertAdds DEF SameRow
<1>2. CASE \A r \in Requests : ~InsertMessage(r)
  BY <1>2, StepKeepsRows DEF SameRows
<1> QED
  BY <1>1, <1>2

\* Only an insert makes a new row, and it makes it undeleted.
LEMMA NewRowsAreUndeleted ==
  ASSUME IInv, [Next]_vars, NEW i \in DOMAIN messages', i \notin DOMAIN messages
  PROVE  ~messages'[i].deletedAt
<1>1. CASE \E r \in Requests : InsertMessage(r)
  BY <1>1, InsertAdds
<1>2. CASE \A r \in Requests : ~InsertMessage(r)
  BY <1>2, StepKeepsRows DEF SameRows
<1> QED
  BY <1>1, <1>2

\* A message deleted by MessagesService.softDelete or by the anonymisation
\* stays deleted and empty under every later write of its row, the stale save
\* of another deletion and the blind UPDATE of a moderation included.
THEOREM DeletionsLast == Spec => DeletionIsFinal
<1>1. Init => DeletedRowsAreEmpty
  BY DEF Init, DeletedRowsAreEmpty
<1>2. IInv /\ DeletedRowsAreEmpty /\ [Next]_vars => DeletedRowsAreEmpty'
  <2> SUFFICES ASSUME IInv, DeletedRowsAreEmpty, [Next]_vars,
                      NEW i \in DOMAIN messages', messages'[i].deletedAt
               PROVE  messages'[i].body = None
    BY DEF DeletedRowsAreEmpty
  <2>1. i \in DOMAIN messages
    BY NewRowsAreUndeleted
  <2>2. SameRow(messages'[i], messages[i]) /\ DeletedTogether(messages'[i], messages[i])
    BY <2>1, RowsPersist, DeletionEmptiesRows
  <2> QED
    BY <2>1, <2>2 DEF SameRow, DeletedTogether, DeletedRowsAreEmpty
<1>3. IInv /\ DeletedRowsAreEmpty /\ [Next]_vars
      => [\A i \in DOMAIN messages : messages[i].deletedAt =>
            i \in DOMAIN messages' /\ messages'[i].deletedAt /\ messages'[i].body = None]_vars
  <2> SUFFICES ASSUME IInv, DeletedRowsAreEmpty, [Next]_vars,
                      NEW i \in DOMAIN messages, messages[i].deletedAt
               PROVE  i \in DOMAIN messages' /\ messages'[i].deletedAt /\ messages'[i].body = None
    OBVIOUS
  <2>1. i \in DOMAIN messages' /\ SameRow(messages'[i], messages[i])
    BY RowsPersist
  <2> QED
    BY <2>1 DEF SameRow, DeletedRowsAreEmpty
<1> QED
  BY <1>1, <1>2, <1>3, InvariantHolds, PTL DEF Spec, DeletionIsFinal

-----------------------------------------------------------------------------
(* The read cursor and the receipts *)

\* No cursor is ahead of the conversation: a client acknowledges what it got.
CursorsBehind == \A u \in Users : lastRead[u] <= lastSequence

\* No read cursor ever runs ahead of last_sequence.
LEMMA CursorsStayBehind ==
  ASSUME IInv, CursorsBehind, [Next]_vars
  PROVE  CursorsBehind'
<1>1. lastSequence' \in Nat /\ lastSequence \in Nat /\ lastRead \in [Users -> Nat]
  BY NextIInv DEF IInv, TypeOK
<1>2. CASE \E r \in Requests : InsertMessage(r)
  <2>1. lastSequence' = lastSequence + 1 /\ lastRead' = lastRead
    BY <1>2, InsertAdds DEF InsertMessage, peopleVars
  <2> QED
    BY <1>1, <2>1 DEF CursorsBehind
<1>3. CASE \A r \in Requests : ~InsertMessage(r)
  <2>1. lastSequence' = lastSequence
    BY <1>3, StepKeepsRows
  <2>2. CASE \E u \in Users, upto \in 1..lastSequence : MarkRead(u, upto)
    <3>1. PICK v \in Users, upto \in 1..lastSequence : lastRead' = [lastRead EXCEPT ![v] = upto]
      BY <2>2 DEF MarkRead
    <3> QED
      BY <1>1, <2>1, <3>1 DEF CursorsBehind
  <2>3. CASE lastRead' = lastRead
    BY <2>1, <2>3 DEF CursorsBehind
  <2>4. \/ \E u \in Users, upto \in 1..lastSequence : MarkRead(u, upto)
        \/ lastRead' = lastRead
    BY <1>3 DEF Next, Proceed, LockConversation, RefuseE2ee, ReplayExisting, Publish, Resend,
       SaveDeleted, EnableE2ee, Crash, Arrive, FindToDelete, CheckE2ee, HideMessage,
       Anonymize, OpenList, PollAfter, ScrollBefore, peopleVars, vars
  <2> QED
    BY <2>2, <2>3, <2>4
<1> QED
  BY <1>2, <1>3


\* last_read_sequence and the receipts agree: MessagesService.markRead moves the
\* cursor and stamps the receipts it covers in one transaction, and a message
\* inserted afterwards has a larger sequence than any cursor.
THEOREM CursorsAgree == Spec => []ReadCursorAgreesWithReceipts
<1>1. Init => CursorsBehind /\ ReadCursorAgreesWithReceipts
  BY DEF Init, CursorsBehind, ReadCursorAgreesWithReceipts
<1>2. ASSUME IInv, CursorsBehind, ReadCursorAgreesWithReceipts, [Next]_vars
      PROVE  ReadCursorAgreesWithReceipts'
  <2> SUFFICES ASSUME NEW m \in unread'
               PROVE  messages'[m[1]].sequence > lastRead'[m[2]]
    BY DEF ReadCursorAgreesWithReceipts
  <2> USE <1>2
  <2>1. /\ lastSequence \in Nat /\ lastRead \in [Users -> Nat]
        /\ messages \in Seq(MessageRow)
        /\ unread \subseteq (DOMAIN messages) \X Users
        /\ participants \subseteq Users
    BY DEF IInv, TypeOK
  <2>2. CASE \E r \in Requests : InsertMessage(r)
    <3>1. PICK r \in Requests : InsertMessage(r)
      BY <2>2
    <3>2. /\ lastSequence' = lastSequence + 1
          /\ Len(messages) = lastSequence
          /\ \A i \in DOMAIN messages : messages'[i] = messages[i]
          /\ messages'[lastSequence'].sequence = lastSequence'
      BY <3>1, InsertAdds
    <3>3. lastRead' = lastRead
      BY <3>1 DEF InsertMessage, peopleVars
    <3>4. CASE m \in unread
      BY <2>1, <3>2, <3>3, <3>4 DEF ReadCursorAgreesWithReceipts
    <3>5. CASE m \notin unread
      <4>1. \E p \in participants : m = <<lastSequence', p>>
        BY <3>1, <3>2, <3>5 DEF InsertMessage
      <4>2. PICK p \in participants : m = <<lastSequence', p>>
        BY <4>1
      <4>3. lastRead[p] \in Nat /\ lastRead[p] <= lastSequence
        BY <2>1 DEF CursorsBehind
      <4>4. m[1] = lastSequence' /\ m[2] = p
        BY <4>2
      <4> QED
        BY <2>1, <3>2, <3>3, <4>3, <4>4
    <3> QED
      BY <3>4, <3>5
  <2>3. CASE \A r \in Requests : ~InsertMessage(r)
    <3>1. /\ DOMAIN messages' = DOMAIN messages
          /\ \A i \in DOMAIN messages : messages'[i].sequence = messages[i].sequence
      BY <2>3, StepKeepsRows DEF SameRows, SameRow
    <3>2. CASE \E u \in Users, upto \in 1..lastSequence : MarkRead(u, upto)
      <4>1. PICK u \in Users, upto \in 1..lastSequence : MarkRead(u, upto)
        BY <3>2
      <4>2. /\ lastRead' = [lastRead EXCEPT ![u] = upto]
            /\ m \in unread /\ m \notin CoveredBy(u, upto)
        BY <4>1 DEF MarkRead
      <4>3. m[1] \in DOMAIN messages /\ m[2] \in Users
        BY <2>1, <4>2
      <4>4. messages[m[1]].sequence \in Nat /\ upto \in Nat
        <5>1. messages[m[1]] \in MessageRow
          BY <2>1, <4>3, RowOfMessages
        <5> QED
          BY <5>1, <2>1 DEF MessageRow
      <4>5. CASE m[2] = u
        BY <2>1, <3>1, <4>2, <4>3, <4>4, <4>5 DEF CoveredBy
      <4>6. CASE m[2] # u
        BY <2>1, <3>1, <4>2, <4>3, <4>6 DEF ReadCursorAgreesWithReceipts
      <4> QED
        BY <4>5, <4>6
    <3>3. CASE lastRead' = lastRead /\ unread' = unread
      BY <2>1, <3>1, <3>3 DEF ReadCursorAgreesWithReceipts
    <3>4. \/ \E u \in Users, upto \in 1..lastSequence : MarkRead(u, upto)
          \/ lastRead' = lastRead /\ unread' = unread
      BY <2>3 DEF Next, Proceed, LockConversation, RefuseE2ee, ReplayExisting, Publish, Resend,
         SaveDeleted, EnableE2ee, Crash, Arrive, FindToDelete, CheckE2ee, HideMessage,
         Anonymize, OpenList, PollAfter, ScrollBefore, peopleVars, tableVars, vars
    <3> QED
      BY <3>2, <3>3, <3>4
  <2> QED
    BY <2>2, <2>3
<1>3. IInv /\ CursorsBehind /\ [Next]_vars => CursorsBehind'
  BY CursorsStayBehind
<1>4. IInv /\ CursorsBehind /\ ReadCursorAgreesWithReceipts /\ [Next]_vars
      => ReadCursorAgreesWithReceipts'
  BY <1>2
<1> QED
  BY <1>1, <1>3, <1>4, InvariantHolds, PTL DEF Spec


-----------------------------------------------------------------------------
(* The transactional outbox *)

\* A step that keeps the rows and announces nothing keeps the agreement.
LEMMA NothingAnnounced ==
  ASSUME IInv, OutboxAgreesWithMessages, SameRows, outbox' = outbox
  PROVE  OutboxAgreesWithMessages'
BY DEF OutboxAgreesWithMessages, CreatedAt, SameRows, SameRow

\* A message.read event says nothing of a message.
LEMMA ReadAnnounced ==
  ASSUME IInv, OutboxAgreesWithMessages, SameRows,
         NEW e, e.type = "message.read", outbox' = Append(outbox, e)
  PROVE  OutboxAgreesWithMessages'
<1>1. outbox \in Seq(Event)
  BY DEF IInv, TypeOK
<1>2. /\ DOMAIN outbox = 1..Len(outbox) /\ Len(outbox) \in Nat
      /\ DOMAIN outbox' = DOMAIN outbox \cup {Len(outbox) + 1}
      /\ \A n \in DOMAIN outbox : outbox'[n] = outbox[n]
      /\ outbox'[Len(outbox) + 1].type = "message.read"
  BY <1>1
<1>3. ASSUME NEW i \in DOMAIN messages' PROVE \E n \in DOMAIN outbox' : CreatedAt(n, i)'
  <2>1. PICK n \in DOMAIN outbox : CreatedAt(n, i)
    BY DEF SameRows, OutboxAgreesWithMessages
  <2> QED
    BY <1>2, <2>1 DEF CreatedAt
<1>4. ASSUME NEW n \in DOMAIN outbox', outbox'[n].type = "message.created"
      PROVE  /\ outbox'[n].message \in DOMAIN messages'
             /\ outbox'[n].sequence = messages'[outbox'[n].message].sequence
             /\ outbox'[n].user = messages'[outbox'[n].message].sender
             /\ \A m \in 1..(n - 1) : outbox'[m].type = "message.created" =>
                   outbox'[m].sequence < outbox'[n].sequence
  <2>1. n \in DOMAIN outbox
    BY <1>2, <1>4
  <2>2. \A m \in 1..(n - 1) : m \in DOMAIN outbox
    BY <1>2, <2>1
  <2> QED
    BY <1>2, <1>4, <2>1, <2>2 DEF OutboxAgreesWithMessages, SameRows, SameRow
<1> QED
  BY <1>3, <1>4 DEF OutboxAgreesWithMessages

\* The insert announces its row, behind all the others.
LEMMA CreatedAnnounced ==
  ASSUME IInv, OutboxAgreesWithMessages, NEW r \in Requests, InsertMessage(r)
  PROVE  OutboxAgreesWithMessages'
<1> DEFINE i == lastSequence'
           e == CreatedEvent(r, i)
<1>1. /\ i = lastSequence + 1 /\ Len(messages) = lastSequence
      /\ DOMAIN messages' = DOMAIN messages \cup {i}
      /\ \A j \in DOMAIN messages : messages'[j] = messages[j]
      /\ messages'[i].sender = req[r].user /\ messages'[i].sequence = i
  BY InsertAdds
<1>2. NextSequence(r) = i
  BY DEF InsertMessage
<1>3. /\ e.type = "message.created" /\ e.user = req[r].user
      /\ e.sequence = i /\ e.message = i
  BY <1>2 DEF CreatedEvent
<1>4. outbox' = Append(outbox, e)
  BY <1>1 DEF InsertMessage
<1>5. outbox \in Seq(Event) /\ lastSequence \in Nat
  BY DEF IInv, TypeOK
<1> HIDE DEF e
<1>6. /\ DOMAIN outbox = 1..Len(outbox) /\ Len(outbox) \in Nat
      /\ DOMAIN outbox' = DOMAIN outbox \cup {Len(outbox) + 1}
      /\ \A n \in DOMAIN outbox : outbox'[n] = outbox[n]
      /\ outbox'[Len(outbox) + 1] = e
  BY <1>4, <1>5
<1> HIDE DEF i
<1>7. ASSUME NEW j \in DOMAIN messages' PROVE \E n \in DOMAIN outbox' : CreatedAt(n, j)'
  <2>1. CASE j = i
    BY <1>3, <1>6, <2>1 DEF CreatedAt
  <2>2. CASE j \in DOMAIN messages
    <3>1. PICK n \in DOMAIN outbox : CreatedAt(n, j)
      BY <2>2 DEF OutboxAgreesWithMessages
    <3> QED
      BY <1>6, <3>1 DEF CreatedAt
  <2> QED
    BY <1>1, <2>1, <2>2
<1>8. \A m \in DOMAIN outbox : outbox[m].type = "message.created" => outbox[m].sequence < i
  <2> SUFFICES ASSUME NEW m \in DOMAIN outbox, outbox[m].type = "message.created"
               PROVE  outbox[m].sequence < i
    OBVIOUS
  <2>1. /\ outbox[m].message \in DOMAIN messages
        /\ outbox[m].sequence = messages[outbox[m].message].sequence
    BY DEF OutboxAgreesWithMessages
  <2>2. outbox[m].sequence = outbox[m].message
    BY <2>1 DEF IInv, CommittedInSequence
  <2>3. outbox[m].message \in 1..lastSequence
    <3>1. messages \in Seq(MessageRow)
      BY DEF IInv, TypeOK
    <3> QED
      BY <1>1, <2>1, <3>1
  <2> QED
    BY <1>1, <1>5, <2>2, <2>3
<1>9. ASSUME NEW n \in DOMAIN outbox', outbox'[n].type = "message.created"
      PROVE  /\ outbox'[n].message \in DOMAIN messages'
             /\ outbox'[n].sequence = messages'[outbox'[n].message].sequence
             /\ outbox'[n].user = messages'[outbox'[n].message].sender
             /\ \A m \in 1..(n - 1) : outbox'[m].type = "message.created" =>
                   outbox'[m].sequence < outbox'[n].sequence
  <2>1. \A m \in 1..(n - 1) : m \in DOMAIN outbox
    BY <1>6
  <2>2. CASE n \in DOMAIN outbox
    BY <1>1, <1>6, <1>9, <2>1, <2>2 DEF OutboxAgreesWithMessages
  <2>3. CASE n = Len(outbox) + 1
    BY <1>1, <1>3, <1>6, <1>8, <2>1, <2>3
  <2> QED
    BY <1>6, <2>2, <2>3
<1> QED
  BY <1>7, <1>9 DEF OutboxAgreesWithMessages

\* The outbox is transactional: the rows of messages and the message.created
\* events MessagesService.send writes beside them tell the same story in the same
\* order, whatever deletions, moderations and read events come between.
THEOREM OutboxIsFaithful == Spec => []OutboxAgreesWithMessages
<1>1. Init => OutboxAgreesWithMessages
  BY DEF Init, OutboxAgreesWithMessages
<1>2. ASSUME IInv, OutboxAgreesWithMessages, [Next]_vars PROVE OutboxAgreesWithMessages'
  <2> USE <1>2
  <2>1. CASE \E r \in Requests : InsertMessage(r)
    BY <2>1, CreatedAnnounced
  <2>2. CASE \A r \in Requests : ~InsertMessage(r)
    <3>1. SameRows
      BY <2>2, StepKeepsRows
    <3>2. CASE \E u \in Users, upto \in 1..lastSequence : MarkRead(u, upto)
      <4>1. PICK u \in Users, upto \in 1..lastSequence : MarkRead(u, upto)
        BY <3>2
      <4> DEFINE e == [type |-> "message.read", user |-> u, sequence |-> upto,
                       message |-> 0, body |-> None]
      <4>2. e.type = "message.read" /\ outbox' = Append(outbox, e)
        BY <4>1 DEF MarkRead
      <4> HIDE DEF e
      <4> QED
        BY <3>1, <4>2, ReadAnnounced
    <3>3. CASE outbox' = outbox
      BY <3>1, <3>3, NothingAnnounced
    <3>4. \/ \E u \in Users, upto \in 1..lastSequence : MarkRead(u, upto)
          \/ outbox' = outbox
      BY <2>2 DEF Next, Proceed, LockConversation, RefuseE2ee, ReplayExisting, Publish, Resend,
         SaveDeleted, EnableE2ee, Crash, Arrive, FindToDelete, CheckE2ee, HideMessage,
         Anonymize, OpenList, PollAfter, ScrollBefore, tableVars, vars
    <3> QED
      BY <3>2, <3>3, <3>4
  <2> QED
    BY <2>1, <2>2
<1>3. IInv /\ OutboxAgreesWithMessages /\ [Next]_vars => OutboxAgreesWithMessages'
  BY <1>2
<1> QED
  BY <1>1, <1>3, InvariantHolds, PTL DEF Spec

-----------------------------------------------------------------------------
(* A client that pages by sequence *)

\* Rows and sequences are the same numbers: 1 .. last_sequence.
LEMMA RowsAreNumbered ==
  ASSUME IInv
  PROVE  /\ lastSequence \in Nat
         /\ Listed \subseteq 1..lastSequence
         /\ DOMAIN messages = 1..lastSequence
         /\ \A i \in DOMAIN messages : messages[i].sequence = i
BY DEF IInv, TypeOK, CommittedInSequence, Listed

\* ORDER BY sequence ASC LIMIT n: with a row, the page has all before it.
LEMMA OldestHasNoGap ==
  ASSUME IInv, NEW rows \in SUBSET Listed, NEW j \in Oldest(rows), NEW i \in rows, i <= j
  PROVE  i \in Oldest(rows)
<1> DEFINE below(k) == {l \in rows : messages[l].sequence < messages[k].sequence}
<1>1. /\ lastSequence \in Nat /\ rows \subseteq 1..lastSequence
      /\ \A k \in rows : messages[k].sequence = k
  BY RowsAreNumbered DEF Listed
<1>2. IsFiniteSet(below(j))
  <2>1. IsFiniteSet(1..lastSequence)
    BY <1>1, FS_Interval
  <2> QED
    BY <1>1, <2>1, FS_Subset
<1>3. j \in rows /\ Cardinality(below(j)) < PageSize
  BY DEF Oldest
<1>4. below(i) \subseteq below(j)
  <2>1. i \in Nat /\ j \in Nat /\ messages[i].sequence = i /\ messages[j].sequence = j
    BY <1>1, <1>3
  <2>2. ASSUME NEW l \in rows, messages[l].sequence < i PROVE messages[l].sequence < j
    <3>1. l \in 1..lastSequence /\ messages[l].sequence = l
      BY <1>1
    <3> QED
      BY <1>1, <2>1, <2>2, <3>1
  <2>3. below(i) = {l \in rows : messages[l].sequence < i}
    BY <2>1
  <2>4. below(j) = {l \in rows : messages[l].sequence < j}
    BY <2>1
  <2> HIDE DEF below
  <2> QED
    BY <2>2, <2>3, <2>4
<1>5. Cardinality(below(i)) <= Cardinality(below(j))
  BY <1>2, <1>4, FS_Subset
<1>6. Cardinality(below(i)) \in Nat /\ Cardinality(below(j)) \in Nat
  BY <1>2, <1>4, FS_Subset, FS_CardinalityType
<1>7. Cardinality(below(i)) < PageSize
  BY <1>3, <1>5, <1>6, ConstantsAssumption
<1> QED
  BY <1>7 DEF Oldest

\* ORDER BY sequence DESC LIMIT n: with a row, the page has all after it.
LEMMA NewestHasNoGap ==
  ASSUME IInv, NEW rows \in SUBSET Listed, NEW j \in Newest(rows), NEW i \in rows, i >= j
  PROVE  i \in Newest(rows)
<1> DEFINE above(k) == {l \in rows : messages[l].sequence > messages[k].sequence}
<1>1. /\ lastSequence \in Nat /\ rows \subseteq 1..lastSequence
      /\ \A k \in rows : messages[k].sequence = k
  BY RowsAreNumbered DEF Listed
<1>2. IsFiniteSet(above(j))
  <2>1. IsFiniteSet(1..lastSequence)
    BY <1>1, FS_Interval
  <2> QED
    BY <1>1, <2>1, FS_Subset
<1>3. j \in rows /\ Cardinality(above(j)) < PageSize
  BY DEF Newest
<1>4. above(i) \subseteq above(j)
  <2>1. i \in Nat /\ j \in Nat /\ messages[i].sequence = i /\ messages[j].sequence = j
    BY <1>1, <1>3
  <2>2. ASSUME NEW l \in rows, messages[l].sequence > i PROVE messages[l].sequence > j
    <3>1. l \in 1..lastSequence /\ messages[l].sequence = l
      BY <1>1
    <3> QED
      BY <1>1, <2>1, <2>2, <3>1
  <2>3. above(i) = {l \in rows : messages[l].sequence > i}
    BY <2>1
  <2>4. above(j) = {l \in rows : messages[l].sequence > j}
    BY <2>1
  <2> HIDE DEF above
  <2> QED
    BY <2>2, <2>3, <2>4
<1>5. Cardinality(above(i)) <= Cardinality(above(j))
  BY <1>2, <1>4, FS_Subset
<1>6. Cardinality(above(i)) \in Nat /\ Cardinality(above(j)) \in Nat
  BY <1>2, <1>4, FS_Subset, FS_CardinalityType
<1>7. Cardinality(above(i)) < PageSize
  BY <1>3, <1>5, <1>6, ConstantsAssumption
<1> QED
  BY <1>7 DEF Newest

\* No window is ahead of the conversation: a page shows what is committed.
WindowsBehind == \A u \in Readers : window[u].hi <= lastSequence

NoHole(u) ==
  \A i \in Listed : i \in window[u].lo..window[u].hi => i \in window[u].seen

\* What the reader's windows are made of, in terms of rows.
LEMMA NoHoleByRow ==
  ASSUME IInv
  PROVE  ReaderSeesNoHole <=> \A u \in Readers : window[u] # ClosedWindow => NoHole(u)
BY RowsAreNumbered DEF ReaderSeesNoHole, NoHole, Listed

LEMMA OpenListShowsAll ==
  ASSUME IInv, NEW u \in Readers, OpenList(u)
  PROVE  NoHole(u)' /\ window'[u].hi <= lastSequence
<1> DEFINE page == Newest(Listed)
<1>1. PICK i \in page, j \in page :
        window' = [window EXCEPT ![u] = [lo |-> messages[i].sequence,
                                        hi |-> messages[j].sequence, seen |-> page]]
  BY DEF OpenList
<1>2. window'[u] = [lo |-> messages[i].sequence, hi |-> messages[j].sequence, seen |-> page]
  BY <1>1 DEF IInv, TypeOK
<1>3. page \subseteq Listed
  BY DEF Newest
<1>4. window'[u].lo = i /\ window'[u].hi = j /\ window'[u].seen = page
  BY <1>2, <1>3, RowsAreNumbered
<1>5. ASSUME NEW k \in Listed, k \in i..j PROVE k \in page
  <2>1. k >= i
    BY <1>3, <1>5, RowsAreNumbered
  <2> QED
    BY <2>1, NewestHasNoGap
<1>6. Listed' = Listed
  BY DEF OpenList, tableVars, Listed
<1>7. j <= lastSequence
  BY <1>3, RowsAreNumbered
<1> QED
  BY <1>4, <1>5, <1>6, <1>7 DEF NoHole

LEMMA PollAfterShowsAll ==
  ASSUME IInv, NEW u \in Readers, NoHole(u), PollAfter(u)
  PROVE  NoHole(u)' /\ window'[u].hi <= lastSequence
<1> DEFINE rows == {i \in Listed : messages[i].sequence > window[u].hi}
           page == Oldest(rows)
<1>1. PICK j \in page :
        window' = [window EXCEPT ![u].hi = messages[j].sequence, ![u].seen = @ \cup page]
  BY DEF PollAfter, PageAfter
<1>2. page \subseteq rows /\ rows \subseteq Listed
  BY DEF Oldest
<1>3. window \in [Readers -> Window]
  BY DEF IInv, TypeOK, Window
<1>4. /\ window'[u].lo = window[u].lo /\ window'[u].hi = j
      /\ window'[u].seen = window[u].seen \cup page
  BY <1>1, <1>2, <1>3, RowsAreNumbered DEF Window
<1>5. ASSUME NEW k \in Listed, k \in window[u].lo..j
      PROVE  k \in window[u].seen \cup page
  <2>1. k \in 1..lastSequence /\ j \in 1..lastSequence /\ messages[k].sequence = k /\ k <= j
    <3>1. k \in 1..lastSequence /\ j \in 1..lastSequence /\ messages[k].sequence = k
      BY <1>2, RowsAreNumbered
    <3>2. window[u].lo \in Nat
      BY <1>3 DEF Window
    <3> QED
      BY <1>5, <3>1, <3>2, RowsAreNumbered
  <2>2. window[u].lo \in Nat /\ window[u].hi \in Nat
    BY <1>3 DEF Window
  <2>3. CASE k <= window[u].hi
    BY <1>5, <2>1, <2>2, <2>3, RowsAreNumbered DEF NoHole
  <2>4. CASE k > window[u].hi
    <3>1. k \in rows
      BY <2>1, <2>4
    <3> QED
      BY <1>2, <2>1, <3>1, OldestHasNoGap
  <2> QED
    BY <2>1, <2>2, <2>3, <2>4, RowsAreNumbered
<1>6. Listed' = Listed
  BY DEF PollAfter, tableVars, Listed
<1>7. j <= lastSequence
  BY <1>2, RowsAreNumbered
<1> QED
  BY <1>4, <1>5, <1>6, <1>7 DEF NoHole

LEMMA ScrollBeforeShowsAll ==
  ASSUME IInv, NEW u \in Readers, NoHole(u), ScrollBefore(u)
  PROVE  NoHole(u)' /\ window'[u].hi = window[u].hi
<1> DEFINE rows == {i \in Listed : messages[i].sequence < window[u].lo}
           page == Newest(rows)
<1>1. PICK j \in page :
        window' = [window EXCEPT ![u].lo = messages[j].sequence, ![u].seen = @ \cup page]
  BY DEF ScrollBefore, PageBefore
<1>2. page \subseteq rows /\ rows \subseteq Listed
  BY DEF Newest
<1>3. window \in [Readers -> Window]
  BY DEF IInv, TypeOK, Window
<1>4. /\ window'[u].lo = j /\ window'[u].hi = window[u].hi
      /\ window'[u].seen = window[u].seen \cup page
  BY <1>1, <1>2, <1>3, RowsAreNumbered DEF Window
<1>5. ASSUME NEW k \in Listed, k \in j..window[u].hi
      PROVE  k \in window[u].seen \cup page
  <2>1. /\ k \in 1..lastSequence /\ j \in 1..lastSequence /\ messages[k].sequence = k
        /\ k >= j /\ k <= window[u].hi
    <3>1. k \in 1..lastSequence /\ j \in 1..lastSequence /\ messages[k].sequence = k
      BY <1>2, RowsAreNumbered
    <3>2. window[u].hi \in Nat
      BY <1>3 DEF Window
    <3> QED
      BY <1>5, <3>1, <3>2, RowsAreNumbered
  <2>2. window[u].lo \in Nat /\ window[u].hi \in Nat
    BY <1>3 DEF Window
  <2>3. CASE k >= window[u].lo
    BY <1>5, <2>1, <2>2, <2>3, RowsAreNumbered DEF NoHole
  <2>4. CASE k < window[u].lo
    <3>1. k \in rows
      BY <2>1, <2>4
    <3> QED
      BY <1>2, <2>1, <3>1, NewestHasNoGap
  <2> QED
    BY <2>1, <2>2, <2>3, <2>4, RowsAreNumbered
<1>6. Listed' = Listed
  BY DEF ScrollBefore, tableVars, Listed
<1> QED
  BY <1>4, <1>5, <1>6 DEF NoHole

\* What a step leaves in the list was there, or is newer than any window.
LEMMA ListedGrowsAtTheEnd ==
  ASSUME IInv, [Next]_vars, NEW i \in Listed'
  PROVE  i \in Listed \/ i > lastSequence
<1>1. i \in DOMAIN messages' /\ ~messages'[i].deletedAt
  BY DEF Listed
<1>2. CASE i \in DOMAIN messages
  <2>1. SameRow(messages'[i], messages[i])
    BY <1>2, RowsPersist
  <2> QED
    BY <1>1, <1>2, <2>1 DEF SameRow, Listed
<1>3. CASE i \notin DOMAIN messages
  <2>1. IInv'
    BY NextIInv
  <2>2. i \in Nat /\ i >= 1
    BY <1>1, <2>1 DEF IInv, TypeOK, CommittedInSequence
  <2> QED
    BY <1>3, <2>2, RowsAreNumbered
<1> QED
  BY <1>2, <1>3

\* A step of anybody else leaves no hole in a reader's window.
LEMMA OthersKeepTheWindow ==
  ASSUME IInv, [Next]_vars, NEW u \in Readers, WindowsBehind, NoHole(u),
         window'[u] = window[u]
  PROVE  NoHole(u)'
<1> SUFFICES ASSUME NEW i \in Listed', i \in window[u].lo..window[u].hi
             PROVE  i \in window[u].seen
  BY DEF NoHole
<1>1. window[u].lo \in Nat /\ window[u].hi \in Nat /\ lastSequence \in Nat
  BY DEF IInv, TypeOK
<1>2. window[u].hi <= lastSequence
  BY DEF WindowsBehind
<1>3. i \in Listed
  BY <1>1, <1>2, ListedGrowsAtTheEnd
<1> QED
  BY <1>3 DEF NoHole

\* A client that opens a conversation, scrolls up and polls by sequence through
\* MessagesService.list is left with no hole, whatever the size of its pages:
\* a later commit has a larger sequence than all it could have been shown.
THEOREM ReadersMissNothing == Spec => []ReaderSeesNoHole
<1> DEFINE Whole == \A u \in Readers : window[u] # ClosedWindow => NoHole(u)
<1>1. Init => WindowsBehind /\ Whole
  BY DEF Init, WindowsBehind, ClosedWindow
<1>2. ASSUME IInv, WindowsBehind, Whole, [Next]_vars
      PROVE  WindowsBehind' /\ Whole'
  <2> USE <1>2
  <2> SUFFICES ASSUME NEW u \in Readers
               PROVE  /\ window'[u].hi <= lastSequence'
                      /\ window'[u] # ClosedWindow => NoHole(u)'
    BY DEF WindowsBehind
  <2>1. window[u].hi <= lastSequence /\ lastSequence <= lastSequence'
    <3>1. lastSequence' = lastSequence \/ lastSequence' = lastSequence + 1
      BY InsertAdds, StepKeepsRows
    <3> QED
      BY <3>1, RowsAreNumbered DEF WindowsBehind
  <2>2. CASE window'[u] = window[u]
    <3>1. window[u] # ClosedWindow => NoHole(u)'
      BY <2>2, OthersKeepTheWindow
    <3>2. window[u].hi \in Nat /\ lastSequence \in Nat /\ lastSequence' \in Nat
      BY NextIInv DEF IInv, TypeOK
    <3> QED
      BY <2>1, <2>2, <3>1, <3>2
  <2>3. CASE OpenList(u)
    <3>1. lastSequence' = lastSequence
      BY <2>3 DEF OpenList, convVars
    <3> QED
      BY <2>3, <3>1, OpenListShowsAll
  <2>4. CASE PollAfter(u)
    <3>1. lastSequence' = lastSequence /\ NoHole(u)
      BY <2>4 DEF PollAfter, convVars
    <3> QED
      BY <2>4, <3>1, PollAfterShowsAll
  <2>5. CASE ScrollBefore(u)
    <3>1. lastSequence' = lastSequence /\ NoHole(u)
      BY <2>5 DEF ScrollBefore, convVars
    <3> QED
      BY <2>1, <2>5, <3>1, ScrollBeforeShowsAll
  <2>6. window'[u] = window[u] \/ OpenList(u) \/ PollAfter(u) \/ ScrollBefore(u)
    <3>1. CASE \E v \in Readers : OpenList(v) \/ PollAfter(v) \/ ScrollBefore(v)
      <4>1. PICK v \in Readers : OpenList(v) \/ PollAfter(v) \/ ScrollBefore(v)
        BY <3>1
      <4>2. v # u => window'[u] = window[u]
        BY <4>1 DEF OpenList, PollAfter, ScrollBefore, IInv, TypeOK
      <4> QED
        BY <4>1, <4>2
    <3>2. CASE UNCHANGED window
      BY <3>2
    <3>3. \/ \E v \in Readers : OpenList(v) \/ PollAfter(v) \/ ScrollBefore(v)
          \/ UNCHANGED window
      BY DEF Next, Proceed, LockConversation, RefuseE2ee, ReplayExisting, InsertMessage,
         Publish, Resend, SaveDeleted, EnableE2ee, Crash, Arrive, FindToDelete, CheckE2ee,
         HideMessage, Anonymize, MarkRead, vars
    <3> QED
      BY <3>1, <3>2, <3>3
  <2> QED
    BY <2>2, <2>3, <2>4, <2>5, <2>6
<1>3. IInv /\ Whole => ReaderSeesNoHole
  BY NoHoleByRow
<1>4. IInv /\ WindowsBehind /\ Whole /\ [Next]_vars => WindowsBehind' /\ Whole'
  BY <1>2
<1> HIDE DEF Whole
<1> QED
  BY <1>1, <1>3, <1>4, InvariantHolds, PTL DEF Spec

-----------------------------------------------------------------------------
(* What is left of the two claims the code does not keep *)

\* A row without content, or whose sender a step anonymises, has no content
\* after the step: nothing brings a content back.
LEMMA ContentIsNotRestored ==
  ASSUME IInv, [Next]_vars, NEW i \in DOMAIN messages,
         messages[i].sender \in anonymized',
         messages[i].sender \in anonymized => messages[i].body = None
  PROVE  i \in DOMAIN messages' /\ messages'[i].body = None
<1>1. i \in DOMAIN messages' /\ SameRow(messages'[i], messages[i])
  BY RowsPersist
<1>2. CASE messages[i].sender \in anonymized
  BY <1>1, <1>2 DEF SameRow
<1>3. CASE messages[i].sender \notin anonymized
  <2>1. \E u \in Leavers : Anonymize(u)
    BY <1>3 DEF Next, Proceed, LockConversation, RefuseE2ee, ReplayExisting, InsertMessage,
       Publish, Resend, SaveDeleted, EnableE2ee, Crash, Arrive, FindToDelete, CheckE2ee,
       HideMessage, MarkRead, OpenList, PollAfter, ScrollBefore, peopleVars, vars
  <2>2. PICK u \in Leavers : Anonymize(u)
    BY <2>1
  <2>3. messages[i].sender = u
    BY <1>3, <2>2 DEF Anonymize
  <2>4. messages'[i] = WipedRow(messages[i])
    BY <2>2, <2>3 DEF Anonymize
  <2>5. messages[i] \in MessageRow
    BY RowOfMessages DEF IInv, TypeOK
  <2>6. WipedRow(messages[i]).body = None
    BY <2>5, RowsKeepIdentity
  <2> QED
    BY <1>1, <2>4, <2>6
<1> QED
  BY <1>2, <1>3

\* PrivacyService.anonymizeUser empties every row of its user that is there,
\* and no later write of such a row, the stale save of a deletion included,
\* brings its content back.
THEOREM AnonymizationEmptiesRows ==
  Spec => [][\A i \in DOMAIN messages :
               /\ messages[i].sender \in anonymized'
               /\ messages[i].sender \in anonymized => messages[i].body = None
               => messages'[i].body = None]_vars
<1>1. IInv /\ [Next]_vars
      => [\A i \in DOMAIN messages :
            /\ messages[i].sender \in anonymized'
            /\ messages[i].sender \in anonymized => messages[i].body = None
            => messages'[i].body = None]_vars
  BY ContentIsNotRestored
<1> QED
  BY <1>1, InvariantHolds, PTL DEF Spec

\* The one way an anonymised user has a readable message is a send that
\* commits after the anonymisation, with a token issued before it: where no
\* send does, AnonymizedIsUnreadable holds.
THEOREM OnlyLateSendsAreReadable ==
  Spec /\ [][\A r \in Requests : InsertMessage(r) => req[r].user \notin anonymized]_vars
    => []AnonymizedIsUnreadable
<1>1. Init => AnonymizedIsUnreadable
  BY DEF Init, AnonymizedIsUnreadable
<1>2. ASSUME IInv, AnonymizedIsUnreadable, [Next]_vars,
             [\A r \in Requests : InsertMessage(r) => req[r].user \notin anonymized]_vars
      PROVE  AnonymizedIsUnreadable'
  <2> SUFFICES ASSUME NEW i \in DOMAIN messages', messages'[i].sender \in anonymized'
               PROVE  messages'[i].body = None
    BY DEF AnonymizedIsUnreadable
  <2>1. CASE i \in DOMAIN messages
    <3>1. messages'[i].sender = messages[i].sender
      BY <1>2, <2>1, RowsPersist DEF SameRow
    <3> QED
      BY <1>2, <2>1, <3>1, ContentIsNotRestored DEF AnonymizedIsUnreadable
  <2>2. CASE i \notin DOMAIN messages
    <3>1. PICK r \in Requests : InsertMessage(r)
      BY <1>2, <2>2, StepKeepsRows DEF SameRows
    <3>2. messages'[i].sender = req[r].user
      BY <1>2, <2>2, <3>1, InsertAdds
    <3>3. messages' # messages
      BY <2>2
    <3>4. req[r].user \notin anonymized /\ anonymized' = anonymized
      BY <1>2, <3>1, <3>3 DEF InsertMessage, peopleVars, tableVars, vars
    <3> QED
      BY <3>2, <3>4
  <2> QED
    BY <2>1, <2>2
<1> QED
  BY <1>1, <1>2, InvariantHolds, PTL DEF Spec

\* The client never sends a key again with another text: what it sends under a
\* key is text[<<user, key>>].
KeysNameTheirText(text) ==
  \A r \in Requests : req[r].pc \in {"arrived", "locked"} /\ req[r].key # None =>
    req[r].body = text[<<req[r].user, req[r].key>>]

\* So is what is stored under it, while it is stored.
StoredUnderItsKey(text) ==
  \A i \in DOMAIN messages : messages[i].key # None /\ messages[i].body # None =>
    messages[i].body = text[<<messages[i].sender, messages[i].key>>]

\* What an answer carries is the row it is about, unless it is hidden or gone.
AnsweredFromTheRow(r) ==
  /\ req[r].msg \in DOMAIN messages
  /\ messages[req[r].msg].body # None =>
       req[r].shown \in {messages[req[r].msg].body, None, "masked"}

\* An answer waits only where a row was inserted or found; the other steps
\* make none and change none.
LEMMA AnswersStay ==
  ASSUME IInv, [Next]_vars, NEW s \in Requests, req'[s].pc = "committed",
         ~InsertMessage(s), ~ReplayExisting(s)
  PROVE  req[s].pc = "committed" /\ req'[s] = req[s]
<1>a. req \in [Requests -> Request] /\ IdleRequest.pc = "idle"
  BY DEF IInv, TypeOK, IdleRequest
<1>b. \A r \in Requests : req[r] =
        [pc |-> req[r].pc, user |-> req[r].user, key |-> req[r].key, body |-> req[r].body,
         last |-> req[r].last, msg |-> req[r].msg, row |-> req[r].row, shown |-> req[r].shown]
  BY <1>a DEF Request, IdleRequest
<1>1. ASSUME NEW r \in Requests, ReplayExisting(r) \/ InsertMessage(r)
      PROVE  req'[s] = req[s]
  BY <1>1, <1>a DEF ReplayExisting, InsertMessage
<1>2. ASSUME NEW r \in Requests, LockConversation(r) PROVE req'[s] = req[s]
  BY <1>2, <1>a, <1>b DEF LockConversation
<1>3. ASSUME NEW r \in Requests,
             RefuseE2ee(r) \/ Publish(r) \/ SaveDeleted(r) \/ EnableE2ee(r)
      PROVE  req'[s] = req[s]
  BY <1>3, <1>a DEF RefuseE2ee, Publish, SaveDeleted, EnableE2ee
<1>4. ASSUME NEW r \in Requests, Resend(r) \/ Crash(r) PROVE req'[s] = req[s]
  BY <1>4, <1>a, <1>b DEF Resend, Crash
<1>5. ASSUME NEW r \in Requests, NEW q, req' = [req EXCEPT ![r] = q], q.pc # "committed"
      PROVE  req'[s] = req[s]
  BY <1>5, <1>a
<1>6. ASSUME NEW r \in Requests, NEW u, NEW k, NEW b, Arrive(r, u, k, b)
      PROVE  req'[s] = req[s]
  BY <1>6, <1>5 DEF Arrive, IdleRequest
<1>7. ASSUME NEW r \in Requests, NEW i, FindToDelete(r, i) PROVE req'[s] = req[s]
  BY <1>7, <1>5 DEF FindToDelete, IdleRequest
<1>8. ASSUME NEW r \in Requests, NEW u, CheckE2ee(r, u) PROVE req'[s] = req[s]
  BY <1>8, <1>5 DEF CheckE2ee, IdleRequest
<1>9. CASE UNCHANGED req
  BY <1>9
<1>10. req'[s] = req[s]
  BY <1>1, <1>2, <1>3, <1>4, <1>6, <1>7, <1>8, <1>9
  DEF Next, Proceed, HideMessage, Anonymize, MarkRead, OpenList, PollAfter, ScrollBefore, vars
<1> QED
  BY <1>10

\* A request is answered with what it inserted, or with what it found under
\* its key, and what is stored there later is that text or none.
LEMMA AnswersComeFromRows ==
  ASSUME NEW text,
         IInv, StoredUnderItsKey(text), KeysNameTheirText(text),
         \A r \in Requests : req[r].pc = "committed" => AnsweredFromTheRow(r),
         [Next]_vars, NEW s \in Requests, req'[s].pc = "committed"
  PROVE  AnsweredFromTheRow(s)'
<1>1. CASE InsertMessage(s)
  <2>1. req'[s].msg = Len(messages) + 1 /\ req'[s].shown = req[s].body
    BY <1>1 DEF InsertMessage, IInv, TypeOK, Request
  <2>2. /\ Len(messages) + 1 = lastSequence' /\ lastSequence' \in DOMAIN messages'
        /\ messages'[lastSequence'].body = req[s].body
    BY <1>1, InsertAdds
  <2> QED
    BY <2>1, <2>2 DEF AnsweredFromTheRow
<1>2. CASE ReplayExisting(s)
  <2>1. PICK i \in Existing(req[s].user, req[s].key) :
          req' = [req EXCEPT ![s].pc = "committed", ![s].msg = i,
                             ![s].shown = ReplayText(s, messages[i])]
    BY <1>2 DEF ReplayExisting
  <2>2. req'[s].msg = i /\ req'[s].shown = ReplayText(s, messages[i]) /\ messages' = messages
    BY <1>2, <2>1 DEF ReplayExisting, tableVars, IInv, TypeOK, Request
  <2>3. /\ i \in DOMAIN messages /\ req[s].key # None
        /\ messages[i].sender = req[s].user /\ messages[i].key = req[s].key
    BY DEF Existing
  <2>4. req[s].body = text[<<req[s].user, req[s].key>>]
    BY <1>2, <2>3 DEF ReplayExisting, KeysNameTheirText
  <2>5. messages[i].body # None => messages[i].body = req[s].body
    BY <2>3, <2>4 DEF StoredUnderItsKey
  <2> QED
    BY <2>2, <2>3, <2>5 DEF ReplayText, AnsweredFromTheRow
<1>3. CASE ~InsertMessage(s) /\ ~ReplayExisting(s)
  <2>1. req'[s] = req[s] /\ AnsweredFromTheRow(s)
    BY <1>3, AnswersStay
  <2>2. /\ req[s].msg \in DOMAIN messages'
        /\ SameRow(messages'[req[s].msg], messages[req[s].msg])
    BY <2>1, RowsPersist DEF AnsweredFromTheRow
  <2> QED
    BY <2>1, <2>2 DEF AnsweredFromTheRow, SameRow
<1> QED
  BY <1>1, <1>2, <1>3

\* The answer of MessagesService.send to a replay carries the text of the
\* request.  Where clients never use a key again with another text, that is the
\* text of the stored row, whatever is deleted, hidden or wiped meanwhile.
THEOREM ReplaysOfOneTextAreRight ==
  ASSUME NEW text \in [Users \X Keys -> Bodies]
  PROVE  Spec /\ []KeysNameTheirText(text) => []AnswerIsTheStoredMessage
<1> DEFINE Stored == StoredUnderItsKey(text)
           Answered == \A r \in Requests : req[r].pc = "committed" => AnsweredFromTheRow(r)
<1>1. Init => Stored /\ Answered
  BY DEF Init, IdleRequest, StoredUnderItsKey
<1>2. ASSUME IInv, Stored, KeysNameTheirText(text), [Next]_vars PROVE Stored'
  <2> SUFFICES ASSUME NEW i \in DOMAIN messages', messages'[i].key # None,
                      messages'[i].body # None
               PROVE  messages'[i].body = text[<<messages'[i].sender, messages'[i].key>>]
    BY DEF StoredUnderItsKey
  <2>1. CASE i \in DOMAIN messages
    BY <1>2, <2>1, RowsPersist DEF SameRow, StoredUnderItsKey
  <2>2. CASE i \notin DOMAIN messages
    <3>1. PICK r \in Requests : InsertMessage(r)
      BY <1>2, <2>2, StepKeepsRows DEF SameRows
    <3>2. /\ messages'[i].sender = req[r].user /\ messages'[i].key = req[r].key
          /\ messages'[i].body = req[r].body
      BY <1>2, <2>2, <3>1, InsertAdds
    <3> QED
      BY <1>2, <3>1, <3>2 DEF InsertMessage, KeysNameTheirText
  <2> QED
    BY <2>1, <2>2
<1>3. ASSUME IInv, Stored, KeysNameTheirText(text), Answered, [Next]_vars PROVE Answered'
  BY <1>3, AnswersComeFromRows
<1>4. Answered => AnswerIsTheStoredMessage
  BY DEF AnswerIsTheStoredMessage, AnsweredFromTheRow
<1> HIDE DEF Stored, Answered
<1> QED
  BY <1>1, <1>2, <1>3, <1>4, InvariantHolds, PTL DEF Spec

-----------------------------------------------------------------------------
(* The append-only log *)

EntryOf(row) == [author |-> row.sender, key |-> row.key, body |-> row.body]

\* The row of a sequence, which LogOfRows looks up, is the row of that number.
LEMMA RowOfSequence ==
  ASSUME NEW rows, NEW last \in Nat, DOMAIN rows = 1..last,
         \A i \in DOMAIN rows : rows[i].sequence = i,
         NEW n \in 1..last
  PROVE  (CHOOSE i \in DOMAIN rows : rows[i].sequence = n) = n
OBVIOUS

LEMMA LogByRow ==
  ASSUME IInv
  PROVE  LogOfRows = [n \in 1..lastSequence |-> EntryOf(messages[n])]
<1>1. /\ lastSequence \in Nat /\ DOMAIN messages = 1..lastSequence
      /\ \A i \in DOMAIN messages : messages[i].sequence = i
  BY RowsAreNumbered
<1>2. \A n \in 1..lastSequence :
        (CHOOSE i \in DOMAIN messages : messages[i].sequence = n) = n
  BY <1>1, RowOfSequence
<1> QED
  BY <1>2 DEF LogOfRows, EntryOf

LEMMA LogByRowPrimed ==
  ASSUME IInv'
  PROVE  LogOfRows' = [n \in 1..lastSequence' |-> EntryOf(messages'[n])]
<1>1. /\ lastSequence' \in Nat /\ DOMAIN messages' = 1..lastSequence'
      /\ \A i \in DOMAIN messages' : messages'[i].sequence = i
  BY DEF IInv, TypeOK, CommittedInSequence
<1>2. \A n \in 1..lastSequence' :
        (CHOOSE i \in DOMAIN messages' : messages'[i].sequence = n) = n
  BY <1>1, RowOfSequence
<1> QED
  BY <1>2 DEF LogOfRows, EntryOf

\* An insert posts the entry of the request.
LEMMA InsertPosts ==
  ASSUME IInv, [Next]_vars, NEW r \in Requests, InsertMessage(r)
  PROVE  Log!Post(req[r].user, req[r].key, req[r].body)
<1> DEFINE new == [author |-> req[r].user, key |-> req[r].key, body |-> req[r].body]
<1>1. ~e2ee /\ e2ee' = e2ee
  BY DEF InsertMessage, IInv, LockGuardsTheConversation
<1>2. LogOfRows = [n \in 1..lastSequence |-> EntryOf(messages[n])]
  BY LogByRow
<1>3. LogOfRows' = [n \in 1..lastSequence' |-> EntryOf(messages'[n])]
  BY NextIInv, LogByRowPrimed
<1>4. /\ lastSequence \in Nat /\ lastSequence' = lastSequence + 1
      /\ \A i \in 1..lastSequence : messages'[i] = messages[i]
      /\ EntryOf(messages'[lastSequence']) = new
  BY InsertAdds, RowsAreNumbered DEF EntryOf
<1>5. Log!KeyIsFree(req[r].user, req[r].key)
  <2>1. ASSUME NEW i \in DOMAIN messages, req[r].key # None
        PROVE  ~(messages[i].sender = req[r].user /\ messages[i].key = req[r].key)
    BY <2>1 DEF InsertMessage, Existing
  <2>2. \A i \in 1..lastSequence :
          LogOfRows[i].author = messages[i].sender /\ LogOfRows[i].key = messages[i].key
    BY <1>2 DEF EntryOf
  <2> QED
    BY <1>2, <2>1, <2>2, RowsAreNumbered DEF Log!KeyIsFree
<1> HIDE DEF new
<1>6. LogOfRows' = Append(LogOfRows, new)
  <2> DEFINE Entries == {EntryOf(messages'[n]) : n \in 1..lastSequence'}
  <2>1. LogOfRows' \in Seq(Entries) /\ Len(LogOfRows') = lastSequence + 1
    BY <1>3, <1>4
  <2>2. \A n \in 1..lastSequence : LogOfRows[n] = EntryOf(messages'[n])
    BY <1>2, <1>4
  <2>3. new \in Entries /\ \A n \in 1..lastSequence : LogOfRows[n] \in Entries
    BY <1>4, <2>2
  <2>4. \A n \in 1..lastSequence' :
          LogOfRows'[n] = IF n = lastSequence + 1 THEN new ELSE LogOfRows[n]
    BY <1>3, <1>4, <2>2
  <2> HIDE DEF Entries
  <2>5. LogOfRows \in Seq(Entries) /\ Len(LogOfRows) = lastSequence
    BY <1>2, <1>4, <2>3
  <2>6. /\ Append(LogOfRows, new) \in Seq(Entries)
        /\ Len(Append(LogOfRows, new)) = lastSequence + 1
        /\ \A n \in 1..lastSequence : Append(LogOfRows, new)[n] = LogOfRows[n]
        /\ Append(LogOfRows, new)[lastSequence + 1] = new
    BY <2>3, <2>5, AppendProperties
  <2>7. \A n \in 1..(lastSequence + 1) : LogOfRows'[n] = Append(LogOfRows, new)[n]
    BY <1>4, <2>4, <2>6
  <2> QED
    BY <2>1, <2>6, <2>7, SeqEqual
<1> QED
  BY <1>1, <1>5, <1>6 DEF Log!Post, new

\* A step that keeps the rows erases the bodies that go, perhaps none.
LEMMA KeptRowsErase ==
  ASSUME IInv, [Next]_vars, SameRows, lastSequence' = lastSequence, e2ee' = e2ee
  PROVE  \E gone \in SUBSET DOMAIN LogOfRows : Log!Erase(gone)
<1> DEFINE gone == {n \in 1..lastSequence : messages'[n].body # messages[n].body}
<1>1. LogOfRows = [n \in 1..lastSequence |-> EntryOf(messages[n])]
  BY LogByRow
<1>2. LogOfRows' = [n \in 1..lastSequence |-> EntryOf(messages'[n])]
  BY NextIInv, LogByRowPrimed
<1>3. ASSUME NEW n \in 1..lastSequence
      PROVE  EntryOf(messages'[n]) =
               IF n \in gone THEN [LogOfRows[n] EXCEPT !.body = None] ELSE LogOfRows[n]
  <2>1. /\ messages'[n].sender = messages[n].sender /\ messages'[n].key = messages[n].key
        /\ messages'[n].body = messages[n].body \/ messages'[n].body = None
    BY <1>3, RowsAreNumbered DEF SameRows, SameRow
  <2>2. LogOfRows[n] = EntryOf(messages[n])
    BY <1>1
  <2> QED
    BY <2>1, <2>2 DEF EntryOf
<1>4. gone \in SUBSET DOMAIN LogOfRows
  BY <1>1
<1>5. LogOfRows' = [n \in DOMAIN LogOfRows |->
         IF n \in gone THEN [LogOfRows[n] EXCEPT !.body = None] ELSE LogOfRows[n]]
  BY <1>1, <1>2, <1>3
<1> HIDE DEF gone
<1> QED
  BY <1>4, <1>5 DEF Log!Erase

\* An activation of E2EE closes the log, or finds it closed.
LEMMA EnableCloses ==
  ASSUME IInv, [Next]_vars, NEW r \in Requests, EnableE2ee(r)
  PROVE  Log!Close \/ UNCHANGED Log!logVars
<1>1. e2ee' /\ lastSequence' = lastSequence /\ messages' = messages
  BY DEF EnableE2ee, tableVars
<1>2. LogOfRows' = LogOfRows
  BY <1>1 DEF LogOfRows
<1>3. e2ee \in BOOLEAN
  BY DEF IInv, TypeOK
<1> QED
  BY <1>1, <1>2, <1>3 DEF Log!Close, Log!logVars, EnableE2ee

\* Requests, row locks, crashes and resends of MessagesService, deletions,
\* moderations, anonymisations and the activation of E2EE implement the
\* append-only log a conversation promises: each of their steps is one step of
\* the log or none.
THEOREM LogIsImplemented == Spec => ImplementsLog
<1>1. Init => Log!LogInit
  <2> SUFFICES ASSUME Init PROVE Log!LogInit
    OBVIOUS
  <2>1. LogOfRows = <<>>
    BY LogByRow, InitIInv DEF Init
  <2> QED
    BY <2>1 DEF Init, Log!LogInit
<1>2. IInv /\ [Next]_vars => [Log!LogNext]_(Log!logVars)
  <2> SUFFICES ASSUME IInv, [Next]_vars PROVE Log!LogNext \/ UNCHANGED Log!logVars
    OBVIOUS
  <2>1. CASE \E r \in Requests : InsertMessage(r)
    <3>1. PICK r \in Requests : InsertMessage(r)
      BY <2>1
    <3>2. req[r].user \in Users /\ req[r].body \in Bodies /\ req[r].key \in Keys \cup {None}
      <4>1. req[r] \in Request /\ req[r].pc = "locked"
        BY <3>1 DEF InsertMessage, IInv, TypeOK
      <4> QED
        BY <4>1 DEF Request, IInv, SendsAreComplete
    <3> QED
      BY <3>1, <3>2, InsertPosts DEF Log!LogNext
  <2>2. CASE \E r \in Requests : EnableE2ee(r)
    BY <2>2, EnableCloses DEF Log!LogNext
  <2>3. CASE /\ \A r \in Requests : ~InsertMessage(r)
             /\ e2ee' = e2ee
    BY <2>3, StepKeepsRows, KeptRowsErase DEF Log!LogNext
  <2>4. e2ee' = e2ee \/ \E r \in Requests : EnableE2ee(r)
    BY DEF Next, Proceed, LockConversation, RefuseE2ee, ReplayExisting, InsertMessage, Publish,
       Resend, SaveDeleted, Crash, Arrive, FindToDelete, CheckE2ee, HideMessage,
       Anonymize, MarkRead, OpenList, PollAfter, ScrollBefore, convVars, vars
  <2> QED
    BY <2>1, <2>2, <2>3, <2>4
<1> QED
  BY <1>1, <1>2, InvariantHolds, PTL DEF Spec, ImplementsLog, Log!LogSpec

=============================================================================
