----------------------------- MODULE EventQueue -----------------------------
(***************************************************************************)
(* What the outbox of a conversation promises, with no batch, row lock,    *)
(* backoff or duplicate window in sight: a queue that delivers at least    *)
(* once (docs/ARCHITECTURE.md, "message_events_outbox").  A committed      *)
(* event is delivered to the stream any number of times, by workers that   *)
(* have taken it up; its recipients are mailed only after it was; it is    *)
(* finished only after it was, and a finished event is never taken up      *)
(* again.  A worker that took it up before may deliver it once it is       *)
(* finished: nobody fences it off.                                         *)
(***************************************************************************)
EXTENDS Naturals

CONSTANTS
  MaxEvents,   \* events of the conversation
  Recipients,  \* who may be mailed
  Workers      \* who may deliver

VARIABLES
  committed,  \* events 1 .. committed are in the queue
  copies,     \* copies[n]: how often event n was delivered
  mails,      \* mails[n][u]: how often user u was mailed for it
  done,       \* the events that are finished
  hands       \* hands[w]: the events worker w has taken up, and not laid down

queueVars == <<committed, copies, mails, done, hands>>

QueueInit ==
  /\ committed = 0
  /\ copies = [n \in 1..MaxEvents |-> 0]
  /\ mails = [n \in 1..MaxEvents |-> [u \in Recipients |-> 0]]
  /\ done = {}
  /\ hands = [w \in Workers |-> {}]

PendingEvents == (1..committed) \ done
Delivered == {n \in PendingEvents : copies[n] > 0}

Enqueue ==
  /\ committed < MaxEvents
  /\ committed' = committed + 1
  /\ UNCHANGED <<copies, mails, done, hands>>

\* A worker with empty hands takes up events that are not finished.
TakeUp(w) ==
  /\ hands[w] = {}
  /\ \E taken \in SUBSET PendingEvents : hands' = [hands EXCEPT ![w] = taken]
  /\ UNCHANGED <<committed, copies, mails, done>>

LayDown(w) == \E kept \in SUBSET hands[w] : hands' = [hands EXCEPT ![w] = kept]

Deliver(w, n) ==
  /\ copies' = [copies EXCEPT ![n] = @ + 1]
  /\ LayDown(w)
  /\ UNCHANGED <<committed, mails, done>>

Notify(n, u) ==
  /\ copies[n] > 0
  /\ mails' = [mails EXCEPT ![n][u] = @ + 1]
  /\ UNCHANGED <<committed, copies, done, hands>>

\* A batch finishes what it has delivered, at once.
Finish(batch) ==
  /\ done' = done \cup batch
  /\ UNCHANGED <<committed, copies, mails, hands>>

QueueNext ==
  \/ Enqueue
  \/ \E w \in Workers :
       \/ TakeUp(w)
       \/ LayDown(w) /\ UNCHANGED <<committed, copies, mails, done>>
       \/ \E n \in hands[w] : Deliver(w, n) \/ \E u \in Recipients : Notify(n, u)
  \/ \E batch \in SUBSET Delivered : Finish(batch)

QueueSpec == QueueInit /\ [][QueueNext]_queueVars
=============================================================================
