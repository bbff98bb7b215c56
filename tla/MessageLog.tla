----------------------------- MODULE MessageLog -----------------------------
(***************************************************************************)
(* What a conversation promises to its participants, with no transaction,  *)
(* lock, request or table in sight: one append-only log.  Entry number n   *)
(* is the message of sequence n (docs/ARCHITECTURE.md, "Idempotence &      *)
(* ordre").  An idempotency key is accepted once per author, an entry      *)
(* never moves or changes author, its body may only be erased, and once    *)
(* the conversation is switched to end-to-end encryption the log in clear  *)
(* is closed.                                                              *)
(***************************************************************************)
EXTENDS Naturals, Sequences

CONSTANTS
  Users,      \* authors
  Keys,       \* idempotency keys
  NoKey,      \* a message sent without a key
  Bodies,     \* contents
  NoBody      \* an erased content

VARIABLES
  log,        \* the entries, in sequence order
  closed      \* TRUE once the conversation is end-to-end encrypted

logVars == <<log, closed>>

Entry == [author : Users, key : Keys \cup {NoKey}, body : Bodies \cup {NoBody}]

\* The key of an author is free until an entry carries it.
KeyIsFree(u, k) ==
  k = NoKey \/ \A n \in DOMAIN log : ~(log[n].author = u /\ log[n].key = k)

LogInit ==
  /\ log = <<>>
  /\ closed = FALSE

Post(u, k, b) ==
  /\ ~closed
  /\ KeyIsFree(u, k)
  /\ log' = Append(log, [author |-> u, key |-> k, body |-> b])
  /\ UNCHANGED closed

\* One deletion, or the anonymisation of an author: some bodies go, at once.
Erase(gone) ==
  /\ log' = [n \in DOMAIN log |->
               IF n \in gone THEN [log[n] EXCEPT !.body = NoBody] ELSE log[n]]
  /\ UNCHANGED closed

Close ==
  /\ ~closed
  /\ closed' = TRUE
  /\ UNCHANGED log

LogNext ==
  \/ \E u \in Users, k \in Keys \cup {NoKey}, b \in Bodies : Post(u, k, b)
  \/ \E gone \in SUBSET DOMAIN log : Erase(gone)
  \/ Close

LogSpec == LogInit /\ [][LogNext]_logVars
=============================================================================
