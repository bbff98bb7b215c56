------------------------------- MODULE Search -------------------------------
(***************************************************************************)
(* SearchService and OpenSearchService: the opt-in of one conversation to  *)
(* full-text search, the backfill of its history, the indexing of its new  *)
(* messages by the outbox worker, and the opt-out.                         *)
(*                                                                         *)
(* A document is named by the sequence of its message.  The index writes   *)
(* with refresh: false: a document is found, by a search or by             *)
(* delete_by_query, only once the index has been refreshed.                *)
(***************************************************************************)
EXTENDS Naturals

CONSTANTS
  Askers,       \* slots for opt-ins and opt-outs in flight
  MaxStored,    \* bound: messages of the conversation
  MaxFaults     \* bound: calls of OpenSearch and queries of SearchService that
                \* fail, batches of the worker that are rolled back

ASSUME SearchAssumption == MaxStored \in Nat /\ MaxFaults \in Nat

Stored == 1..MaxStored

VARIABLES
  searchIndexed,  \* conversations.search_indexed
  stored,         \* last sequence committed
  job,            \* job[m]: none, queued, checked (flag read, on), done
  docs,           \* documents in the index
  searchable,     \* those that the last refresh has made visible
  mapping,        \* the index: none, declared (ensureIndex), dynamic
  asking,         \* asking[r]: idle, checked, backfill, purge
  todo,           \* todo[r]: messages its backfill has still to index
  listed,         \* listed[r]: messages its backfill has read
  covered,        \* listed by the opt-in that set the flag
  unseen,         \* messages whose job found the flag off
  unread,         \* messages whose job failed to read the flag
  gone,           \* messages whose last document was refused or purged
  faults          \* failed calls and queries and rolled back batches so far

indexVars  == <<docs, searchable, mapping>>
askVars    == <<asking, todo, listed>>
ghostVars  == <<covered, unseen, unread, gone>>
searchVars == <<searchIndexed, stored, job, indexVars, askVars, ghostVars,
                faults>>

\* OpenSearchService.onModuleInit: the client is kept even if ensureIndex
\* throws, and isEnabled() looks at the client alone.
SearchInit ==
  /\ searchIndexed = FALSE /\ stored = 0
  /\ job = [m \in Stored |-> "none"]
  /\ docs = {} /\ searchable = {}
  /\ mapping \in {"declared", "none"}
  /\ asking = [r \in Askers |-> "idle"]
  /\ todo = [r \in Askers |-> {}] /\ listed = [r \in Askers |-> {}]
  /\ covered = {} /\ unseen = {} /\ unread = {} /\ gone = {}
  /\ faults = 0

-----------------------------------------------------------------------------
(* Messages and the worker *)

\* A send commits its message and its outbox event.
StoreMessage ==
  /\ stored < MaxStored
  /\ stored' = stored + 1
  /\ job' = [job EXCEPT ![stored + 1] = "queued"]
  /\ UNCHANGED <<searchIndexed, indexVars, askVars, ghostVars, faults>>

\* Mutant: the test of indexMessageIfEnabled has lost its negation.
AfterFlagInverted(m) == IF searchIndexed THEN "done" ELSE "checked"

\* if (!conv?.searchIndexed) return;
AfterFlag(m) == IF searchIndexed THEN "checked" ELSE "done"

JobReadsFlag(m) ==
  /\ job[m] = "queued"
  /\ job' = [job EXCEPT ![m] = AfterFlag(m)]
  /\ unseen' = IF searchIndexed THEN unseen ELSE unseen \cup {m}
  /\ UNCHANGED <<searchIndexed, stored, indexVars, askVars,
                 covered, unread, gone, faults>>

\* convRepo.findOne throws, for want of a connection or of an answer: the
\* worker logs it, as it does an error of OpenSearch, and the event is done.
JobCannotRead(m) ==
  /\ job[m] = "queued" /\ faults < MaxFaults
  /\ faults' = faults + 1
  /\ job' = [job EXCEPT ![m] = "done"]
  /\ unread' = unread \cup {m}
  /\ UNCHANGED <<searchIndexed, stored, indexVars, askVars,
                 covered, unseen, gone>>

\* Mutant: the document is filed under the next sequence.
DocOfNext(m) == m + 1

\* The id of the document is the id of its message: writing it again
\* replaces it.
DocOf(m) == m

\* client.index creates an index that is missing, with a guessed mapping.
WriteDoc(m) ==
  /\ docs' = docs \cup {DocOf(m)}
  /\ gone' = gone \ {DocOf(m)}
  /\ mapping' = IF mapping = "none" THEN "dynamic" ELSE mapping
  /\ UNCHANGED <<searchable, covered, unseen, unread>>

JobIndexes(m) ==
  /\ job[m] = "checked"
  /\ WriteDoc(m)
  /\ job' = [job EXCEPT ![m] = "done"]
  /\ UNCHANGED <<searchIndexed, stored, askVars, faults>>

\* The worker logs the error and goes on: the event is not retried for it.
JobFails(m) ==
  /\ job[m] = "checked" /\ faults < MaxFaults
  /\ faults' = faults + 1
  /\ job' = [job EXCEPT ![m] = "done"]
  /\ gone' = gone \cup {m}
  /\ UNCHANGED <<searchIndexed, stored, indexVars, askVars,
                 covered, unseen, unread>>

\* The batch of the worker is rolled back: its events come again.
JobRedone(m) ==
  /\ job[m] = "done" /\ faults < MaxFaults
  /\ faults' = faults + 1
  /\ job' = [job EXCEPT ![m] = "queued"]
  /\ UNCHANGED <<searchIndexed, stored, indexVars, askVars, ghostVars>>

\* The index refreshes itself, every second by default.
Refresh ==
  /\ searchable # docs
  /\ searchable' = docs
  /\ UNCHANGED <<searchIndexed, stored, job, docs, mapping, askVars, ghostVars,
                 faults>>

-----------------------------------------------------------------------------
(* Opt-in and opt-out *)

\* enableIndexing: 409 if the flag is on.
EnableReadsFlag(r) ==
  /\ asking[r] = "idle" /\ ~searchIndexed
  /\ asking' = [asking EXCEPT ![r] = "checked"]
  /\ UNCHANGED <<searchIndexed, stored, job, indexVars, todo, listed, ghostVars,
                 faults>>

\* The history is read in one SELECT.  Left out are the messages that have
\* been deleted and the texts that do not decrypt, whichever these are.
EnableLists(r) ==
  /\ asking[r] = "checked"
  /\ asking' = [asking EXCEPT ![r] = "backfill"]
  /\ \E S \in SUBSET (1..stored) :
       /\ listed' = [listed EXCEPT ![r] = S]
       /\ todo' = [todo EXCEPT ![r] = S]
  /\ UNCHANGED <<searchIndexed, stored, job, indexVars, ghostVars, faults>>

\* One await per message, by sequence.
EnableIndexes(r) ==
  /\ asking[r] = "backfill"
  /\ \E m \in todo[r] :
       /\ \A k \in todo[r] : m <= k
       /\ WriteDoc(m)
       /\ todo' = [todo EXCEPT ![r] = @ \ {m}]
  /\ UNCHANGED <<searchIndexed, stored, job, asking, listed, faults>>

\* Mutant: the error of one document is swallowed, as in the worker.
BackfillGoesOn(r) == "backfill"

\* An error in the loop leaves enableIndexing, and what is indexed stays.
AfterBackfillError(r) == "idle"

EnableFails(r) ==
  /\ asking[r] = "backfill" /\ faults < MaxFaults
  /\ faults' = faults + 1
  /\ asking' = [asking EXCEPT ![r] = AfterBackfillError(r)]
  /\ \E m \in todo[r] :
       /\ \A k \in todo[r] : m <= k
       /\ todo' = [todo EXCEPT ![r] = IF asking'[r] = "idle" THEN {} ELSE @ \ {m}]
  /\ listed' = IF asking'[r] = "idle" THEN [listed EXCEPT ![r] = {}] ELSE listed
  /\ UNCHANGED <<searchIndexed, stored, job, indexVars, ghostVars>>

\* The flag is set after the last message, without looking at it again.
EnableSetsFlag(r) ==
  /\ asking[r] = "backfill" /\ todo[r] = {}
  /\ searchIndexed' = TRUE
  /\ covered' = listed[r]
  /\ listed' = [listed EXCEPT ![r] = {}]
  /\ asking' = [asking EXCEPT ![r] = "idle"]
  /\ UNCHANGED <<stored, job, indexVars, todo, unseen, unread, gone, faults>>

\* A query fails before the flag is set: the SELECT, or the UPDATE itself.
EnableLosesQuery(r) ==
  /\ \/ asking[r] = "checked"
     \/ asking[r] = "backfill" /\ todo[r] = {}
  /\ faults < MaxFaults
  /\ faults' = faults + 1
  /\ asking' = [asking EXCEPT ![r] = "idle"]
  /\ listed' = [listed EXCEPT ![r] = {}]
  /\ UNCHANGED <<searchIndexed, stored, job, indexVars, todo, ghostVars>>

\* disableIndexing: the flag is cleared, whatever it was,
DisableClearsFlag(r) ==
  /\ asking[r] = "idle"
  /\ searchIndexed' = FALSE
  /\ asking' = [asking EXCEPT ![r] = "purge"]
  /\ UNCHANGED <<stored, job, indexVars, todo, listed, ghostVars, faults>>

\* A term query on the id of the conversation: it finds what the last refresh
\* shows, but nothing where the mapping is guessed and the id analysed text.
Found == IF mapping = "declared" THEN searchable ELSE {}

\* and delete_by_query removes what it finds, then refreshes.
DisablePurges(r) ==
  /\ asking[r] = "purge"
  /\ docs' = docs \ Found
  /\ searchable' = docs'
  /\ gone' = gone \cup Found
  /\ asking' = [asking EXCEPT ![r] = "idle"]
  /\ UNCHANGED <<searchIndexed, stored, job, mapping, todo, listed,
                 covered, unseen, unread, faults>>

\* It fails, having removed some of them or none.
DisableFails(r) ==
  /\ asking[r] = "purge" /\ faults < MaxFaults
  /\ faults' = faults + 1
  /\ asking' = [asking EXCEPT ![r] = "idle"]
  /\ \E S \in SUBSET Found : docs' = docs \ S /\ gone' = gone \cup S
  /\ UNCHANGED <<searchIndexed, stored, job, searchable, mapping, todo, listed,
                 covered, unseen, unread>>

-----------------------------------------------------------------------------

Work(m) == JobReadsFlag(m) \/ JobIndexes(m)

SearchNext ==
  \/ StoreMessage \/ Refresh
  \/ \E m \in Stored : Work(m) \/ JobCannotRead(m) \/ JobFails(m) \/ JobRedone(m)
  \/ \E r \in Askers : EnableReadsFlag(r) \/ EnableLists(r) \/ EnableIndexes(r)
                       \/ EnableFails(r) \/ EnableSetsFlag(r) \/ EnableLosesQuery(r)
                       \/ DisableClearsFlag(r) \/ DisablePurges(r) \/ DisableFails(r)

SearchSpec == SearchInit /\ [][SearchNext]_searchVars

\* The index refreshes by itself, and the worker goes on.
SearchFairness ==
  /\ WF_searchVars(Refresh)
  /\ \A m \in Stored : WF_searchVars(Work(m))

\* What a search by a participant can return: its filter is a term query on the
\* participants, whose ids a guessed mapping analyses as well.
Hits == Found

SearchTypeOK ==
  /\ searchIndexed \in BOOLEAN /\ stored \in 0..MaxStored
  /\ job \in [Stored -> {"none", "queued", "checked", "done"}]
  /\ docs \subseteq 1..stored /\ searchable \subseteq 1..stored
  /\ mapping \in {"none", "declared", "dynamic"}
  /\ asking \in [Askers -> {"idle", "checked", "backfill", "purge"}]
  /\ \A r \in Askers : todo[r] \subseteq listed[r] /\ listed[r] \subseteq 1..stored
  /\ covered \cup unseen \cup unread \cup gone \subseteq 1..stored

\* "À l'enable, backfill séquentiel des messages historiques": a message that
\* an indexed conversation lacks is waiting for the worker, was refused by
\* OpenSearch or purged after it was written, or is not in the list of the
\* opt-in that set the flag, because it was deleted, does not decrypt or came
\* after the SELECT, while its own job found the flag off or failed to read it.
IndexComplete ==
  searchIndexed => \A m \in 1..stored : \/ m \in docs \cup gone
                                        \/ job[m] \in {"queued", "checked"}
                                        \/ m \in (unseen \cup unread) \ covered

\* "if conv.search_indexed -> SearchService.indexMessageIfEnabled": a message
\* sent while the conversation is indexed is found by a search in the end,
\* unless OpenSearch failed, the flag could not be read or the conversation has
\* been opted out.
NewMessageSearchable ==
  \A m \in Stored :
    (job[m] = "queued" /\ searchIndexed)
      ~> (m \in Hits \cup gone \cup unread \/ ~searchIndexed \/ mapping = "dynamic")
=============================================================================
