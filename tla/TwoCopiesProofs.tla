-------------------------- MODULE TwoCopiesProofs --------------------------
(***************************************************************************)
(* Proofs about the components that keep one fact in two places and in no  *)
(* transaction: the row of a file and its object (Attachments), a report   *)
(* and its message (Moderation), a message and its document (Search), a    *)
(* socket and its member in Redis (Presence), the rows of a conversation   *)
(* and the screen of a client (ClientView).  They hold for any number of   *)
(* files, reports, messages, sockets and overlapping calls.                *)
(***************************************************************************)
EXTENDS Attachments, Moderation, Search, Presence, ClientView, FiniteSetTheorems, TLAPS

-----------------------------------------------------------------------------
(* Attachments *)

\* A call of finalize is about one file that has a row, or about none when it
\* is idle.
OneFileEach ==
  /\ row \in [Files -> {"none", "clean", "pending", "removed"}]
  /\ bucket \in [Files -> {"none", "declared", "other"}]
  /\ finalizing \in [Finalizers -> {"idle", "found", "mismatch", "deleted"}]
  /\ file \in [Finalizers -> SUBSET Files]
  /\ \A q \in Finalizers : finalizing[q] = "idle" <=> file[q] = {}
  /\ \A q \in Finalizers : \A f, g \in file[q] : f = g
  /\ \A f \in Files : f \in accepted \/ (\E q \in Finalizers : f \in file[q]) => row[f] # "none"

Deleting(f) == \E q \in Finalizers : finalizing[q] = "deleted" /\ f \in file[q]

\* The object of an accepted file that can be downloaded is missing only
\* behind the deletion of a call that is under way, or that failed.
MissingObjects ==
  \A f \in accepted : row[f] = "clean" => \/ bucket[f] # "none"
                                          \/ f \in halfway
                                          \/ Deleting(f)

\* Behind a deletion, and once the file is refused, an object is a new one.
NewObjects ==
  \A f \in Files :
    /\ f \in refused \/ Deleting(f) => bucket[f] = "none" \/ f \in again
    /\ f \in refused => row[f] = "removed"

FilesInv ==
  /\ OneFileEach /\ accepted \subseteq Files /\ refused \subseteq Files
  /\ MissingObjects /\ NewObjects

\* No call is under way at the start.
LEMMA FilesInvInit == AttachmentsInit => FilesInv
BY DEF AttachmentsInit, FilesInv, OneFileEach, MissingObjects, NewObjects, Deleting

\* Every step of the client and of finalize keeps the invariant.
LEMMA FilesInvStep == FilesInv /\ [AttachmentsNext]_attachmentsVars => FilesInv'
<1> SUFFICES ASSUME FilesInv, [AttachmentsNext]_attachmentsVars PROVE FilesInv'
  OBVIOUS
<1> USE DEF FilesInv, OneFileEach, MissingObjects, NewObjects, Deleting, storeVars,
            callVars, fileGhost
<1>1. ASSUME NEW f \in Files, PresignUpload(f) PROVE FilesInv'
  BY <1>1 DEF PresignUpload
<1>2. ASSUME NEW f \in Files, ExpirePut(f) PROVE FilesInv'
  BY <1>2 DEF ExpirePut
<1>3. ASSUME NEW f \in Files, NEW size \in {"declared", "other"}, Upload(f, size)
      PROVE FilesInv'
  BY <1>3 DEF Upload
<1>4. ASSUME NEW q \in Finalizers, NEW f \in Files, FinalizeFinds(q, f) PROVE FilesInv'
  BY <1>4 DEF FinalizeFinds, Goes
<1>5. ASSUME NEW q \in Finalizers, FinalizeAccepts(q) PROVE FilesInv'
  BY <1>5 DEF FinalizeAccepts, Goes, RightSizes
<1>6. ASSUME NEW q \in Finalizers, FinalizeMisses(q) PROVE FilesInv'
  BY <1>6 DEF FinalizeMisses, Goes
<1>7. ASSUME NEW q \in Finalizers, FinalizeMismatches(q) PROVE FilesInv'
  BY <1>7 DEF FinalizeMismatches, Goes
<1>8. ASSUME NEW q \in Finalizers, FinalizeDeletes(q) PROVE FilesInv'
  BY <1>8 DEF FinalizeDeletes, Goes
<1>9. ASSUME NEW q \in Finalizers, FinalizeRemoves(q) PROVE FilesInv'
  BY <1>9 DEF FinalizeRemoves, Goes, RemovedRow
<1>10. ASSUME NEW q \in Finalizers, FinalizeFails(q) PROVE FilesInv'
  BY <1>10 DEF FinalizeFails, Goes
<1>11. CASE UNCHANGED attachmentsVars
  BY <1>11 DEF attachmentsVars
<1> QED
  BY <1>1, <1>2, <1>3, <1>4, <1>5, <1>6, <1>7, <1>8, <1>9, <1>10, <1>11
  DEF AttachmentsNext

\* finalize keeps row and object together, for any number of files, of calls
\* and of uploads between their steps, and whatever call fails.
THEOREM FilesAgree == AttachmentsSpec => []RowAndObjectAgree
<1>1. FilesInv => RowAndObjectAgree
  BY DEF FilesInv, OneFileEach, MissingObjects, NewObjects, Deleting,
         RowAndObjectAgree, Idle, Downloadable
<1> QED
  BY <1>1, FilesInvInit, FilesInvStep, PTL DEF AttachmentsSpec

\* A call of finalize reaches its steps in order, with its file in hand; rows,
\* objects and URLs have no other state than those of presignUpload, of the
\* client and of finalize, for any number of files and calls.
THEOREM AttachmentTypesAreCorrect == AttachmentsSpec => []AttachmentsTypeOK
<1>1. AttachmentsInit => AttachmentsTypeOK
  BY DEF AttachmentsInit, AttachmentsTypeOK
<1>2. AttachmentsTypeOK /\ [AttachmentsNext]_attachmentsVars => AttachmentsTypeOK'
  <2> SUFFICES ASSUME AttachmentsTypeOK, [AttachmentsNext]_attachmentsVars
               PROVE  AttachmentsTypeOK'
    OBVIOUS
  <2> USE DEF AttachmentsTypeOK, storeVars, callVars, fileGhost
  <2>1. ASSUME NEW f \in Files, PresignUpload(f) \/ ExpirePut(f) PROVE AttachmentsTypeOK'
    BY <2>1 DEF PresignUpload, ExpirePut
  <2>2. ASSUME NEW f \in Files, NEW size \in {"declared", "other"}, Upload(f, size)
        PROVE  AttachmentsTypeOK'
    BY <2>2 DEF Upload
  <2>3. ASSUME NEW q \in Finalizers, NEW f \in Files, FinalizeFinds(q, f)
        PROVE  AttachmentsTypeOK'
    BY <2>3 DEF FinalizeFinds, Goes
  <2>4. ASSUME NEW q \in Finalizers, FinalizeAccepts(q) \/ FinalizeMisses(q)
        PROVE  AttachmentsTypeOK'
    BY <2>4 DEF FinalizeAccepts, FinalizeMisses, Goes
  <2>5. ASSUME NEW q \in Finalizers, FinalizeMismatches(q) \/ FinalizeDeletes(q)
        PROVE  AttachmentsTypeOK'
    BY <2>5 DEF FinalizeMismatches, FinalizeDeletes, Goes
  <2>6. ASSUME NEW q \in Finalizers, FinalizeRemoves(q) PROVE AttachmentsTypeOK'
    BY <2>6 DEF FinalizeRemoves, RemovedRow, Goes
  <2>7. ASSUME NEW q \in Finalizers, FinalizeFails(q) PROVE AttachmentsTypeOK'
    BY <2>7 DEF FinalizeFails, Goes
  <2>8. CASE UNCHANGED attachmentsVars
    BY <2>8 DEF attachmentsVars
  <2> QED
    BY <2>1, <2>2, <2>3, <2>4, <2>5, <2>6, <2>7, <2>8 DEF AttachmentsNext
<1> QED
  BY <1>1, <1>2, PTL DEF AttachmentsSpec

-----------------------------------------------------------------------------
(* Moderation *)

\* Types, and a call of resolve is about one report that is there, or about none.
ReportsInv ==
  /\ ModerationTypeOK
  /\ \A q \in Moderators : \A r, s \in about[q] : r = s
  /\ \A q \in Moderators : \A r \in about[q] : report[r] # "none"
  /\ cutShort \subseteq Reports

\* No report is there at the start.
LEMMA ReportsInvInit == ModerationInit => ReportsInv /\ ActionedIsHidden
BY DEF ModerationInit, ReportsInv, ModerationTypeOK, ActionedIsHidden, Verdicts

\* Every step keeps the types and what an actioned report stands for.
LEMMA ReportsInvStep ==
  ReportsInv /\ ActionedIsHidden /\ [ModerationNext]_moderationVars
    => (ReportsInv /\ ActionedIsHidden)'
<1> SUFFICES ASSUME ReportsInv, ActionedIsHidden, [ModerationNext]_moderationVars
             PROVE (ReportsInv /\ ActionedIsHidden)'
  OBVIOUS
<1> USE DEF ReportsInv, ModerationTypeOK, ActionedIsHidden, resolveVars
<1>1. ASSUME NEW r \in Reports, Report(r) PROVE (ReportsInv /\ ActionedIsHidden)'
  BY <1>1 DEF Report
<1>2. CASE DeleteReported
  BY <1>2 DEF DeleteReported
<1>3. ASSUME NEW r \in Reports, NEW q \in Moderators, NEW v \in Verdicts,
             ResolveFinds(q, r, v)
      PROVE (ReportsInv /\ ActionedIsHidden)'
  BY <1>3 DEF ResolveFinds
<1>4. ASSUME NEW q \in Moderators, ResolveSaves(q)
      PROVE (ReportsInv /\ ActionedIsHidden)'
  <2>1. ReportsInv'
    <3>1. status' \in {"sent", "hidden", "deleted"} /\ verdict' \in [Moderators -> Verdicts]
      BY <1>4 DEF ResolveSaves
    <3>2. report' \in [Reports -> {"none", "open", "dismissed", "actioned"}]
      BY <1>4 DEF ResolveSaves, Outcome, Verdicts
    <3>3. /\ resolving' \in [Moderators -> {"idle", "found", "saved"}]
          /\ about' \in [Moderators -> SUBSET Reports]
      BY <1>4 DEF ResolveSaves
    <3>4. \A p \in Moderators : resolving'[p] = "idle" <=> about'[p] = {}
      BY <1>4 DEF ResolveSaves
    <3>5. \A r \in cutShort' : report'[r] # "none"
      BY <1>4 DEF ResolveSaves, Outcome, Verdicts
    <3>6. \A p \in Moderators : \A r, s \in about'[p] : r = s
      BY <1>4 DEF ResolveSaves
    <3>7. /\ \A p \in Moderators : \A r \in about'[p] : report'[r] # "none"
          /\ cutShort' \subseteq Reports
      BY <1>4 DEF ResolveSaves, Outcome, Verdicts
    <3> QED
      BY <3>1, <3>2, <3>3, <3>4, <3>5, <3>6, <3>7
  <2>2. ActionedIsHidden'
    <3> SUFFICES ASSUME NEW r \in Reports, report'[r] = "actioned", status' = "sent",
                        r \notin cutShort'
                 PROVE  \E p \in Moderators : /\ r \in about'[p] /\ resolving'[p] = "saved"
                                              /\ verdict'[p] = "hide_message"
      BY DEF ActionedIsHidden
    <3>1. CASE r \in about[q]
      BY <1>4, <3>1 DEF ResolveSaves, Outcome, Verdicts
    <3>2. CASE r \notin about[q]
      <4>1. PICK p \in Moderators : /\ r \in about[p] /\ resolving[p] = "saved"
                                    /\ verdict[p] = "hide_message"
        BY <1>4, <3>2 DEF ResolveSaves
      <4> QED
        BY <1>4, <4>1 DEF ResolveSaves
    <3> QED
      BY <3>1, <3>2
  <2> QED
    BY <2>1, <2>2
<1>5. ASSUME NEW q \in Moderators, ResolveHides(q)
      PROVE (ReportsInv /\ ActionedIsHidden)'
  BY <1>5 DEF ResolveHides
<1>6. ASSUME NEW q \in Moderators, ResolveCutShort(q)
      PROVE (ReportsInv /\ ActionedIsHidden)'
  <2>1. ReportsInv'
    <3>1. status' \in {"sent", "hidden", "deleted"} /\ verdict' \in [Moderators -> Verdicts]
      BY <1>6 DEF ResolveCutShort
    <3>2. report' \in [Reports -> {"none", "open", "dismissed", "actioned"}]
      BY <1>6 DEF ResolveCutShort
    <3>3. /\ resolving' \in [Moderators -> {"idle", "found", "saved"}]
          /\ about' \in [Moderators -> SUBSET Reports]
      BY <1>6 DEF ResolveCutShort
    <3>4. \A p \in Moderators : resolving'[p] = "idle" <=> about'[p] = {}
      BY <1>6 DEF ResolveCutShort
    <3>5. \A r \in cutShort' : report'[r] # "none"
      BY <1>6 DEF ResolveCutShort
    <3>6. \A p \in Moderators : \A r, s \in about'[p] : r = s
      BY <1>6 DEF ResolveCutShort
    <3>7. /\ \A p \in Moderators : \A r \in about'[p] : report'[r] # "none"
          /\ cutShort' \subseteq Reports
      BY <1>6 DEF ResolveCutShort
    <3> QED
      BY <3>1, <3>2, <3>3, <3>4, <3>5, <3>6, <3>7
  <2>2. ActionedIsHidden'
    <3> SUFFICES ASSUME NEW r \in Reports, report'[r] = "actioned", status' = "sent",
                        r \notin cutShort'
                 PROVE  \E p \in Moderators : /\ r \in about'[p] /\ resolving'[p] = "saved"
                                              /\ verdict'[p] = "hide_message"
      BY DEF ActionedIsHidden
    <3>1. PICK p \in Moderators : /\ r \in about[p] /\ resolving[p] = "saved"
                                  /\ verdict[p] = "hide_message"
      BY <1>6 DEF ResolveCutShort
    <3>2. p # q
      BY <1>6, <3>1 DEF ResolveCutShort
    <3> QED
      BY <1>6, <3>1, <3>2 DEF ResolveCutShort
  <2> QED
    BY <2>1, <2>2
<1>7. CASE UNCHANGED moderationVars
  BY <1>7 DEF moderationVars
<1> QED
  BY <1>1, <1>2, <1>3, <1>4, <1>5, <1>6, <1>7 DEF ModerationNext

\* A report that is actioned has its message out of sight, or a call that has
\* still to hide it, or that died, for any number of reports and moderators.
THEOREM ReportsAreActedOn == ModerationSpec => [](ModerationTypeOK /\ ActionedIsHidden)
<1>1. ReportsInv => ModerationTypeOK
  BY DEF ReportsInv
<1> QED
  BY <1>1, ReportsInvInit, ReportsInvStep, PTL DEF ModerationSpec

-----------------------------------------------------------------------------
(* Search *)

\* What the calls of the worker and of enableIndexing have in hand.
SearchShape ==
  /\ searchIndexed \in BOOLEAN /\ stored \in 0..MaxStored
  /\ job \in [Stored -> {"none", "queued", "checked", "done"}]
  /\ asking \in [Askers -> {"idle", "checked", "backfill", "purge"}]
  /\ todo \in [Askers -> SUBSET Stored] /\ listed \in [Askers -> SUBSET Stored]

\* No message is lost without a trace: its document is there or has been
\* refused or purged, its job is still to come, found the flag off or failed to
\* read it.
NoMessageForgotten ==
  \A m \in 1..stored : m \in docs \cup gone \cup unseen \cup unread \/ job[m] \in {"queued", "checked"}

\* What a backfill has read and has no longer to index, it has indexed, and so
\* has the one that set the flag.
BackfillsKeepUp ==
  /\ \A r \in Askers : listed[r] \ todo[r] \subseteq docs \cup gone
  /\ covered \subseteq docs \cup gone

IndexInv == SearchShape /\ NoMessageForgotten /\ BackfillsKeepUp /\ IndexComplete

\* Nothing is stored, and nobody asks, at the start.
LEMMA IndexInvInit == SearchInit => IndexInv
<1> SUFFICES ASSUME SearchInit PROVE IndexInv
  OBVIOUS
<1>1. SearchShape
  <2>1. searchIndexed \in BOOLEAN /\ stored \in 0..MaxStored
    <3>1. searchIndexed = FALSE /\ stored = 0
      BY DEF SearchInit
    <3>2. 0 \in 0..MaxStored
      BY SearchAssumption
    <3> QED
      BY <3>1, <3>2
  <2>2. /\ job \in [Stored -> {"none", "queued", "checked", "done"}]
        /\ asking \in [Askers -> {"idle", "checked", "backfill", "purge"}]
    BY DEF SearchInit
  <2>3. todo \in [Askers -> SUBSET Stored] /\ listed \in [Askers -> SUBSET Stored]
    BY DEF SearchInit
  <2> QED
    BY <2>1, <2>2, <2>3 DEF SearchShape
<1>2. 1..stored = {} /\ ~searchIndexed
  BY DEF SearchInit
<1>3. BackfillsKeepUp
  BY DEF SearchInit, BackfillsKeepUp
<1> QED
  BY <1>1, <1>2, <1>3 DEF IndexInv, NoMessageForgotten, IndexComplete

\* A document that is written takes its message out of those refused or purged.
LEMMA WrittenOrGone ==
  ASSUME NEW m, WriteDoc(m)
  PROVE  (docs \cup gone)' = docs \cup gone \cup {m} /\ UNCHANGED <<covered, unseen, unread>>
BY DEF WriteDoc, DocOf

\* Every step of the worker, of the opt-in and of the opt-out keeps the invariant.
LEMMA IndexInvStep == IndexInv /\ [SearchNext]_searchVars => IndexInv'
<1> SUFFICES ASSUME IndexInv, [SearchNext]_searchVars PROVE IndexInv'
  OBVIOUS
<1> USE SearchAssumption
    DEF IndexInv, SearchShape, NoMessageForgotten, BackfillsKeepUp, IndexComplete,
        Stored, indexVars, askVars, ghostVars
<1>1. CASE StoreMessage
  BY <1>1 DEF StoreMessage
<1>2. CASE Refresh
  BY <1>2 DEF Refresh
<1>3. ASSUME NEW m \in Stored, JobReadsFlag(m) PROVE IndexInv'
  BY <1>3 DEF JobReadsFlag, AfterFlag
<1>4. ASSUME NEW m \in Stored, JobIndexes(m) PROVE IndexInv'
  BY <1>4, WrittenOrGone DEF JobIndexes
<1>5. ASSUME NEW m \in Stored, JobFails(m) PROVE IndexInv'
  BY <1>5 DEF JobFails
<1>6. ASSUME NEW m \in Stored, JobRedone(m) PROVE IndexInv'
  BY <1>6 DEF JobRedone
<1>7. ASSUME NEW r \in Askers, EnableReadsFlag(r) PROVE IndexInv'
  BY <1>7 DEF EnableReadsFlag
<1>8. ASSUME NEW r \in Askers, EnableLists(r) PROVE IndexInv'
  BY <1>8 DEF EnableLists
<1>9. ASSUME NEW r \in Askers, EnableIndexes(r) PROVE IndexInv'
  BY <1>9, WrittenOrGone DEF EnableIndexes
<1>10. ASSUME NEW r \in Askers, EnableFails(r) PROVE IndexInv'
  BY <1>10 DEF EnableFails, AfterBackfillError
<1>11. ASSUME NEW r \in Askers, EnableSetsFlag(r) PROVE IndexInv'
  BY <1>11 DEF EnableSetsFlag
<1>12. ASSUME NEW r \in Askers, DisableClearsFlag(r) PROVE IndexInv'
  BY <1>12 DEF DisableClearsFlag
<1>13. ASSUME NEW r \in Askers, DisablePurges(r) PROVE IndexInv'
  BY <1>13 DEF DisablePurges
<1>14. ASSUME NEW r \in Askers, DisableFails(r) PROVE IndexInv'
  BY <1>14 DEF DisableFails
<1>15. ASSUME NEW m \in Stored, JobCannotRead(m) PROVE IndexInv'
  <2> USE <1>15 DEF JobCannotRead
  <2>1. SearchShape' /\ BackfillsKeepUp'
    OBVIOUS
  <2>2. /\ job' = [job EXCEPT ![m] = "done"] /\ unread' = unread \cup {m}
        /\ UNCHANGED <<docs, gone, unseen, covered, stored, searchIndexed>>
    OBVIOUS
  <2>3. NoMessageForgotten'
    BY <2>2
  <2>4. m \in 1..stored /\ m \in covered => m \in docs \cup gone
    OBVIOUS
  <2>5. IndexComplete'
    BY <2>2, <2>4
  <2> QED
    BY <2>1, <2>3, <2>5
<1>16. ASSUME NEW r \in Askers, EnableLosesQuery(r) PROVE IndexInv'
  BY <1>16 DEF EnableLosesQuery
<1>17. CASE UNCHANGED searchVars
  BY <1>17 DEF searchVars
<1> QED
  BY <1>1, <1>2, <1>3, <1>4, <1>5, <1>6, <1>7, <1>8, <1>9, <1>10, <1>11, <1>12, <1>13,
     <1>14, <1>15, <1>16, <1>17 DEF SearchNext, Work

\* SearchService leaves no message out of an indexed conversation but for the
\* ones IndexComplete explains: for any number of messages, of opt-ins and
\* opt-outs that overlap, and of failures.
THEOREM IndexIsComplete == SearchSpec => []IndexComplete
<1>1. IndexInv => IndexComplete
  BY DEF IndexInv
<1> QED
  BY <1>1, IndexInvInit, IndexInvStep, PTL DEF SearchSpec

\* A message has a job from its commit on, and not before; documents, listings
\* and records are of committed messages.
JobsOfStored ==
  /\ \A m \in Stored : m > stored => job[m] = "none"
  /\ docs \subseteq 1..stored /\ searchable \subseteq 1..stored
  /\ covered \subseteq 1..stored /\ unseen \subseteq 1..stored /\ unread \subseteq 1..stored
  /\ gone \subseteq 1..stored
  /\ \A r \in Askers :
       /\ todo[r] \subseteq listed[r] /\ listed[r] \subseteq 1..stored
       /\ asking[r] # "backfill" => listed[r] = {}
  /\ mapping \in {"none", "declared", "dynamic"}

\* Whatever is written, listed or recorded has been committed before.
LEMMA JobsOfStoredStep ==
  SearchShape /\ JobsOfStored /\ [SearchNext]_searchVars => JobsOfStored'
<1> SUFFICES ASSUME SearchShape, JobsOfStored, [SearchNext]_searchVars PROVE JobsOfStored'
  OBVIOUS
<1> USE SearchAssumption DEF SearchShape, JobsOfStored, Stored, indexVars, askVars, ghostVars
<1>1. CASE StoreMessage
  BY <1>1 DEF StoreMessage
<1>2. CASE Refresh
  BY <1>2 DEF Refresh
<1>3. ASSUME NEW m \in Stored, JobReadsFlag(m) PROVE JobsOfStored'
  BY <1>3 DEF JobReadsFlag, AfterFlag
<1>4. ASSUME NEW m \in Stored, JobIndexes(m) PROVE JobsOfStored'
  BY <1>4 DEF JobIndexes, WriteDoc, DocOf
<1>5. ASSUME NEW m \in Stored, JobFails(m) PROVE JobsOfStored'
  BY <1>5 DEF JobFails
<1>6. ASSUME NEW m \in Stored, JobRedone(m) PROVE JobsOfStored'
  BY <1>6 DEF JobRedone
<1>7. ASSUME NEW r \in Askers,
             EnableReadsFlag(r) \/ EnableLists(r) \/ EnableSetsFlag(r)
      PROVE  JobsOfStored'
  <2>1. CASE EnableReadsFlag(r)
    BY <2>1 DEF EnableReadsFlag
  <2>2. CASE EnableLists(r)
    BY <2>2 DEF EnableLists
  <2>3. CASE EnableSetsFlag(r)
    BY <2>3 DEF EnableSetsFlag
  <2> QED
    BY <1>7, <2>1, <2>2, <2>3
<1>8. ASSUME NEW r \in Askers, EnableIndexes(r) PROVE JobsOfStored'
  BY <1>8 DEF EnableIndexes, WriteDoc, DocOf
<1>9. ASSUME NEW r \in Askers, EnableFails(r) PROVE JobsOfStored'
  BY <1>9 DEF EnableFails, AfterBackfillError
<1>10. ASSUME NEW r \in Askers,
              DisableClearsFlag(r) \/ DisablePurges(r) \/ DisableFails(r)
       PROVE  JobsOfStored'
  BY <1>10 DEF DisableClearsFlag, DisablePurges, DisableFails, Found
<1>11. ASSUME NEW m \in Stored, JobCannotRead(m) PROVE JobsOfStored'
  BY <1>11 DEF JobCannotRead
<1>12. ASSUME NEW r \in Askers, EnableLosesQuery(r) PROVE JobsOfStored'
  <2>1. todo[r] = {}
    BY <1>12 DEF EnableLosesQuery
  <2> QED
    BY <1>12, <2>1 DEF EnableLosesQuery
<1>13. CASE UNCHANGED searchVars
  BY <1>13 DEF searchVars
<1> QED
  BY <1>1, <1>2, <1>3, <1>4, <1>5, <1>6, <1>7, <1>8, <1>9, <1>10, <1>11, <1>12, <1>13
  DEF SearchNext, Work

\* The index holds documents of committed messages only, whatever opt-ins,
\* opt-outs, jobs and failures overlap.
THEOREM SearchTypesAreCorrect == SearchSpec => []SearchTypeOK
<1>1. SearchInit => JobsOfStored
  BY DEF SearchInit, JobsOfStored
<1>2. SearchShape /\ JobsOfStored => SearchTypeOK
  BY DEF SearchShape, JobsOfStored, SearchTypeOK
<1>3. IndexInv => SearchShape
  BY DEF IndexInv
<1> QED
  BY <1>1, <1>2, <1>3, IndexInvInit, IndexInvStep, JobsOfStoredStep, PTL DEF SearchSpec

-----------------------------------------------------------------------------
(* Presence *)

\* The handler of a disconnection runs for a socket that is closed.
ByeIsClosed == \A s \in Sockets : bye[s] # "none" => up[s] = "closed"

\* A socket that is connected, and through its handler, has its interval.
TimersRun == \A s \in Sockets : up[s] = "open" /\ hello[s] = "done" => timer[s]

\* Once its interval has fired in this tick, or before it is started, the set
\* lives for two ticks: it cannot expire at the next one.  A socket of which a
\* heartbeat was missed gives no such assurance.
FreshTtl ==
  \A s \in Sockets \ lapsed :
    (timer[s] /\ s \notin owed) \/ hello[s] = "timer" => members = {} \/ ttl = Ttl

\* A socket that is or was in the set is closed, or its handler has stored it.
MembersWereStored ==
  \A s \in Sockets :
    /\ hello[s] # "none" => up[s] # "new"
    /\ s \in members \cup timedOut =>
         up[s] = "closed" \/ (up[s] = "open" /\ hello[s] \in {"timer", "done"})

\* Stored, and not removed but by a DEL that it overtook or with the key; and
\* the key does not expire under a socket that has missed no heartbeat.
StoredIsMember ==
  \A s \in Sockets :
    /\ up[s] = "open" /\ hello[s] \in {"timer", "done"} =>
         s \in members \cup overtook \cup timedOut
    /\ up[s] = "open" /\ s \in timedOut => s \in lapsed

PresenceInv ==
  /\ PresenceTypeOK /\ ByeIsClosed /\ TimersRun /\ FreshTtl /\ MembersWereStored
  /\ StoredIsMember

\* No socket has come yet.
LEMMA PresenceInvInit == PresenceInit => PresenceInv
BY DEF PresenceInit, PresenceInv, PresenceTypeOK, ByeIsClosed, TimersRun, FreshTtl,
       MembersWereStored, StoredIsMember, Ttl

\* Every step of the handlers, of time and of a death keeps the invariant.
LEMMA PresenceInvStep == PresenceInv /\ [PresenceNext]_presenceVars => PresenceInv'
<1> SUFFICES ASSUME PresenceInv, [PresenceNext]_presenceVars PROVE PresenceInv'
  OBVIOUS
<1> USE DEF PresenceInv, PresenceTypeOK, ByeIsClosed, TimersRun, FreshTtl,
            MembersWereStored, StoredIsMember, Ttl, redisVars, handlerVars, faultVars,
            recordVars, RedisFails
<1>1. ASSUME NEW s \in Sockets, OpenSocket(s) PROVE PresenceInv'
  BY <1>1 DEF OpenSocket
<1>2. ASSUME NEW s \in Sockets, Refuse(s) PROVE PresenceInv'
  BY <1>2 DEF Refuse
<1>3. ASSUME NEW s \in Sockets, Verify(s) PROVE PresenceInv'
  BY <1>3 DEF Verify
<1>4. ASSUME NEW s \in Sockets, Store(s) PROVE PresenceInv'
  BY <1>4 DEF Store, TtlOfConnect
<1>5. ASSUME NEW s \in Sockets, StartTimer(s) PROVE PresenceInv'
  BY <1>5 DEF StartTimer
<1>6. ASSUME NEW s \in Sockets, CloseSocket(s) PROVE PresenceInv'
  BY <1>6 DEF CloseSocket
<1>7. ASSUME NEW s \in Sockets, RemoveSocket(s) PROVE PresenceInv'
  BY <1>7 DEF RemoveSocket
<1>8. ASSUME NEW s \in Sockets, Del(s) PROVE PresenceInv'
  BY <1>8 DEF Del
<1>9. ASSUME NEW s \in Sockets, Heartbeat(s) PROVE PresenceInv'
  BY <1>9 DEF Heartbeat, Renew
<1>10. ASSUME NEW s \in Sockets, Ping(s) PROVE PresenceInv'
  BY <1>10 DEF Ping, Renew
<1>11. CASE Tick
  BY <1>11 DEF Tick
<1>12. CASE Die
  BY <1>12 DEF Die
<1>13. ASSUME NEW s \in Sockets, StoreFails(s) PROVE PresenceInv'
  BY <1>13 DEF StoreFails, TtlOfConnect
<1>14. ASSUME NEW s \in Sockets, ByeFails(s) PROVE PresenceInv'
  BY <1>14 DEF ByeFails
<1>15. ASSUME NEW s \in Sockets, MissHeartbeat(s) PROVE PresenceInv'
  BY <1>15 DEF MissHeartbeat
<1>16. CASE UNCHANGED presenceVars
  BY <1>16 DEF presenceVars
<1> QED
  BY <1>1, <1>2, <1>3, <1>4, <1>5, <1>6, <1>7, <1>8, <1>9, <1>10, <1>11, <1>12, <1>13,
     <1>14, <1>15, <1>16 DEF PresenceNext, Handle

\* A connected socket is in the presence set of PresenceService, whatever other
\* sockets of the user come and go, however the handlers interleave and whatever
\* command Redis leaves without an answer, but for the DEL of a disconnection
\* that it overtook and for the expiry of the key behind a heartbeat of its own
\* that was missed.
THEOREM ConnectedIsOnline == PresenceSpec => [](PresenceTypeOK /\ ConnectedIsMember)
<1>1. PresenceInv => PresenceTypeOK /\ ConnectedIsMember
  BY DEF PresenceInv, StoredIsMember, ConnectedIsMember
<1> QED
  BY <1>1, PresenceInvInit, PresenceInvStep, PTL DEF PresenceSpec

-----------------------------------------------------------------------------
(* ClientView *)

\* The last call of openConversation is about the current conversation, of which
\* there is one at most, and it alone sets rendered, in the end.
LastCall ==
  /\ sent \in [Convs -> Nat] /\ opens \in Nat
  /\ opening \in [Opens -> {"none", "list", "answered", "done"}]
  /\ opened \in [Opens -> SUBSET Convs] /\ page \in [Opens -> SUBSET (Convs \X Nat)]
  /\ \A c, d \in current : c = d
  /\ opens \in Opens => current = opened[opens]
  /\ rendered => opens \in Opens /\ opening[opens] = "done"

\* A client that has opened a conversation is in its room or has asked to be,
\* unless the connection or a refusal has barred it.
RoomAsked == current \subseteq rooms \cup joins \cup barred

\* Where a message can be: on its way, on the screen, or missed by the client or
\* wiped off its screen, which is on record.
Traced == toEmit \cup inbox \cup screen \cup missed \cup wiped

\* Older than everything in the page of the last call.
OlderThanPage(m) == \A k \in page[opens] : m[2] < k[2]

\* The list of the last call has been read, and will be shown or is.
ListRead ==
  opens \in Opens /\ (opening[opens] = "answered" \/ (opening[opens] = "done" /\ rendered))

\* From then on, a message of the current conversation is traced, or in the page
\* still to be shown, or older than that page.
NothingUnexplained ==
  ListRead => \A m \in AllMessages : m[1] \in current /\ m[2] <= sent[m[1]] =>
    \/ m \in Traced
    \/ OlderThanPage(m)
    \/ opening[opens] = "answered" /\ m \in page[opens]

ViewInv == LastCall /\ RoomAsked /\ NothingUnexplained /\ ViewOfOneConversation

\* No conversation is open at the start.
LEMMA ViewInvInit == ClientViewInit => ViewInv
BY ClientViewAssumption
DEF ClientViewInit, ViewInv, LastCall, RoomAsked, ListRead, NothingUnexplained,
    ViewOfOneConversation, Opens

\* A step that moves no call and takes no message off the record keeps the view.
LEMMA RecordKept ==
  ASSUME ViewInv, UNCHANGED <<sent, openVars, rendered>>, RoomAsked',
         \A m \in Traced : m[1] \in current => m \in Traced',
         \A m \in screen' \ screen : m[1] \in current
  PROVE  ViewInv'
<1> USE DEF ViewInv, openVars
<1>1. LastCall'
  BY DEF LastCall
<1>2. NothingUnexplained'
  BY DEF NothingUnexplained, ListRead, OlderThanPage
<1>3. ViewOfOneConversation'
  BY DEF ViewOfOneConversation
<1> QED
  BY <1>1, <1>2, <1>3

\* A message that has just been committed is still to be emitted.
LEMMA SendToStep ==
  ASSUME ViewInv, NEW c \in Convs, SendTo(c)
  PROVE  ViewInv'
<1> USE DEF ViewInv, SendTo, socketVars, openVars, screenVars, clientGhost
<1>1. LastCall' /\ RoomAsked' /\ ViewOfOneConversation'
  BY DEF LastCall, RoomAsked, ViewOfOneConversation
<1>2. ASSUME NEW m \in AllMessages, m[2] <= sent'[m[1]]
      PROVE  m[2] <= sent[m[1]] \/ m \in toEmit'
  <2>1. m = <<m[1], m[2]>> /\ m[1] \in Convs /\ m[2] \in Nat
    BY DEF AllMessages
  <2>2. sent \in [Convs -> Nat]
    BY DEF LastCall
  <2> QED
    BY <1>2, <2>1, <2>2
<1>3. NothingUnexplained'
  BY <1>2 DEF NothingUnexplained, ListRead, OlderThanPage, Traced
<1> QED
  BY <1>1, <1>3

\* The page of the last call has every message of the conversation from its
\* oldest one on.
LEMMA ListLatestStep ==
  ASSUME ViewInv, NEW o \in Opens, ListLatest(o)
  PROVE  ViewInv'
<1> USE DEF ViewInv, ListLatest, serverVars, socketVars, screenVars, clientGhost
<1>1. /\ opening \in [Opens -> {"none", "list", "answered", "done"}]
      /\ opened \in [Opens -> SUBSET Convs] /\ page \in [Opens -> SUBSET (Convs \X Nat)]
      /\ sent \in [Convs -> Nat]
  BY DEF LastCall
<1>2. \A c \in Convs : Latest(c) \in SUBSET (Convs \X Nat)
  BY DEF Latest
<1>3. page' \in [Opens -> SUBSET (Convs \X Nat)]
  <2>1. \A c \in opened[o] : Latest(c) \in SUBSET (Convs \X Nat)
    BY <1>1, <1>2
  <2>2. UNION {Latest(c) : c \in opened[o]} \in SUBSET (Convs \X Nat)
    BY <2>1
  <2> HIDE DEF ViewInv
  <2> QED
    BY <1>1, <2>2
<1>4. LastCall' /\ RoomAsked' /\ ViewOfOneConversation'
  BY <1>3 DEF LastCall, RoomAsked, ViewOfOneConversation
<1>5. NothingUnexplained'
  <2>1. CASE o = opens
    <3> SUFFICES ASSUME NEW m \in AllMessages, m[1] \in current, m[2] <= sent[m[1]],
                        m \notin page'[o]
                 PROVE  \A k \in page'[o] : m[2] < k[2]
      BY <1>1, <2>1 DEF NothingUnexplained, ListRead, OlderThanPage
    <3>1. m = <<m[1], m[2]>> /\ m[1] \in Convs /\ m[2] \in Nat \ {0}
      BY DEF AllMessages
    <3>2. opened[o] = {m[1]}
      BY <2>1 DEF LastCall
    <3>3. page'[o] = Latest(m[1])
      <4>1. page'[o] = UNION {Latest(c) : c \in opened[o]}
        BY <1>1
      <4> QED
        BY <3>2, <4>1
    <3>4. sent[m[1]] \in Nat /\ PageLimit50 \in Nat
      BY <1>1, <3>1, ClientViewAssumption
    <3>5. ~(m[2] + PageLimit50 > sent[m[1]])
      <4> SUFFICES ASSUME m[2] + PageLimit50 > sent[m[1]] PROVE FALSE
        OBVIOUS
      <4>1. m[2] \in {k \in 1..sent[m[1]] : k + PageLimit50 > sent[m[1]]}
        BY <3>1, <3>4
      <4> QED
        BY <3>1, <3>3, <4>1 DEF Latest
    <3>6. ASSUME NEW k \in page'[o] PROVE m[2] < k[2]
      <4>1. PICK n \in 1..sent[m[1]] : k = <<m[1], n>> /\ n + PageLimit50 > sent[m[1]]
        BY <3>3 DEF Latest
      <4> QED
        BY <3>1, <3>4, <3>5, <4>1
    <3> QED
      BY <3>6
  <2>2. CASE o # opens
    <3>1. opens \in Opens => page'[opens] = page[opens] /\ opening'[opens] = opening[opens]
      BY <1>1, <2>2
    <3> QED
      BY <3>1 DEF NothingUnexplained, ListRead, OlderThanPage, Traced
  <2> QED
    BY <2>1, <2>2
<1> QED
  BY <1>4, <1>5

\* The answer of a call empties the screen, on record, and renders the page;
\* that of the last call renders all that the page has of the conversation.
LEMMA ShowPageStep ==
  ASSUME ViewInv, NEW o \in Opens, ShowPage(o)
  PROVE  ViewInv'
<1> USE DEF ViewInv, ShowPage, serverVars, socketVars
<1>1. opening \in [Opens -> {"none", "list", "answered", "done"}]
  BY DEF LastCall
<1>2. /\ \A q \in Opens : q # o => opening'[q] = opening[q]
      /\ opening'[o] = "done"
  BY <1>1
<1>3. LastCall'
  BY <1>1, <1>2 DEF LastCall
<1>4. RoomAsked' /\ ViewOfOneConversation'
  BY DEF RoomAsked, ViewOfOneConversation, Rendered
<1>5. Traced \subseteq Traced'
  BY DEF Traced
<1>6. NothingUnexplained'
  <2>1. CASE o = opens
    <3>1. \A m \in page[o] : m[1] \in current => m \in Traced'
      BY DEF Traced, Rendered
    <3>2. UNCHANGED <<sent, current, opens, page>> /\ opening[opens] = "answered"
      BY <2>1
    <3>3. NothingUnexplained /\ ListRead
      BY <2>1, <3>2 DEF ListRead
    <3> HIDE DEF ViewInv, ShowPage
    <3>4. \A m \in AllMessages : m[1] \in current /\ m[2] <= sent[m[1]] =>
            m \in Traced' \/ OlderThanPage(m)
      <4>1. \A m \in AllMessages : m[1] \in current /\ m[2] <= sent[m[1]] =>
              m \in Traced \/ OlderThanPage(m) \/ m \in page[opens]
        BY <3>3 DEF NothingUnexplained
      <4> QED
        BY <1>5, <2>1, <3>1, <4>1
    <3> QED
      BY <3>2, <3>4 DEF NothingUnexplained, OlderThanPage
  <2>2. CASE o # opens
    BY <1>2, <1>5, <2>2 DEF NothingUnexplained, ListRead, OlderThanPage
  <2> QED
    BY <2>1, <2>2
<1> QED
  BY <1>3, <1>4, <1>6

\* A call that fails renders nothing.
LEMMA OpenFailsStep ==
  ASSUME ViewInv, NEW o \in Opens, OpenFails(o)
  PROVE  ViewInv'
<1> USE DEF ViewInv, OpenFails, serverVars, socketVars, screenVars, clientGhost
<1>1. opening \in [Opens -> {"none", "list", "answered", "done"}]
  BY DEF LastCall
<1>2. /\ \A q \in Opens : q # o => opening'[q] = opening[q]
      /\ opening[o] = "list" /\ opening'[o] = "done"
  BY <1>1
<1>3. LastCall'
  BY <1>1, <1>2 DEF LastCall
<1>4. RoomAsked' /\ ViewOfOneConversation'
  BY DEF RoomAsked, ViewOfOneConversation
<1>5. NothingUnexplained'
  BY <1>2 DEF LastCall, NothingUnexplained, ListRead, OlderThanPage, Traced
<1> QED
  BY <1>3, <1>4, <1>5

\* A new call: its list is still to be read, and its room to be joined.
LEMMA OpenConversationStep ==
  ASSUME ViewInv, NEW c \in Convs, OpenConversation(c)
  PROVE  ViewInv'
<1> USE DEF ViewInv, OpenConversation, serverVars, clientGhost
<1>1. opens' \in Opens /\ opens' = opens + 1
  BY ClientViewAssumption DEF LastCall, Opens
<1>2. /\ opening \in [Opens -> {"none", "list", "answered", "done"}]
      /\ opened \in [Opens -> SUBSET Convs]
  BY DEF LastCall
<1>3. /\ opening' \in [Opens -> {"none", "list", "answered", "done"}]
      /\ opened' \in [Opens -> SUBSET Convs]
      /\ opening'[opens'] = "list" /\ opened'[opens'] = current'
  BY <1>1, <1>2
<1>4. LastCall'
  BY <1>1, <1>3 DEF LastCall
<1>5. RoomAsked' /\ ViewOfOneConversation'
  BY DEF RoomAsked, ViewOfOneConversation, JoinRoom
<1>6. NothingUnexplained'
  BY <1>3 DEF NothingUnexplained, ListRead
<1> QED
  BY <1>4, <1>5, <1>6

\* Every step of the server, of the socket and of the client keeps the view.
LEMMA ViewInvStep == ViewInv /\ [ClientViewNext]_clientViewVars => ViewInv'
<1> SUFFICES ASSUME ViewInv, [ClientViewNext]_clientViewVars PROVE ViewInv'
  OBVIOUS
<1>1. ASSUME NEW m \in toEmit, EmitToRoom(m) PROVE ViewInv'
  <2>1. RoomAsked' /\ UNCHANGED <<sent, openVars, rendered>> /\ screen' = screen
    BY <1>1 DEF EmitToRoom, ViewInv, RoomAsked, openVars, screenVars
  <2>2. \A k \in Traced : k[1] \in current => k \in Traced'
    BY <1>1 DEF EmitToRoom, ViewInv, RoomAsked, Traced, screenVars
  <2> QED
    BY <2>1, <2>2, RecordKept
<1>2. ASSUME NEW c \in Convs, Join(c) \/ RefuseJoin(c) PROVE ViewInv'
  <2>1. RoomAsked' /\ UNCHANGED <<sent, openVars, rendered>> /\ screen' = screen
    BY <1>2 DEF Join, RefuseJoin, ViewInv, RoomAsked, serverVars, openVars, screenVars
  <2>2. Traced' = Traced
    BY <1>2 DEF Join, RefuseJoin, Traced, serverVars, screenVars, clientGhost
  <2> QED
    BY <2>1, <2>2, RecordKept
<1>3. CASE Disconnect \/ Reconnect
  <2>1. RoomAsked' /\ UNCHANGED <<sent, openVars, rendered>> /\ screen' = screen
    BY <1>3 DEF Disconnect, Reconnect, ViewInv, RoomAsked, serverVars, openVars, screenVars
  <2>2. Traced \subseteq Traced'
    BY <1>3 DEF Disconnect, Reconnect, Traced, serverVars, screenVars, clientGhost
  <2> QED
    BY <2>1, <2>2, RecordKept
<1>4. ASSUME NEW m \in inbox, ReceiveLive(m) PROVE ViewInv'
  <2>1. RoomAsked' /\ UNCHANGED <<sent, openVars, rendered>>
    BY <1>4 DEF ReceiveLive, ViewInv, RoomAsked, serverVars, openVars
  <2>2. \A k \in Traced : k[1] \in current => k \in Traced'
    BY <1>4 DEF ReceiveLive, Rendered, Traced, serverVars, clientGhost
  <2>3. \A k \in screen' \ screen : k[1] \in current
    BY <1>4 DEF ReceiveLive, Rendered
  <2> QED
    BY <2>1, <2>2, <2>3, RecordKept
<1>5. CASE UNCHANGED clientViewVars
  <2>1. RoomAsked' /\ UNCHANGED <<sent, openVars, rendered>> /\ screen' = screen /\ Traced' = Traced
    BY <1>5 DEF clientViewVars, serverVars, socketVars, openVars, screenVars, clientGhost,
                ViewInv, RoomAsked, Traced
  <2> QED
    BY <2>1, RecordKept
<1> QED
  BY <1>1, <1>2, <1>3, <1>4, <1>5, SendToStep, OpenConversationStep, ListLatestStep,
     ShowPageStep, OpenFailsStep DEF ClientViewNext

\* The view is kept in every run.
LEMMA ViewInvHolds == ClientViewSpec => []ViewInv
BY ViewInvInit, ViewInvStep, PTL DEF ClientViewSpec

\* However the answers of openConversation and the live messages of app.js
\* overtake each other, the screen shows one conversation, once it is rendered.
THEOREM ScreenShowsOneConversation == ClientViewSpec => []ViewOfOneConversation
<1>1. ViewInv => ViewOfOneConversation
  BY DEF ViewInv
<1> QED
  BY <1>1, ViewInvHolds, PTL

\* What a conversation at rest does not show was missed or wiped off for one of
\* the reasons on record, or is older than its page, for any number of
\* conversations, messages, calls of openConversation and lost connections.
THEOREM MissingIsExplained == ClientViewSpec => []MissingExplained
<1>1. ViewInv => MissingExplained
  <2> SUFFICES ASSUME ViewInv, NEW c \in Convs, current = {c}, rendered,
                      {k \in inbox : k[1] = c} = {},
                      NEW m \in AllMessages, m \notin toEmit \cup screen \cup missed \cup wiped,
                      m[1] = c, m[2] <= sent[c]
               PROVE  \A k \in page[opens] : m[2] < k[2]
    BY DEF MissingExplained
  <2>1. opens \in Opens /\ opening[opens] = "done"
    BY DEF ViewInv, LastCall
  <2>2. m \notin Traced
    BY DEF Traced
  <2> QED
    BY <2>1, <2>2 DEF ViewInv, NothingUnexplained, ListRead, OlderThanPage
<1> QED
  BY <1>1, ViewInvHolds, PTL


\* What has been committed, in all conversations together.
Committed == {m \in AllMessages : m[2] <= sent[m[1]]}

\* The types, what a page holds while its answer is on the way, and the reason
\* for which the bound on all messages bounds those of each conversation: there
\* is a finite number of them.
ViewTypes ==
  /\ ClientViewTypeOK
  /\ \A o \in Opens : page[o] \subseteq Committed
  /\ IsFiniteSet(Committed)

\* The bound on all messages bounds each conversation.
LEMMA RoomForOneMore ==
  ASSUME ViewTypes, NEW c \in Convs, SendTo(c)
  PROVE  sent[c] + 1 \in 1..MaxSent
<1>1. sent[c] \in 0..MaxSent /\ MaxSent \in Nat
  BY ClientViewAssumption DEF ViewTypes, ClientViewTypeOK
<1>2. SUFFICES ASSUME sent[c] = MaxSent PROVE FALSE
  BY <1>1
<1> DEFINE Own == {<<c, n>> : n \in 1..MaxSent}
           Number == [n \in 1..MaxSent |-> <<c, n>>]
<1>3. Number \in Bijection(1..MaxSent, Own)
  BY DEF Bijection, Injection, Surjection, IsInjective
<1>4. IsFiniteSet(Own) /\ Cardinality(Own) = MaxSent
  BY <1>1, <1>3, FS_NatBijection, FS_CountingElements DEF ExistsBijection
<1>5. Own \subseteq Committed
  BY <1>1, <1>2 DEF Committed, AllMessages
<1>6. Cardinality(Own) <= Cardinality(Committed) /\ Cardinality(Committed) \in Nat
  BY <1>5, FS_Subset, FS_CardinalityType DEF ViewTypes
<1>7. Cardinality(Committed) < MaxSent
  BY DEF SendTo, Committed
<1> QED
  BY <1>1, <1>4, <1>6, <1>7

\* A commit adds its message to those committed.
LEMMA SendToTypes ==
  ASSUME ViewTypes, NEW c \in Convs, SendTo(c)
  PROVE  ViewTypes'
<1> USE DEF SendTo, socketVars, openVars, screenVars, clientGhost
<1>1. sent[c] + 1 \in 1..MaxSent /\ sent \in [Convs -> 0..MaxSent] /\ MaxSent \in Nat
  BY RoomForOneMore, ClientViewAssumption DEF ViewTypes, ClientViewTypeOK
<1>2. sent' \in [Convs -> 0..MaxSent] /\ \A d \in Convs : sent[d] <= sent'[d]
  BY <1>1
<1>3. <<c, sent[c] + 1>> \in Committed'
  BY <1>1 DEF Committed, AllMessages
<1>4. Committed \subseteq Committed' /\ Committed' \subseteq Committed \cup {<<c, sent[c] + 1>>}
  <2>1. ASSUME NEW d \in Convs, NEW n \in 1..MaxSent
        PROVE  /\ n <= sent[d] => n <= sent'[d]
               /\ n <= sent'[d] => n <= sent[d] \/ (d = c /\ n = sent[c] + 1)
    BY <1>1, <1>2
  <2> QED
    BY <2>1 DEF Committed, AllMessages
<1>5. IsFiniteSet(Committed')
  BY <1>3, <1>4, FS_AddElement, FS_Subset DEF ViewTypes
<1>6. toEmit' \cup inbox' \cup screen' \cup missed' \cup wiped' \subseteq Committed'
  BY <1>3, <1>4 DEF ViewTypes, ClientViewTypeOK, Committed
<1> HIDE DEF SendTo
<1>7. UNCHANGED <<connected, rooms, joins, current, opens, opening, opened, page, rendered,
                  barred, cuts>>
  BY DEF SendTo
<1> QED
  BY <1>2, <1>4, <1>5, <1>6, <1>7 DEF ViewTypes, ClientViewTypeOK, Committed

\* A page is of messages that have been committed.
LEMMA PagesAreCommitted ==
  ASSUME ClientViewTypeOK, NEW o \in Opens
  PROVE  UNION {Latest(c) : c \in opened[o]} \subseteq Committed
<1>1. ASSUME NEW c \in Convs, NEW n \in 1..sent[c] PROVE <<c, n>> \in Committed
  <2>1. sent[c] \in 0..MaxSent /\ MaxSent \in Nat
    BY ClientViewAssumption DEF ClientViewTypeOK
  <2>2. n \in 1..MaxSent /\ n <= sent[c]
    BY <2>1
  <2> QED
    BY <2>2 DEF Committed, AllMessages
<1>2. opened[o] \subseteq Convs
  BY DEF ClientViewTypeOK
<1> QED
  BY <1>1, <1>2 DEF Latest

\* The other steps commit nothing.
LEMMA ViewTypesStep == ViewTypes /\ [ClientViewNext]_clientViewVars => ViewTypes'
<1> SUFFICES ASSUME ViewTypes, [ClientViewNext]_clientViewVars PROVE ViewTypes'
  OBVIOUS
<1>c. ASSUME UNCHANGED sent, ClientViewTypeOK',
             \A o \in Opens : page'[o] \subseteq Committed \cup page[o]
      PROVE  ViewTypes'
  BY <1>c DEF ViewTypes, Committed
<1> USE DEF serverVars, socketVars, openVars, screenVars, clientGhost
<1>1. ASSUME NEW m \in toEmit, EmitToRoom(m) PROVE ViewTypes'
  BY <1>1, <1>c DEF EmitToRoom, ViewTypes, ClientViewTypeOK
<1>2. ASSUME NEW m \in inbox, ReceiveLive(m) PROVE ViewTypes'
  BY <1>2, <1>c DEF ReceiveLive, Rendered, ViewTypes, ClientViewTypeOK
<1>3. ASSUME NEW c \in Convs, Join(c) PROVE ViewTypes'
  BY <1>3, <1>c DEF Join, ViewTypes, ClientViewTypeOK
<1>4. ASSUME NEW c \in Convs, RefuseJoin(c) PROVE ViewTypes'
  BY <1>4, <1>c, ClientViewAssumption DEF RefuseJoin, ViewTypes, ClientViewTypeOK
<1>5. CASE Disconnect
  <2>1. cuts' \in 0..MaxCuts
    BY <1>5, ClientViewAssumption DEF Disconnect, ViewTypes, ClientViewTypeOK
  <2>2. ClientViewTypeOK'
    BY <1>5, <2>1 DEF Disconnect, ViewTypes, ClientViewTypeOK
  <2> QED
    BY <1>5, <1>c, <2>2 DEF Disconnect
<1>6. CASE Reconnect
  BY <1>6, <1>c DEF Reconnect, ViewTypes, ClientViewTypeOK
<1>7. ASSUME NEW c \in Convs, OpenConversation(c) PROVE ViewTypes'
  <2>1. opens' \in 0..MaxOpens /\ opens' \in Opens
    BY <1>7, ClientViewAssumption DEF OpenConversation, ViewTypes, ClientViewTypeOK, Opens
  <2>2. current' \in SUBSET Convs /\ Cardinality(current') <= 1
    <3>1. Cardinality({c}) = 1
      BY FS_Singleton
    <3>2. current' = {c}
      BY <1>7 DEF OpenConversation
    <3> QED
      BY <3>1, <3>2
  <2>3. /\ opening' \in [Opens -> {"none", "list", "answered", "done"}]
        /\ opened' \in [Opens -> SUBSET Convs]
    BY <1>7, <2>1 DEF OpenConversation, ViewTypes, ClientViewTypeOK
  <2> QED
    BY <1>7, <1>c, <2>1, <2>2, <2>3 DEF OpenConversation, JoinRoom, ViewTypes, ClientViewTypeOK
<1>8. ASSUME NEW o \in Opens, ListLatest(o) PROVE ViewTypes'
  <2>1. UNION {Latest(c) : c \in opened[o]} \subseteq AllMessages
    BY PagesAreCommitted DEF ViewTypes, Committed
  <2>2. page' \in [Opens -> SUBSET AllMessages]
    BY <1>8, <2>1 DEF ListLatest, ViewTypes, ClientViewTypeOK
  <2>3. ClientViewTypeOK'
    BY <1>8, <2>2 DEF ListLatest, ViewTypes, ClientViewTypeOK
  <2>4. \A q \in Opens : page'[q] \subseteq Committed \cup page[q]
    BY <1>8, PagesAreCommitted DEF ListLatest, ViewTypes, ClientViewTypeOK
  <2> QED
    BY <1>8, <1>c, <2>3, <2>4 DEF ListLatest
<1>9. ASSUME NEW o \in Opens, ShowPage(o) PROVE ViewTypes'
  <2>1. screen' \subseteq Committed /\ wiped' \subseteq Committed
    BY <1>9 DEF ShowPage, Rendered, ViewTypes, ClientViewTypeOK, Committed
  <2>2. opening' \in [Opens -> {"none", "list", "answered", "done"}] /\ rendered' \in BOOLEAN
    BY <1>9 DEF ShowPage, ViewTypes, ClientViewTypeOK
  <2>3. UNCHANGED <<sent, toEmit, connected, rooms, joins, inbox, current, opens, opened, page,
                    barred, cuts, missed>>
    BY <1>9 DEF ShowPage
  <2>4. ClientViewTypeOK'
    BY <2>1, <2>2, <2>3 DEF ViewTypes, ClientViewTypeOK, Committed
  <2> QED
    BY <1>c, <2>3, <2>4
<1>10. ASSUME NEW o \in Opens, OpenFails(o) PROVE ViewTypes'
  BY <1>10, <1>c, ClientViewAssumption DEF OpenFails, ViewTypes, ClientViewTypeOK
<1>11. CASE UNCHANGED clientViewVars
  BY <1>11, <1>c DEF clientViewVars, ViewTypes, ClientViewTypeOK
<1> QED
  BY <1>1, <1>2, <1>3, <1>4, <1>5, <1>6, <1>7, <1>8, <1>9, <1>10, <1>11, SendToTypes
  DEF ClientViewNext

\* Whatever the client shows, misses or wipes off has been committed by the
\* server, it is in rooms only while it is connected, and barred from none it
\* is in, for any number of conversations, calls and lost connections.
THEOREM ViewTypesAreCorrect == ClientViewSpec => []ClientViewTypeOK
<1>1. ClientViewInit => ViewTypes
  <2> SUFFICES ASSUME ClientViewInit PROVE ViewTypes
    OBVIOUS
  <2>1. Committed = {}
    BY DEF ClientViewInit, Committed, AllMessages
  <2>2. sent \in [Convs -> 0..MaxSent] /\ opens \in 0..MaxOpens /\ cuts \in 0..MaxCuts
    BY ClientViewAssumption DEF ClientViewInit
  <2>3. current = {} /\ Cardinality({}) = 0
    BY FS_EmptySet DEF ClientViewInit
  <2>4. Cardinality(current) <= 1
    BY <2>3
  <2>5. ClientViewTypeOK
    BY <2>2, <2>3, <2>4 DEF ClientViewInit, ClientViewTypeOK
  <2> QED
    BY <2>1, <2>5, FS_EmptySet DEF ClientViewInit, ViewTypes
<1>2. ViewTypes => ClientViewTypeOK
  BY DEF ViewTypes
<1> QED
  BY <1>1, <1>2, ViewTypesStep, PTL DEF ClientViewSpec
=============================================================================
