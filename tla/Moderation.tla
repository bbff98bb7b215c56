----------------------------- MODULE Moderation -----------------------------
(***************************************************************************)
(* ModerationService: the reports about one message and their resolution   *)
(* by moderators, which reads the report, saves it and then hides the      *)
(* message, in no transaction.  What a report says is data nothing reads.  *)
(***************************************************************************)
CONSTANTS
  Reports,     \* reports about the message
  Moderators   \* slots for calls of resolve in flight

VARIABLES
  status,     \* messages.status: sent, hidden, deleted
  report,     \* report[r]: none, open, dismissed, actioned
  resolving,  \* resolving[q]: idle, found (report read), saved (report written)
  about,      \* about[q]: the report it resolves, {} if idle
  verdict,    \* verdict[q]: its action
  cutShort    \* reports actioned by a call that never hid the message

resolveVars == <<resolving, about, verdict>>
moderationVars == <<status, report, resolveVars, cutShort>>

Verdicts == {"dismiss", "hide_message"}

ModerationInit ==
  /\ status = "sent"
  /\ report = [r \in Reports |-> "none"]
  /\ resolving = [q \in Moderators |-> "idle"]
  /\ about = [q \in Moderators |-> {}]
  /\ verdict = [q \in Moderators |-> "dismiss"]
  /\ cutShort = {}

\* report: the message is there, deleted or hidden as it may be.
Report(r) ==
  /\ report[r] = "none"
  /\ report' = [report EXCEPT ![r] = "open"]
  /\ UNCHANGED <<status, resolveVars, cutShort>>

\* softDelete saves its entity, whatever the status has become.
DeleteReported ==
  /\ status # "deleted"
  /\ status' = "deleted"
  /\ UNCHANGED <<report, resolveVars, cutShort>>

-----------------------------------------------------------------------------
(* resolve *)

\* The report is read, open or not: nothing keeps a moderator from resolving
\* what another one has resolved, or is about to.
ResolveFinds(q, r, v) ==
  /\ resolving[q] = "idle" /\ report[r] # "none"
  /\ resolving' = [resolving EXCEPT ![q] = "found"]
  /\ about' = [about EXCEPT ![q] = {r}]
  /\ verdict' = [verdict EXCEPT ![q] = v]
  /\ UNCHANGED <<status, report, cutShort>>

\* Mutant: the status no longer depends on the action.
OutcomeActioned(q) == "actioned"

\* input.action === 'dismiss' ? 'dismissed' : 'actioned'
Outcome(q) == IF verdict[q] = "dismiss" THEN "dismissed" ELSE "actioned"

\* The save: by id, over whatever another call has saved since.
ResolveSaves(q) ==
  /\ resolving[q] = "found"
  /\ report' = [r \in Reports |-> IF r \in about[q] THEN Outcome(q) ELSE report[r]]
  /\ resolving' = [resolving EXCEPT ![q] = "saved"]
  /\ cutShort' = cutShort \ about[q]
  /\ UNCHANGED <<status, about, verdict>>

\* if (input.action === 'hide_message'): UPDATE messages by id.  The answer.
ResolveHides(q) ==
  /\ resolving[q] = "saved"
  /\ status' = IF verdict[q] = "hide_message" THEN "hidden" ELSE status
  /\ resolving' = [resolving EXCEPT ![q] = "idle"]
  /\ about' = [about EXCEPT ![q] = {}]
  /\ UNCHANGED <<report, verdict, cutShort>>

\* The backend dies, or the UPDATE fails: the report keeps what was saved.
ResolveCutShort(q) ==
  /\ resolving[q] # "idle"
  /\ cutShort' = IF resolving[q] = "saved" THEN cutShort \cup about[q] ELSE cutShort
  /\ resolving' = [resolving EXCEPT ![q] = "idle"]
  /\ about' = [about EXCEPT ![q] = {}]
  /\ UNCHANGED <<status, report, verdict>>

-----------------------------------------------------------------------------

ModerationNext ==
  \/ DeleteReported
  \/ \E r \in Reports : Report(r) \/ \E q \in Moderators, v \in Verdicts : ResolveFinds(q, r, v)
  \/ \E q \in Moderators : ResolveSaves(q) \/ ResolveHides(q) \/ ResolveCutShort(q)

ModerationSpec == ModerationInit /\ [][ModerationNext]_moderationVars

ModerationTypeOK ==
  /\ status \in {"sent", "hidden", "deleted"}
  /\ report \in [Reports -> {"none", "open", "dismissed", "actioned"}]
  /\ resolving \in [Moderators -> {"idle", "found", "saved"}]
  /\ about \in [Moderators -> SUBSET Reports]
  /\ verdict \in [Moderators -> Verdicts]
  /\ \A q \in Moderators : resolving[q] = "idle" <=> about[q] = {}
  /\ \A r \in cutShort : report[r] # "none"

\* resolve, 'hide_message': a report that has left the list of open ones as
\* actioned has its message out of sight, however many moderators resolve it,
\* one way or the other, while its sender deletes it; except that the call
\* whose outcome it carries may still have to hide it, or have died before.
ActionedIsHidden ==
  \A r \in Reports : report[r] = "actioned" =>
    \/ status # "sent"
    \/ r \in cutShort
    \/ \E q \in Moderators :
         r \in about[q] /\ resolving[q] = "saved" /\ verdict[q] = "hide_message"

=============================================================================
