------------------------------ MODULE MCSafety ------------------------------
(***************************************************************************)
(* One instance of each of KeyPackages, MlsGroups, Sessions, Search,       *)
(* Attachments, ClientView and Moderation for TLC.  They share no          *)
(* variable, so that exploring them together would only multiply their     *)
(* states: a behaviour is one of one of them, chosen at the start, while   *)
(* the others rest in their initial states.                                *)
(***************************************************************************)
EXTENDS KeyPackages, MlsGroups, Sessions, Search, Attachments, ClientView,
        Moderation

VARIABLE component  \* the one that moves

Components ==
  {"KeyPackages", "MlsGroups", "Sessions", "Search", "Attachments", "ClientView",
   "Moderation"}

Init ==
  /\ component \in Components
  /\ KeyPackagesInit /\ MlsGroupsInit /\ SessionsInit
  /\ SearchInit /\ AttachmentsInit /\ ClientViewInit /\ ModerationInit
  /\ component # "Search" => mapping = "declared"
  /\ component # "Attachments" => ~clamav

Moves(c) == component = c /\ UNCHANGED component

Next ==
  \/ /\ Moves("KeyPackages") /\ KeyPackagesNext
     /\ UNCHANGED <<mlsGroupsVars, sessionsVars, searchVars,
                    attachmentsVars, clientViewVars, moderationVars>>
  \/ /\ Moves("MlsGroups") /\ MlsGroupsNext
     /\ UNCHANGED <<keyPackagesVars, sessionsVars, searchVars,
                    attachmentsVars, clientViewVars, moderationVars>>
  \/ /\ Moves("Sessions") /\ SessionsNext
     /\ UNCHANGED <<keyPackagesVars, mlsGroupsVars, searchVars,
                    attachmentsVars, clientViewVars, moderationVars>>
  \/ /\ Moves("Search") /\ SearchNext
     /\ UNCHANGED <<keyPackagesVars, mlsGroupsVars, sessionsVars,
                    attachmentsVars, clientViewVars, moderationVars>>
  \/ /\ Moves("Attachments") /\ AttachmentsNext
     /\ UNCHANGED <<keyPackagesVars, mlsGroupsVars, sessionsVars,
                    searchVars, clientViewVars, moderationVars>>
  \/ /\ Moves("ClientView") /\ ClientViewNext
     /\ UNCHANGED <<keyPackagesVars, mlsGroupsVars, sessionsVars,
                    searchVars, attachmentsVars, moderationVars>>
  \/ /\ Moves("Moderation") /\ ModerationNext
     /\ UNCHANGED <<keyPackagesVars, mlsGroupsVars, sessionsVars,
                    searchVars, attachmentsVars, clientViewVars>>

Spec == Init /\ [][Next]_<<component, keyPackagesVars, mlsGroupsVars, sessionsVars,
                           searchVars, attachmentsVars, clientViewVars,
                           moderationVars>>

\* Every variable of the seven components keeps its type, and what belongs
\* together in it stays together: the step a request has reached and what it
\* holds, a document and its message, the rooms of a socket and its connection.
TypeOK ==
  /\ KeyPackagesTypeOK /\ MlsGroupsTypeOK /\ SessionsTypeOK
  /\ SearchTypeOK /\ AttachmentsTypeOK /\ ClientViewTypeOK
  /\ ModerationTypeOK
=============================================================================
