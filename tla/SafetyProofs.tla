---------------------------- MODULE SafetyProofs ----------------------------
(***************************************************************************)
(* The sum MCSafety that TLC explores behaves in each of its components as *)
(* that component does alone: what is proved of one of them, for any       *)
(* values of its constants, holds of the sum that the run instantiates.    *)
(***************************************************************************)
EXTENDS MCSafety, KeyPackagesProofs, MlsGroupsProofs, SessionsProofs, TwoCopiesProofs, TLAPS

\* One component moves, the others rest.
LEMMA SafetyParts ==
  Spec => /\ KeyPackagesSpec /\ MlsGroupsSpec /\ SessionsSpec /\ SearchSpec
          /\ AttachmentsSpec /\ ClientViewSpec /\ ModerationSpec
<1>1. Init => /\ KeyPackagesInit /\ MlsGroupsInit /\ SessionsInit /\ SearchInit
              /\ AttachmentsInit /\ ClientViewInit /\ ModerationInit
  BY DEF Init
<1>2. [Next]_<<component, keyPackagesVars, mlsGroupsVars, sessionsVars, searchVars,
               attachmentsVars, clientViewVars, moderationVars>> =>
        /\ [KeyPackagesNext]_keyPackagesVars /\ [MlsGroupsNext]_mlsGroupsVars
        /\ [SessionsNext]_sessionsVars /\ [SearchNext]_searchVars
        /\ [AttachmentsNext]_attachmentsVars /\ [ClientViewNext]_clientViewVars
        /\ [ModerationNext]_moderationVars
  BY DEF Next
<1> QED
  BY <1>1, <1>2, PTL
  DEF Spec, KeyPackagesSpec, MlsGroupsSpec, SessionsSpec, SearchSpec, AttachmentsSpec,
      ClientViewSpec, ModerationSpec

\* Every variable of the seven components keeps its type, and what the types
\* say of the steps of requests, of documents, files, rooms and reports.
THEOREM SafetyTypesAreCorrect == Spec => []TypeOK
<1>1. KeyPackagesTypeOK /\ MlsGroupsTypeOK /\ SessionsTypeOK /\ SearchTypeOK
        /\ AttachmentsTypeOK /\ ClientViewTypeOK /\ ModerationTypeOK => TypeOK
  BY DEF TypeOK
<1> QED
  BY <1>1, SafetyParts, KeyPackageTypesAreCorrect, MlsTypesAreCorrect,
     SessionTypesAreCorrect, SearchTypesAreCorrect, AttachmentTypesAreCorrect,
     ViewTypesAreCorrect, ReportsAreActedOn, PTL

\* And what each of them keeps alone it keeps in the sum.
THEOREM SafetyIsKept ==
  Spec => [](/\ HandedOnce /\ SequencedUnderLock /\ GroupIsWhole /\ PickupComplete
             /\ ParentIsRevoked /\ SurvivorsExplained /\ IndexComplete /\ RowAndObjectAgree
             /\ ViewOfOneConversation /\ MissingExplained /\ ActionedIsHidden)
          /\ NoSessionAfterErasure
BY SafetyParts, PackagesAreHandedOnce, MessagesAreSequenced, GroupsAreWhole,
   PickupsAreComplete, ParentsAreRevoked, SurvivorsAreExplained, IndexIsComplete,
   FilesAgree, ScreenShowsOneConversation, MissingIsExplained, ReportsAreActedOn,
   NothingAfterErasure, PTL
=============================================================================
