----------------------------- MODULE MCProgress -----------------------------
(***************************************************************************)
(* One instance of each of Conversations, Search, Presence and Delivery    *)
(* for TLC, the components with something that must happen in the end.     *)
(* They share no variable: a behaviour is one of one of them, chosen at    *)
(* the start, while the others rest in their initial states, in which no   *)
(* action is enabled that the fairness is about.                           *)
(***************************************************************************)
EXTENDS Conversations, Search, Presence, Delivery

VARIABLE component  \* the one that moves

Components == {"Conversations", "Search", "Presence", "Delivery"}

Init ==
  /\ component \in Components
  /\ ConversationsInit /\ SearchInit /\ PresenceInit /\ DeliveryInit
  /\ component # "Search" => mapping = "declared"
  /\ component # "Delivery" => dedicated

Moves(c) == component = c /\ UNCHANGED component

Next ==
  \/ /\ Moves("Conversations") /\ ConversationsNext
     /\ UNCHANGED <<searchVars, presenceVars, deliveryVars>>
  \/ /\ Moves("Search") /\ SearchNext
     /\ UNCHANGED <<conversationsVars, presenceVars, deliveryVars>>
  \/ /\ Moves("Presence") /\ PresenceNext
     /\ UNCHANGED <<conversationsVars, searchVars, deliveryVars>>
  \/ /\ Moves("Delivery") /\ DeliveryNext
     /\ UNCHANGED <<conversationsVars, searchVars, presenceVars>>

FairSpec ==
  /\ Init
  /\ [][Next]_<<component, conversationsVars, searchVars, presenceVars, deliveryVars>>
  /\ ConversationsFairness /\ SearchFairness /\ PresenceFairness /\ DeliveryFairness

\* Every variable of the four components keeps its type; every connection of
\* the pool is free or held by one transaction, the set of sockets is there
\* as long as it has members, a queue holds what was delivered to it.
TypeOK ==
  ConversationsTypeOK /\ SearchTypeOK /\ PresenceTypeOK /\ DeliveryTypeOK
=============================================================================
