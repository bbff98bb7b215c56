----------------------------- MODULE MCMessaging -----------------------------
(***************************************************************************)
(* Instances of Messaging for TLC.                                         *)
(***************************************************************************)
EXTENDS Messaging, TLC

\* Slots for requests are interchangeable, and so are the customer and the
\* seller where no constant tells them apart.
SlotSymmetry == Permutations(Requests)
MCSymmetry == Permutations(Requests) \cup Permutations(Users)
=============================================================================
