------------------------------ MODULE MCOutbox ------------------------------
(***************************************************************************)
(* Model values for the runs of Outbox.                                    *)
(***************************************************************************)
EXTENDS Outbox, TLC

\* Workers are interchangeable: no definition of Outbox tells them apart.
MCSymmetry == Permutations(Workers)


=============================================================================
