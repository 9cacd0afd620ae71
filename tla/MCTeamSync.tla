----------------------------- MODULE MCTeamSync -----------------------------
(***************************************************************************)
(* Small instances of TeamSync for TLC.                                    *)
(***************************************************************************)
EXTENDS TeamSync, TLC

CONSTANTS d1, d2

\* Clocks that never show two devices the same instant; d1 may lag d2 or lead it.
Three == (d1 :> {1, 3}) @@ (d2 :> {2})
Short == (d1 :> {1, 4}) @@ (d2 :> {2, 3})

\* d1 edits until its version is far ahead of the one d2 will overtake it with: what a torn
\* call takes to lose an edit (README, TornCall).  No run uses it.
Behind == (d1 :> {1, 2, 3, 6}) @@ (d2 :> {5})

\* Every device is signed in as an identity of its own.
OwnIdentity == [d \in Devices |-> d]
=============================================================================
