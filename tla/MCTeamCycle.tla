---------------------------- MODULE MCTeamCycle -----------------------------
(***************************************************************************)
(* The instance of TeamCycle that the runs check: a folder with a record   *)
(* of somebody else's and a record of the user's own in the first team,    *)
(* and a record of the user's own in the second.                           *)
(***************************************************************************)
EXTENDS TeamCycle
Owners == [r \in {1, 2, 3} |-> IF r = 3 THEN 2 ELSE 1]
=============================================================================
