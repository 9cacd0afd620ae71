---------------------------- MODULE MCFormBridge ----------------------------
(***************************************************************************)
(* FormBridge for TLC; the .cfg files give the bounds.                     *)
(***************************************************************************)
EXTENDS FormBridge
=============================================================================
