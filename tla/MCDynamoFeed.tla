---------------------------- MODULE MCDynamoFeed ----------------------------
(***************************************************************************)
(* Small instances of DynamoFeed for TLC.                                  *)
(***************************************************************************)
EXTENDS DynamoFeed, TLC

CONSTANTS d1, d2

Crossing == (d1 :> {1, 2, 4}) @@ (d2 :> {3})
=============================================================================
