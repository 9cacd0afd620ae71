--------------------------- MODULE MCSyncSession ---------------------------
(* Small instances of SyncSession; every constant is given in the .cfg files. *)
EXTENDS SyncSession

=============================================================================
