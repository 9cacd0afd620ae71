--------------------------- MODULE MCClipHistory ---------------------------
(* Small instances of ClipHistory; every constant is given in the .cfg files. *)
EXTENDS ClipHistory

=============================================================================
