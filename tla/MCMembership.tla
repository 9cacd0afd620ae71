---------------------------- MODULE MCMembership ----------------------------
(* Small instances of Membership; every constant is given in the .cfg files. *)
EXTENDS Membership

=============================================================================
