----------------------------- MODULE SyncProto -----------------------------
(***************************************************************************)
(* The wire contract of crate sync-proto: the records a team shares and    *)
(* the last-write-wins rule that both ends of the wire apply to them.      *)
(*                                                                         *)
(* A record is a snippet or a group.  Of its content the model keeps only  *)
(* what the protocol looks at: the stamp (updated_at, version), the        *)
(* tombstone, whether the record belongs to the team or is personal, the   *)
(* folder a snippet lies in, its kind, and one opaque value for the body.  *)
(***************************************************************************)
EXTENDS Integers

CONSTANTS
  Devices,    \* the clients; each is signed in as one identity
  Snippets,   \* ids of the snippets that are ever created
  Groups,     \* ids of the groups (folders) that are ever created
  NoGroup,    \* the NULL of a snippet's group_id
  Texts,      \* contents a record can have
  NoText      \* the content of a row that does not exist

ASSUME DisjointIds == Snippets \cap Groups = {} /\ NoGroup \notin Groups

Records == Snippets \cup Groups

(***************************************************************************)
(* "exec" is a text snippet that carries a shell or script variable.       *)
(***************************************************************************)
SnippetKinds == {"text", "command", "exec"}
Kinds == SnippetKinds \cup {"group", "none"}

Row == [ts   : Nat,                      \* updated_at, in clock ticks
        ver  : Nat,                      \* version: the per-record edit counter
        del  : BOOLEAN,                  \* deleted_at IS NOT NULL
        team : BOOLEAN,                  \* team = the modelled team (FALSE: personal)
        grp  : Groups \cup {NoGroup},    \* group_id
        kind : Kinds,
        text : Texts \cup {NoText}]

(***************************************************************************)
(* The absent row.  Every stamp the program makes has ver >= 1, so an      *)
(* absent row loses to every real one, which is what the code's            *)
(* "None => true" arms say.                                                *)
(***************************************************************************)
NoRow == [ts |-> 0, ver |-> 0, del |-> FALSE, team |-> FALSE,
          grp |-> NoGroup, kind |-> "none", text |-> NoText]

Present(r) == r.ver > 0

(***************************************************************************)
(* lww_wins(a, b): a beats b.  Exact ties do not win.                      *)
(***************************************************************************)
Newer(a, b) == \/ a.ts > b.ts
               \/ a.ts = b.ts /\ a.ver > b.ver

SameStamp(a, b) == a.ts = b.ts /\ a.ver = b.ver

(***************************************************************************)
(* engine.rs `syncable` and the server's 422: commands and executable      *)
(* variables never travel.                                                 *)
(***************************************************************************)
Syncable(r) == r.kind \notin {"command", "exec"}
=============================================================================
