----------------------------- MODULE SyncServer -----------------------------
(***************************************************************************)
(* The sync server with its SQLite storage, for one team: the handlers of  *)
(* GET and POST /v1/teams/{team}/changes.  Each is one step here.  The      *)
(* push handler takes the connection lock twice, for the stored owners and *)
(* then for merge in one transaction; joining the two is an abstraction.   *)
(* A stored owner stays, and a record that is not stored yet is known to   *)
(* one device only, so the decision cannot go stale in between.            *)
(* The caller's role, read at the handler's start, is a constant here.     *)
(***************************************************************************)
EXTENDS SyncProto, FiniteSets

CONSTANTS
  Users,      \* subs
  NoUser,     \* owner of a record that does not exist
  UserOf,     \* [Devices -> Users]
  Managers,   \* subs whose role is manager or above
  PageSize    \* records of a changes page (limits::DEFAULT_PAGE)

ASSUME ServerConstants ==
  /\ UserOf \in [Devices -> Users]
  /\ NoUser \notin Users
  /\ Managers \subseteq Users
  /\ PageSize \in Nat \ {0}
  /\ IsFiniteSet(Records)

VARIABLES
  rec,    \* the stored record of each id (table records)
  seqOf,  \* its sequence number, 0 if there is none
  seq,    \* the team's counter (table counters)
  owner   \* the stored owner of each id: who first pushed it

serverVars == <<rec, seqOf, seq, owner>>

ServerTypeOK ==
  /\ rec \in [Records -> Row]
  /\ seqOf \in [Records -> Nat]
  /\ seq \in Nat
  /\ owner \in [Records -> Users \cup {NoUser}]

ServerInit ==
  /\ rec = [i \in Records |-> NoRow]
  /\ seqOf = [i \in Records |-> 0]
  /\ seq = 0
  /\ owner = [i \in Records |-> NoUser]

(***************************************************************************)
(* GET changes: the records with since < seq <= next, the oldest PageSize  *)
(* of them.  IsPage(since, next, more) says that (next, more) is what the  *)
(* query returns; PageRows are the records it carries.                     *)
(***************************************************************************)
After(since) == {i \in Records : seqOf[i] > since}

IsPage(since, next, more) ==
  LET shown == {i \in After(since) : seqOf[i] <= next}
  IN  /\ Cardinality(shown) <= PageSize
      /\ more = (shown # After(since))
      /\ more => Cardinality(shown) = PageSize
      /\ \/ shown = {} /\ next = since
         \/ \E i \in shown : seqOf[i] = next

PageRows(since, next) ==
  [i \in Records |-> IF since < seqOf[i] /\ seqOf[i] <= next THEN rec[i] ELSE NoRow]

(***************************************************************************)
(* POST changes.  A batch maps every id to the row pushed for it, or to    *)
(* NoRow.  A snippet of somebody else is refused to all but managers, and  *)
(* the refusal is reported as "superseded"; of the rest, those newer than  *)
(* the stored record are accepted and numbered, groups before snippets and *)
(* otherwise in the batch's order (oldest edit first).                     *)
(***************************************************************************)
Refused(u, b) ==
  {i \in Snippets : Present(b[i]) /\ Present(rec[i]) /\ owner[i] # u /\ u \notin Managers}

Accepted(u, b) ==
  {i \in Records \ Refused(u, b) : Present(b[i]) /\ Newer(b[i], rec[i])}

MergedBefore(b, i, j) ==
  \/ i \in Groups /\ j \in Snippets
  \/ (i \in Groups <=> j \in Groups) /\ b[i].ts < b[j].ts

\* Mutant: a record that is replaced keeps its number.
MergeKeepsNumber(u, b) ==
  LET new == {i \in Accepted(u, b) : seqOf[i] = 0}
  IN  /\ seq' = seq + Cardinality(new)
      /\ \E s \in [new -> (seq + 1)..seq'] :
           /\ \A i, j \in new : i # j => s[i] # s[j]
           /\ seqOf' = [i \in Records |-> IF i \in new THEN s[i] ELSE seqOf[i]]
      /\ rec' = [i \in Records |-> IF i \in Accepted(u, b) THEN b[i] ELSE rec[i]]
      /\ owner' = [i \in Records |-> IF i \in new THEN u ELSE owner[i]]

Merge(u, b) ==
  /\ seq' = seq + Cardinality(Accepted(u, b))
  /\ \E s \in [Accepted(u, b) -> (seq + 1)..seq'] :
       /\ \A i, j \in Accepted(u, b) : /\ i # j => s[i] # s[j]
                                       /\ MergedBefore(b, i, j) => s[i] < s[j]
       /\ seqOf' = [i \in Records |-> IF i \in Accepted(u, b) THEN s[i] ELSE seqOf[i]]
  /\ rec' = [i \in Records |-> IF i \in Accepted(u, b) THEN b[i] ELSE rec[i]]
  /\ owner' = [i \in Records |-> IF i \in Accepted(u, b) /\ owner[i] = NoUser
                                 THEN u ELSE owner[i]]

(***************************************************************************)
(* The ack: per record "accepted", or "superseded" with the server's copy. *)
(***************************************************************************)

Outcome(u, b) ==
  [i \in Records |-> IF ~Present(b[i]) THEN "none"
                     ELSE IF i \in Accepted(u, b) THEN "accepted" ELSE "superseded"]
=============================================================================
