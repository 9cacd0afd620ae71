---------------------------- MODULE SnippetStore ----------------------------
(***************************************************************************)
(* Crate snippet-store on every device: the SQLite tables snippets,        *)
(* groups, sync_pushed and sync_cursors, the edits of the device's user,   *)
(* and the operations the sync engine applies.  The store's connection     *)
(* mutex makes each statement group atomic; `update` takes it twice, once  *)
(* to read the row and once to write it, and is two steps here.            *)
(***************************************************************************)
EXTENDS SyncProto

CONSTANTS
  Stamps,     \* [Devices -> SUBSET Nat]: the instants each device's clock shows to an edit
  KindsUsed,  \* the snippet kinds users write
  TeamAsked   \* the `team` argument of create and update: given, absent, or either

ASSUME StoreConstants ==
  /\ Stamps \in [Devices -> SUBSET (Nat \ {0})]
  /\ KindsUsed \subseteq SnippetKinds
  /\ TeamAsked \subseteq BOOLEAN

VARIABLES
  row,      \* row[d][i]: the row of record i on device d, NoRow if absent
  pushed,   \* pushed[d][i]: sync_pushed.version, 0 if there is none
  cursor,   \* cursor[d]: sync_cursors.cursor for the team
  clock,    \* clock[d]: the updated_at of the device's latest edit
  saving    \* saving[d][i]: the version an `update` of snippet i has read, 0 if none runs

storeVars == <<row, pushed, cursor, clock, saving>>

NoSave == [i \in Snippets |-> 0]

StoreTypeOK ==
  /\ row \in [Devices -> [Records -> Row]]
  /\ pushed \in [Devices -> [Records -> Nat]]
  /\ cursor \in [Devices -> Nat]
  /\ clock \in [Devices -> Nat]
  /\ saving \in [Devices -> [Snippets -> Nat]]

StoreInit ==
  /\ row = [d \in Devices |-> [i \in Records |-> NoRow]]
  /\ pushed = [d \in Devices |-> [i \in Records |-> 0]]
  /\ cursor = [d \in Devices |-> 0]
  /\ clock = [d \in Devices |-> 0]
  /\ saving = [d \in Devices |-> NoSave]

(***************************************************************************)
(* now(): a later instant of this device's own clock.  Clocks of different *)
(* devices need not agree.                                                 *)
(***************************************************************************)
Now(d) == {t \in Stamps[d] : t > clock[d]}

(***************************************************************************)
(* The dirty set: version > COALESCE(pushed, 0).                           *)
(***************************************************************************)
Unacked(d, i) == row[d][i].ver > pushed[d][i]
\* Mutant: deleted records are left out of the dirty set.
DirtyLive(d) == {i \in Records : row[d][i].team /\ Unacked(d, i) /\ ~row[d][i].del}
Dirty(d) == {i \in Records : row[d][i].team /\ Unacked(d, i)}

-----------------------------------------------------------------------------
(***************************************************************************)
(* Edits.  They are Tauri commands and run one at a time on the main       *)
(* thread: none starts while an `update` is between its read and its write.*)
(***************************************************************************)
Ready(d) == saving[d] = NoSave

\* Ids are fresh uuids: no device has a row for the id yet.
Fresh(i) == \A e \in Devices : ~Present(row[e][i])

\* A snippet's scope after create or update: none for a command, else the
\* team asked for, else the team of its group.
TeamOf(d, kind, asked, g) ==
  kind # "command" /\ (asked \/ (g # NoGroup /\ row[d][g].team))

\* The folders the editor offers (list_groups).
LiveGroups(d) == {g \in Groups : Present(row[d][g]) /\ ~row[d][g].del}

Write(d, i, r, t) ==
  /\ row' = [row EXCEPT ![d][i] = r]
  /\ clock' = [clock EXCEPT ![d] = t]
  /\ UNCHANGED <<pushed, cursor>>

CreateSnippet(d, i) ==
  /\ Ready(d)
  /\ Fresh(i)
  /\ \E t \in Now(d), k \in KindsUsed, x \in Texts, asked \in TeamAsked,
        g \in LiveGroups(d) \cup {NoGroup} :
       Write(d, i, [ts |-> t, ver |-> 1, del |-> FALSE, team |-> TeamOf(d, k, asked, g),
                    grp |-> g, kind |-> k, text |-> x], t)
  /\ UNCHANGED saving

\* update, first half: read the row, tombstones included, and release the lock.
UpdateRead(d, i) ==
  /\ Ready(d)
  /\ Present(row[d][i])
  /\ Now(d) # {}
  /\ saving' = [saving EXCEPT ![d][i] = row[d][i].ver]
  /\ UNCHANGED <<row, pushed, cursor, clock>>

\* update, second half: every field but the tombstone is overwritten.
UpdateWrite(d, i) ==
  /\ saving[d][i] > 0
  /\ \E t \in Now(d), k \in KindsUsed, x \in Texts, asked \in TeamAsked,
        g \in LiveGroups(d) \cup {NoGroup} :
       Write(d, i, [ts |-> t, ver |-> saving[d][i] + 1, del |-> row[d][i].del,
                    team |-> TeamOf(d, k, asked, g), grp |-> g, kind |-> k, text |-> x], t)
  /\ saving' = [saving EXCEPT ![d] = NoSave]

\* Mutant: the delete does not count as an edit.
TombstoneSameVersion(r, t) == [r EXCEPT !.del = TRUE, !.ts = t]
Tombstone(r, t) == [r EXCEPT !.del = TRUE, !.ts = t, !.ver = @ + 1]

SoftDelete(d, i) ==
  /\ Ready(d)
  /\ Present(row[d][i]) /\ ~row[d][i].del
  /\ \E t \in Now(d) : Write(d, i, Tombstone(row[d][i], t), t)
  /\ UNCHANGED saving

\* A new group is personal until it is shared.
CreateGroup(d, g) ==
  /\ Ready(d)
  /\ Fresh(g)
  /\ \E t \in Now(d), x \in Texts :
       Write(d, g, [ts |-> t, ver |-> 1, del |-> FALSE, team |-> FALSE,
                    grp |-> NoGroup, kind |-> "group", text |-> x], t)
  /\ UNCHANGED saving

Renamed(r, x, t) == [r EXCEPT !.text = x, !.ts = t, !.ver = @ + 1]

UpdateGroup(d, g) ==
  /\ Ready(d)
  /\ Present(row[d][g]) /\ ~row[d][g].del
  /\ \E t \in Now(d), x \in Texts :
       Write(d, g, Renamed(row[d][g], x, t), t)
  /\ UNCHANGED saving

Members(d, g) == {i \in Snippets : Present(row[d][i]) /\ row[d][i].grp = g}

\* Share a group or take it back; its live snippets follow, commands excepted.  A group
\* that was deleted since the page listed it stays as it is, and its snippets follow all
\* the same: they are updated before the call ends with NotFound.
Following(d, g) ==
  {i \in {g} \cup Members(d, g) : ~row[d][i].del /\ row[d][i].kind # "command"}

Rescoped(r, shared, t) == [r EXCEPT !.team = shared, !.ts = t, !.ver = @ + 1]

SetGroupTeam(d, g, shared) ==
  /\ Ready(d)
  /\ Present(row[d][g]) /\ Following(d, g) # {}
  /\ \E t \in Now(d) :
       /\ row' = [row EXCEPT ![d] = [i \in Records |->
                    IF i \in Following(d, g) THEN Rescoped(row[d][i], shared, t)
                                             ELSE row[d][i]]]
       /\ clock' = [clock EXCEPT ![d] = t]
  /\ UNCHANGED <<pushed, cursor, saving>>

\* rows with every snippet of group g ungrouped; the snippets' versions do not move.
Ungroup(rows, g) ==
  [i \in Records |-> IF i \in Snippets /\ rows[i].grp = g
                     THEN [rows[i] EXCEPT !.grp = NoGroup] ELSE rows[i]]

\* A group that is deleted already: its snippets are ungrouped, and the call fails.
SoftDeleteGroup(d, g) ==
  /\ Ready(d)
  /\ Present(row[d][g])
  /\ \/ /\ ~row[d][g].del
        /\ \E t \in Now(d) :
             /\ row' = [row EXCEPT ![d] = [Ungroup(row[d], g) EXCEPT ![g] = Tombstone(@, t)]]
             /\ clock' = [clock EXCEPT ![d] = t]
     \/ /\ row[d][g].del
        /\ row' = [row EXCEPT ![d] = Ungroup(row[d], g)]
        /\ UNCHANGED clock
  /\ UNCHANGED <<pushed, cursor, saving>>

UserEdit(d) ==
  \/ \E i \in Snippets : CreateSnippet(d, i) \/ UpdateRead(d, i) \/ UpdateWrite(d, i)
                         \/ SoftDelete(d, i)
  \/ \E g \in Groups : CreateGroup(d, g) \/ UpdateGroup(d, g) \/ SoftDeleteGroup(d, g)
                       \/ SetGroupTeam(d, g, TRUE) \/ SetGroupTeam(d, g, FALSE)

-----------------------------------------------------------------------------
(***************************************************************************)
(* apply_remote_snippet and apply_remote_group: the rows after record r of *)
(* id i arrives.  A row that is not older stays; a group's tombstone       *)
(* ungroups its snippets.                                                  *)
(***************************************************************************)
Applied(rows, i, r) ==
  LET put == [rows EXCEPT ![i] = r]
  IN  IF i \in Groups /\ r.del THEN Ungroup(put, i) ELSE put

\* Mutant: the remote record is written whatever the local row is.
ApplyRemoteBlindly(d, i, r) ==
  /\ row' = [row EXCEPT ![d] = Applied(row[d], i, r)]
  /\ pushed' = [pushed EXCEPT ![d][i] = r.ver]

\* Mutant: a record that loses to the local row is acknowledged all the same.
ApplyRemoteAcksLoser(d, i, r) ==
  /\ row' = IF Newer(r, row[d][i]) THEN [row EXCEPT ![d] = Applied(row[d], i, r)] ELSE row
  /\ pushed' = [pushed EXCEPT ![d][i] = r.ver]

ApplyRemote(d, i, r) ==
  IF Newer(r, row[d][i])
  THEN /\ row' = [row EXCEPT ![d] = Applied(row[d], i, r)]
       /\ pushed' = [pushed EXCEPT ![d][i] = r.ver]
  ELSE UNCHANGED <<row, pushed>>

MarkPushed(d, i, v) == pushed' = [pushed EXCEPT ![d][i] = v] /\ UNCHANGED row
=============================================================================
