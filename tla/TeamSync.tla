------------------------------ MODULE TeamSync ------------------------------
(***************************************************************************)
(* One team, its server and its devices: the sync engine of crate          *)
(* sync-client runs on every device between the local store and the        *)
(* server.  A cycle pulls, pushes and pulls again; the user keeps editing  *)
(* meanwhile, a request or its answer can be lost, the engine's task can   *)
(* be aborted and the application can die between any two steps.           *)
(***************************************************************************)
EXTENDS SyncServer, SnippetStore

CONSTANTS
  HalfBatch,   \* most records of one kind in a push (limits::MAX_BATCH / 2)
  MaxFaults,   \* bound: lost messages, aborts and crashes in one behaviour
  SaveRaces,   \* whether a remote record may land between the two halves of an `update`
  TornCalls    \* whether a crash may fall between two statements of one store call

ASSUME EngineConstants ==
  /\ HalfBatch \in Nat \ {0}
  /\ MaxFaults \in Nat
  /\ SaveRaces \in BOOLEAN
  /\ TornCalls \in BOOLEAN

VARIABLES
  pc,       \* pc[d]: where the device's cycle stands
  page,     \* page[d][i]: record i of the fetched page, until it is applied
  next,     \* next[d]: next_cursor of that page
  more,     \* more[d]: whether the page was truncated
  batch,    \* batch[d][i]: the row of i in the push being sent, NoRow if not in it
  sentAll,  \* sentAll[d]: whether the push carries every dirty record
  ack,      \* ack[d][i]: the outcome of i not handled yet
  reply,    \* reply[d][i]: the server_record that came with it
  faults    \* faults so far

engineVars == <<pc, page, next, more, batch, sentAll, ack, reply>>
vars == <<serverVars, storeVars, engineVars, faults>>

\* "repull" and "reapply" are the second pull of the cycle.
Phases == {"idle", "pull", "apply", "push", "sent", "ack", "repull", "reapply"}
Nothing == [i \in Records |-> NoRow]
NoAck == [i \in Records |-> "none"]

TypeOK ==
  /\ ServerTypeOK
  /\ StoreTypeOK
  /\ pc \in [Devices -> Phases]
  /\ page \in [Devices -> [Records -> Row]]
  /\ next \in [Devices -> Nat]
  /\ more \in [Devices -> BOOLEAN]
  /\ batch \in [Devices -> [Records -> Row]]
  /\ sentAll \in [Devices -> BOOLEAN]
  /\ ack \in [Devices -> [Records -> {"none", "accepted", "superseded"}]]
  /\ reply \in [Devices -> [Records -> Row]]
  /\ faults \in Nat

Init ==
  /\ ServerInit
  /\ StoreInit
  /\ pc = [d \in Devices |-> "idle"]
  /\ page = [d \in Devices |-> Nothing]
  /\ next = [d \in Devices |-> 0]
  /\ more = [d \in Devices |-> FALSE]
  /\ batch = [d \in Devices |-> Nothing]
  /\ sentAll = [d \in Devices |-> TRUE]
  /\ ack = [d \in Devices |-> NoAck]
  /\ reply = [d \in Devices |-> Nothing]
  /\ faults = 0

-----------------------------------------------------------------------------
Goto(d, p) == pc' = [pc EXCEPT ![d] = p]

(***************************************************************************)
(* sync_once begins: the kick or the interval's tick.                      *)
(***************************************************************************)
StartCycle(d) ==
  /\ pc[d] = "idle"
  /\ Goto(d, "pull")
  /\ UNCHANGED <<serverVars, storeVars, page, next, more, batch, sentAll, ack, reply, faults>>

(***************************************************************************)
(* pull_team: ask for what follows the stored cursor, apply the page's     *)
(* groups and then its snippets, one store call each, and only then store  *)
(* the page's cursor.                                                      *)
(***************************************************************************)
Fetch(d) ==
  /\ pc[d] \in {"pull", "repull"}
  /\ \E n \in {cursor[d]} \cup {seqOf[i] : i \in After(cursor[d])}, m \in BOOLEAN :
       /\ IsPage(cursor[d], n, m)
       /\ page' = [page EXCEPT ![d] = PageRows(cursor[d], n)]
       /\ next' = [next EXCEPT ![d] = n]
       /\ more' = [more EXCEPT ![d] = m]
  /\ Goto(d, IF pc[d] = "pull" THEN "apply" ELSE "reapply")
  /\ UNCHANGED <<serverVars, storeVars, batch, sentAll, ack, reply, faults>>

Applying(d) == pc[d] \in {"apply", "reapply"}

\* A store call of the sync task while an `update` is half done.
MayTouchStore(d) == SaveRaces \/ Ready(d)

\* Groups come first, so that a snippet finds its folder.  Within a kind the code follows
\* seq; here any order is allowed, as the records of one page are of different rows.
NextOfPage(d, i) ==
  /\ Present(page[d][i])
  /\ i \in Snippets => \A g \in Groups : ~Present(page[d][g])

ApplyRecord(d, i) ==
  /\ Applying(d)
  /\ MayTouchStore(d)
  /\ NextOfPage(d, i)
  /\ ApplyRemote(d, i, page[d][i])
  /\ page' = [page EXCEPT ![d][i] = NoRow]
  /\ UNCHANGED <<serverVars, cursor, clock, saving, pc, next, more, batch, sentAll, ack,
                 reply, faults>>

StoreCursor(d) ==
  /\ Applying(d)
  /\ page[d] = Nothing
  /\ cursor' = [cursor EXCEPT ![d] = next[d]]
  /\ Goto(d, IF pc[d] = "apply" THEN IF more[d] THEN "pull" ELSE "push"
                                ELSE IF more[d] THEN "repull" ELSE "idle")
  /\ UNCHANGED <<serverVars, row, pushed, clock, saving, page, next, more, batch, sentAll,
                 ack, reply, faults>>

-----------------------------------------------------------------------------
(***************************************************************************)
(* push_team: collect the dirty records that may travel, at most HalfBatch *)
(* of a kind and the oldest edits first, and send them.                    *)
(***************************************************************************)
\* Mutant: executable content is not held back.
ToSendAll(d) == Dirty(d)
ToSend(d) == {i \in Dirty(d) : i \in Snippets => Syncable(row[d][i])}

\* S is what `take(HalfBatch)` leaves of the queue Q, which is ordered by updated_at.
Oldest(d, Q, S) ==
  /\ S \subseteq Q
  /\ Cardinality(S) <= HalfBatch
  /\ S # Q => Cardinality(S) = HalfBatch
  /\ \A i \in S, j \in Q \ S : row[d][i].ts <= row[d][j].ts

Collect(d) ==
  /\ pc[d] = "push"
  /\ IF ToSend(d) = {}
     THEN /\ Goto(d, "repull")
          /\ UNCHANGED <<batch, sentAll>>
     ELSE \E S \in SUBSET ToSend(d) :
            /\ Oldest(d, ToSend(d) \cap Groups, S \cap Groups)
            /\ Oldest(d, ToSend(d) \cap Snippets, S \cap Snippets)
            /\ batch' = [batch EXCEPT ![d] = [i \in Records |->
                           IF i \in S THEN row[d][i] ELSE NoRow]]
            /\ sentAll' = [sentAll EXCEPT ![d] = (S = ToSend(d))]
            /\ Goto(d, "sent")
  /\ UNCHANGED <<serverVars, storeVars, page, next, more, ack, reply, faults>>

\* The server handles the push and answers it.
Deliver(d) ==
  /\ pc[d] = "sent"
  /\ Merge(UserOf[d], batch[d])
  /\ ack' = [ack EXCEPT ![d] = Outcome(UserOf[d], batch[d])]
  /\ reply' = [reply EXCEPT ![d] = [i \in Records |->
                 IF Outcome(UserOf[d], batch[d])[i] = "superseded" THEN rec[i] ELSE NoRow]]
  /\ Goto(d, "ack")
  /\ UNCHANGED <<storeVars, page, next, more, batch, sentAll, faults>>

\* One outcome of the ack, those of groups first.
NextOfAck(d, i) ==
  /\ ack[d][i] # "none"
  /\ i \in Snippets => \A g \in Groups : ack[d][g] = "none"

HandleOutcome(d, i) ==
  /\ pc[d] = "ack"
  /\ MayTouchStore(d)
  /\ NextOfAck(d, i)
  /\ IF ack[d][i] = "accepted" THEN MarkPushed(d, i, batch[d][i].ver)
                               ELSE ApplyRemote(d, i, reply[d][i])
  /\ ack' = [ack EXCEPT ![d][i] = "none"]
  /\ reply' = [reply EXCEPT ![d][i] = NoRow]
  /\ UNCHANGED <<serverVars, cursor, clock, saving, pc, page, next, more, batch, sentAll, faults>>

PushDone(d) ==
  /\ pc[d] = "ack"
  /\ ack[d] = NoAck
  /\ Goto(d, IF sentAll[d] THEN "repull" ELSE "push")
  /\ batch' = [batch EXCEPT ![d] = Nothing]
  /\ UNCHANGED <<serverVars, storeVars, page, next, more, sentAll, ack, reply, faults>>

-----------------------------------------------------------------------------
(***************************************************************************)
(* The cycle ends early: a request or an answer is lost, the server fails, *)
(* or rebuild() aborts the task.  What the store holds is all that stays.  *)
(***************************************************************************)
DropCycle(d) ==
  /\ Goto(d, "idle")
  /\ page' = [page EXCEPT ![d] = Nothing]
  /\ batch' = [batch EXCEPT ![d] = Nothing]
  /\ ack' = [ack EXCEPT ![d] = NoAck]
  /\ reply' = [reply EXCEPT ![d] = Nothing]
  /\ UNCHANGED <<serverVars, cursor, next, more, sentAll>>

Fault == faults < MaxFaults /\ faults' = faults + 1

AbortCycle(d) ==
  /\ pc[d] # "idle"
  /\ Fault
  /\ DropCycle(d)
  /\ UNCHANGED <<row, pushed, clock, saving>>

\* The application dies; an `update` between its halves dies with it.
Crash(d) ==
  /\ pc[d] # "idle" \/ ~Ready(d)
  /\ Fault
  /\ DropCycle(d)
  /\ saving' = [saving EXCEPT ![d] = NoSave]
  /\ UNCHANGED <<row, pushed, clock>>

\* The application dies inside apply_remote_*, whose statements commit one by
\* one: the row is written, sync_pushed is not, and the snippets of a group that
\* is gone are ungrouped or not yet.
TornApply(d, i) ==
  /\ TornCalls
  /\ MayTouchStore(d)
  /\ \E r \in {page[d][i], reply[d][i]} :
       /\ Applying(d) => NextOfPage(d, i)
       /\ pc[d] = "ack" => NextOfAck(d, i)
       /\ Present(r) /\ Newer(r, row[d][i])
       /\ \/ row' = [row EXCEPT ![d][i] = r]
          \/ row' = [row EXCEPT ![d] = Applied(row[d], i, r)]
  /\ Fault
  /\ DropCycle(d)
  /\ saving' = [saving EXCEPT ![d] = NoSave]
  /\ UNCHANGED <<pushed, clock>>

\* The application dies inside set_group_team, between the group and its snippets,
\* or inside soft_delete_group, between the snippets and the group.
TornFolder(d, g) ==
  /\ TornCalls
  /\ Ready(d) /\ Present(row[d][g])
  /\ \/ \E t \in Now(d), shared \in BOOLEAN :
          /\ ~row[d][g].del
          /\ row' = [row EXCEPT ![d][g] = Rescoped(row[d][g], shared, t)]
          /\ clock' = [clock EXCEPT ![d] = t]
     \/ row' = [row EXCEPT ![d] = Ungroup(row[d], g)] /\ UNCHANGED clock
  /\ Fault
  /\ DropCycle(d)
  /\ UNCHANGED <<pushed, saving>>

-----------------------------------------------------------------------------
Edit(d) == UserEdit(d) /\ UNCHANGED <<serverVars, engineVars, faults>>

Cycle(d) ==
  \/ StartCycle(d) \/ Fetch(d) \/ StoreCursor(d)
  \/ Collect(d) \/ Deliver(d) \/ PushDone(d)
  \/ \E i \in Records : ApplyRecord(d, i) \/ HandleOutcome(d, i)

Break(d) ==
  \/ AbortCycle(d) \/ Crash(d)
  \/ \E i \in Records : TornApply(d, i)
  \/ \E g \in Groups : TornFolder(d, g)

Next == \E d \in Devices : Edit(d) \/ Cycle(d) \/ Break(d)

(***************************************************************************)
(* A cycle that has begun goes on, the interval's tick starts the next     *)
(* one, and an `update` that has read writes; nobody has to edit.          *)
(***************************************************************************)
Fairness ==
  \A d \in Devices :
    /\ WF_vars(Cycle(d))
    /\ WF_vars(\E i \in Snippets : UpdateWrite(d, i) /\ UNCHANGED <<serverVars, engineVars, faults>>)

Spec == Init /\ [][Next]_vars
FairSpec == Spec /\ Fairness
-----------------------------------------------------------------------------
(***************************************************************************)
(* Safety.                                                                 *)
(***************************************************************************)

\* Nothing is lost: a row that is not dirty is not newer than what the server
\* holds.  sync_pushed is the offline queue (engine.rs, SYNC-PROTOCOL client
\* obligation 3), so a newer row that is not dirty would never be pushed.
Kept(d, i) == ~Unacked(d, i) => ~Newer(row[d][i], rec[i])
NoLostEdit == \A d \in Devices, i \in Records : Kept(d, i)

\* The cursor never passes a record the device does not have: of everything
\* numbered up to its cursor the device holds the server's copy or a newer one,
\* unless its own unacknowledged edit (made by a clock that lags) is in the way.
KnownOrPending(d, i) == ~Newer(rec[i], row[d][i]) \/ Unacked(d, i)
Covered(d, i) == seqOf[i] <= cursor[d] => KnownOrPending(d, i)
CursorSound == \A d \in Devices, i \in Records : Covered(d, i)

\* A device that is caught up on a record and owes the server nothing holds the
\* very record the server does, in every field but the folder.
Agreement ==
  \A d \in Devices, i \in Records :
    seqOf[i] <= cursor[d] /\ ~Unacked(d, i) =>
      [row[d][i] EXCEPT !.grp = NoGroup] = [rec[i] EXCEPT !.grp = NoGroup]

(***************************************************************************)
(* Why the two hold, when neither an `update` races a remote record nor a  *)
(* crash tears a store call: what is on its way between server and device. *)
(***************************************************************************)
\* No record, no cursor and no page is ahead of the server's numbering.
Numbering ==
  /\ \A i \in Records : seqOf[i] <= seq
  /\ \A d \in Devices :
       /\ cursor[d] <= seq
       /\ Applying(d) => /\ cursor[d] <= next[d] /\ next[d] <= seq
                         /\ cursor[d] < next[d] => \E j \in Records : next[d] <= seqOf[j]

\* What is acknowledged, and what an `update` has read, is a version the row has had.
Booked(d, i) ==
  /\ pushed[d][i] <= row[d][i].ver
  /\ i \in Snippets /\ saving[d][i] > 0 => saving[d][i] = row[d][i].ver

\* A page record is the server's, or the server has moved on past the page; what
\* the page covers and does not carry any more is on the device.
Paged(d, i) ==
  /\ Present(page[d][i]) => /\ Applying(d)
                            /\ ~Newer(page[d][i], rec[i])
                            /\ cursor[d] < seqOf[i]
                            /\ seqOf[i] <= next[d] => page[d][i] = rec[i]
  /\ Applying(d) /\ cursor[d] < seqOf[i] /\ seqOf[i] <= next[d] =>
       page[d][i] = rec[i] \/ KnownOrPending(d, i)

\* Until its outcome is handled a row that was sent is still there or was edited.
Batched(d, i) ==
  Present(batch[d][i]) /\ (pc[d] = "sent" \/ ack[d][i] # "none") =>
    \/ batch[d][i].ver < row[d][i].ver
    \/ SameStamp(batch[d][i], row[d][i])

\* An outcome tells what the server did, and its copy is the server's or older.
Acked(d, i) ==
  /\ ack[d][i] # "none" => pc[d] = "ack" /\ Present(batch[d][i])
  /\ ack[d][i] = "accepted" => ~Newer(batch[d][i], rec[i]) /\ cursor[d] < seqOf[i]
  /\ reply[d][i] # NoRow =>
       /\ ack[d][i] = "superseded"
       /\ ~Newer(reply[d][i], rec[i])
       /\ SameStamp(reply[d][i], rec[i]) \/ cursor[d] < seqOf[i]

Linked(d, i) == /\ Booked(d, i) /\ Paged(d, i) /\ Batched(d, i) /\ Acked(d, i)
                /\ Kept(d, i) /\ Covered(d, i)

IndInv == Numbering /\ \A d \in Devices, i \in Records : Linked(d, i)

\* Only team records that may travel are sent or stored (the HARD SCOPE RULE of
\* push_team and SYNC-PROTOCOL client obligation 6), whatever the user makes of
\* the row meanwhile.
ScopeRule ==
  /\ \A i \in Records : Present(rec[i]) => rec[i].team /\ Syncable(rec[i])
  /\ \A d \in Devices, i \in Records :
       Present(batch[d][i]) => batch[d][i].team /\ Syncable(batch[d][i])

\* A local edit leaves the queue only when the server holds it or something newer.
Survives(d, i) == Unacked(d, i) /\ ~Unacked(d, i)' => ~Newer(row[d][i], rec'[i])
PendingEditSurvives == [][\A d \in Devices, i \in Records : Survives(d, i)]_vars

\* The server and the cursors implement the change feed's promise.
Feed == INSTANCE ChangeFeed WITH latest <- rec
ImplementsFeed == Feed!Spec

-----------------------------------------------------------------------------
(***************************************************************************)
(* Liveness.                                                               *)
(***************************************************************************)
MayTravel(d, i) == row[d][i].team /\ Syncable(row[d][i])

InStep ==
  \A d \in Devices, i \in Records :
    SameStamp(row[d][i], rec[i]) \/ (Present(row[d][i]) /\ ~MayTravel(d, i))

\* Once the edits and the faults have stopped, every device ends up with the
\* server's copy of every shared record, and the server with theirs.
Converges == <>[]InStep
=============================================================================
