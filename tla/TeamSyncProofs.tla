--------------------------- MODULE TeamSyncProofs ---------------------------
(***************************************************************************)
(* Theorems about TeamSync, for every set of devices, records, stamps and  *)
(* every bound, with races, crashes and torn calls: the types, the change  *)
(* feed, what may travel, and which copies of a record are the same edit;  *)
(* and without races and torn calls: that no edit is lost, that no cursor  *)
(* passes what its device lacks, and that devices agree.                   *)
(***************************************************************************)
EXTENDS TeamSync, FiniteSetTheorems, TLAPS

\* The absent row is a row.
LEMMA NoRowType == NoRow \in Row
BY DEF NoRow, Row, Kinds

\* Ungrouping keeps the table a table and moves nobody's stamp.
LEMMA UngroupRows ==
  ASSUME NEW rows \in [Records -> Row], NEW g \in Groups
  PROVE  /\ Ungroup(rows, g) \in [Records -> Row]
         /\ \A i \in Records : SameStamp(Ungroup(rows, g)[i], rows[i])
BY DEF Ungroup, Row, SameStamp

\* Applying a remote record stores its stamp at its id and moves no other.
LEMMA AppliedRows ==
  ASSUME NEW rows \in [Records -> Row], NEW i \in Records, NEW r \in Row
  PROVE  /\ Applied(rows, i, r) \in [Records -> Row]
         /\ SameStamp(Applied(rows, i, r)[i], r)
         /\ \A j \in Records \ {i} : SameStamp(Applied(rows, i, r)[j], rows[j])
<1> DEFINE put == [rows EXCEPT ![i] = r]
<1>1. put \in [Records -> Row]
  OBVIOUS
<1>2. CASE i \in Groups /\ r.del
  <2>1. /\ Ungroup(put, i) \in [Records -> Row]
        /\ \A j \in Records : SameStamp(Ungroup(put, i)[j], put[j])
    BY <1>1, <1>2, UngroupRows
  <2>2. Applied(rows, i, r) = Ungroup(put, i)
    BY <1>2 DEF Applied
  <2> QED BY <2>1, <2>2
<1>3. CASE ~(i \in Groups /\ r.del)
  <2>1. Applied(rows, i, r) = put
    BY <1>3 DEF Applied
  <2> QED BY <1>1, <2>1 DEF SameStamp
<1> QED BY <1>2, <1>3

-----------------------------------------------------------------------------
(***************************************************************************)
(* Type correctness.                                                       *)
(***************************************************************************)
LEMMA InitType == Init => TypeOK
BY NoRowType DEF Init, ServerInit, StoreInit, TypeOK, ServerTypeOK, StoreTypeOK, NoSave,
   Nothing, NoAck, Phases

\* Editing a row keeps it a row; the fields not edited stay.
LEMMA EditedRow ==
  ASSUME NEW r \in Row, NEW t \in Nat
  PROVE  /\ Tombstone(r, t) \in Row
         /\ \A x \in Texts : Renamed(r, x, t) \in Row
         /\ \A b \in BOOLEAN : Rescoped(r, b, t) \in Row
<1>1. r.ver + 1 \in Nat
  BY DEF Row
<1>2. \A v \in Nat : [r EXCEPT !.del = TRUE, !.ts = t, !.ver = v] \in Row
  BY DEF Row
<1>3. \A v \in Nat, x \in Texts : [r EXCEPT !.text = x, !.ts = t, !.ver = v] \in Row
  BY DEF Row
<1>4. \A v \in Nat, b \in BOOLEAN : [r EXCEPT !.team = b, !.ts = t, !.ver = v] \in Row
  BY DEF Row
<1> QED BY <1>1, <1>2, <1>3, <1>4 DEF Tombstone, Renamed, Rescoped

\* The store's write of one row keeps the tables' types.
LEMMA WriteType ==
  ASSUME StoreTypeOK, NEW d \in Devices, NEW i \in Records, NEW r \in Row, NEW t \in Nat,
         Write(d, i, r, t), saving' \in [Devices -> [Snippets -> Nat]]
  PROVE  StoreTypeOK'
BY DEF StoreTypeOK, Write

\* What an edit leaves behind is a row.
LEMMA EditType == ASSUME TypeOK, NEW d \in Devices, Edit(d) PROVE TypeOK'
<1> USE DEF TypeOK, ServerTypeOK, StoreTypeOK
<1>0. /\ UNCHANGED <<serverVars, engineVars, faults>>
      /\ Now(d) \subseteq Nat /\ KindsUsed \subseteq Kinds /\ Snippets \subseteq Records
      /\ Groups \subseteq Records
  BY StoreConstants DEF Edit, Now, Kinds, SnippetKinds, Records
<1>1. SUFFICES StoreTypeOK'
  BY <1>0 DEF serverVars, engineVars
<1>2. ASSUME NEW i \in Snippets, CreateSnippet(d, i) PROVE StoreTypeOK'
  BY <1>0, <1>2, WriteType DEF CreateSnippet, TeamOf, LiveGroups, Row
<1>3. ASSUME NEW i \in Snippets, UpdateRead(d, i) PROVE StoreTypeOK'
  BY <1>0, <1>3 DEF UpdateRead, Row
<1>4. ASSUME NEW i \in Snippets, UpdateWrite(d, i) PROVE StoreTypeOK'
  <2>1. saving' \in [Devices -> [Snippets -> Nat]]
    BY <1>4 DEF UpdateWrite, NoSave
  <2>2. PICK t \in Now(d), k \in KindsUsed, x \in Texts, asked \in TeamAsked,
             g \in LiveGroups(d) \cup {NoGroup} :
          Write(d, i, [ts |-> t, ver |-> saving[d][i] + 1, del |-> row[d][i].del,
                       team |-> TeamOf(d, k, asked, g), grp |-> g, kind |-> k, text |-> x], t)
    BY <1>4 DEF UpdateWrite
  <2>3. /\ t \in Nat /\ saving[d][i] + 1 \in Nat /\ row[d][i].del \in BOOLEAN
        /\ TeamOf(d, k, asked, g) \in BOOLEAN /\ g \in Groups \cup {NoGroup} /\ k \in Kinds
    BY <1>0 DEF TeamOf, LiveGroups, Row
  <2>4. [ts |-> t, ver |-> saving[d][i] + 1, del |-> row[d][i].del,
         team |-> TeamOf(d, k, asked, g), grp |-> g, kind |-> k, text |-> x] \in Row
    BY <2>3 DEF Row
  <2> QED BY <1>0, <2>1, <2>2, <2>3, <2>4, WriteType
<1>5. ASSUME NEW i \in Snippets, SoftDelete(d, i) PROVE StoreTypeOK'
  <2>1. PICK t \in Now(d) : Write(d, i, Tombstone(row[d][i], t), t)
    BY <1>5 DEF SoftDelete
  <2>2. t \in Nat /\ row[d][i] \in Row /\ saving' = saving /\ i \in Records
    BY <1>0, <1>5 DEF SoftDelete
  <2>3. Tombstone(row[d][i], t) \in Row
    BY <2>2, EditedRow
  <2> QED BY <1>0, <2>1, <2>2, <2>3, WriteType
<1>6. ASSUME NEW g \in Groups, CreateGroup(d, g) PROVE StoreTypeOK'
  BY <1>0, <1>6, WriteType DEF CreateGroup, Row, Kinds
<1>7. ASSUME NEW g \in Groups, UpdateGroup(d, g) PROVE StoreTypeOK'
  <2>1. PICK t \in Now(d), x \in Texts : Write(d, g, Renamed(row[d][g], x, t), t)
    BY <1>7 DEF UpdateGroup
  <2>2. t \in Nat /\ row[d][g] \in Row /\ saving' = saving /\ g \in Records
    BY <1>0, <1>7 DEF UpdateGroup
  <2>3. Renamed(row[d][g], x, t) \in Row
    BY <2>2, EditedRow
  <2> QED BY <1>0, <2>1, <2>2, <2>3, WriteType
<1>8. ASSUME NEW g \in Groups, SoftDeleteGroup(d, g) PROVE StoreTypeOK'
  <2>1. Ungroup(row[d], g) \in [Records -> Row]
    BY <1>0, UngroupRows
  <2>2. UNCHANGED <<pushed, cursor, saving>>
    BY <1>8 DEF SoftDeleteGroup
  <2>3. ASSUME NEW t \in Now(d),
               row' = [row EXCEPT ![d] = [Ungroup(row[d], g) EXCEPT ![g] = Tombstone(@, t)]],
               clock' = [clock EXCEPT ![d] = t]
        PROVE  StoreTypeOK'
    <3>1. Tombstone(Ungroup(row[d], g)[g], t) \in Row
      BY <1>0, <2>1, EditedRow
    <3>2. [Ungroup(row[d], g) EXCEPT ![g] = Tombstone(@, t)] \in [Records -> Row]
      BY <2>1, <3>1
    <3> QED BY <1>0, <2>2, <2>3, <3>2
  <2>4. CASE row' = [row EXCEPT ![d] = Ungroup(row[d], g)] /\ UNCHANGED clock
    BY <1>0, <2>1, <2>2, <2>4
  <2> QED BY <1>8, <2>3, <2>4 DEF SoftDeleteGroup
<1>9. ASSUME NEW g \in Groups, NEW b \in BOOLEAN, SetGroupTeam(d, g, b) PROVE StoreTypeOK'
  <2>1. PICK t \in Now(d) :
          /\ row' = [row EXCEPT ![d] = [i \in Records |->
                       IF i \in Following(d, g) THEN Rescoped(row[d][i], b, t) ELSE row[d][i]]]
          /\ clock' = [clock EXCEPT ![d] = t]
          /\ UNCHANGED <<pushed, cursor, saving>>
    BY <1>9 DEF SetGroupTeam
  <2>2. \A i \in Records : Rescoped(row[d][i], b, t) \in Row
    BY <1>0, EditedRow
  <2> QED BY <1>0, <2>1, <2>2
<1> QED
  BY <1>1, <1>2, <1>3, <1>4, <1>5, <1>6, <1>7, <1>8, <1>9 DEF Edit, UserEdit

\* What a push does to the server: it numbers the accepted records past the
\* counter, all differently, and leaves the others alone.
LEMMA MergeEffect ==
  ASSUME ServerTypeOK, NEW u \in Users, NEW b \in [Records -> Row], Merge(u, b)
  PROVE  /\ ServerTypeOK'
         /\ seq' >= seq
         /\ \A i \in Accepted(u, b) :
              /\ i \in Records /\ rec'[i] = b[i] /\ Newer(b[i], rec[i]) /\ Present(b[i])
              /\ seq < seqOf'[i] /\ seqOf'[i] <= seq'
              /\ \A j \in Accepted(u, b) : i # j => seqOf'[i] # seqOf'[j]
         /\ \A i \in Records \ Accepted(u, b) : rec'[i] = rec[i] /\ seqOf'[i] = seqOf[i]
<1> DEFINE A == Accepted(u, b)
<1>1. A \subseteq Records /\ \A i \in A : Newer(b[i], rec[i]) /\ Present(b[i])
  BY DEF Accepted
<1>2. IsFiniteSet(A)
  BY <1>1, ServerConstants, FS_Subset
<1>3. Cardinality(A) \in Nat
  BY <1>2, FS_CardinalityType
<1>4. seq' = seq + Cardinality(A) /\ seq \in Nat
  BY DEF Merge, ServerTypeOK
<1>5. seq' \in Nat /\ seq' >= seq
  BY <1>3, <1>4
<1>6. PICK s \in [A -> (seq + 1)..seq'] :
        /\ \A i, j \in A : i # j => s[i] # s[j]
        /\ seqOf' = [i \in Records |-> IF i \in A THEN s[i] ELSE seqOf[i]]
  BY DEF Merge
<1>7. \A i \in A : s[i] \in Nat /\ seq < s[i] /\ s[i] <= seq'
  BY <1>4, <1>5
<1>8. rec' = [i \in Records |-> IF i \in A THEN b[i] ELSE rec[i]]
  BY DEF Merge
<1>9. owner' = [i \in Records |-> IF i \in A /\ owner[i] = NoUser THEN u ELSE owner[i]]
  BY DEF Merge
<1>10. ServerTypeOK'
  BY <1>5, <1>6, <1>7, <1>8, <1>9 DEF ServerTypeOK
<1> HIDE DEF A
<1>11. \A i \in A : /\ i \in Records /\ rec'[i] = b[i] /\ Newer(b[i], rec[i]) /\ Present(b[i])
                    /\ seq < seqOf'[i] /\ seqOf'[i] <= seq'
                    /\ \A j \in A : i # j => seqOf'[i] # seqOf'[j]
  BY <1>1, <1>6, <1>7, <1>8
<1>12. \A i \in Records \ A : rec'[i] = rec[i] /\ seqOf'[i] = seqOf[i]
  BY <1>6, <1>8
<1> QED BY <1>5, <1>10, <1>11, <1>12 DEF A

\* A step of a cycle keeps the types.
LEMMA CycleType == ASSUME TypeOK, NEW d \in Devices, Cycle(d) PROVE TypeOK'
<1> USE DEF TypeOK, ServerTypeOK, StoreTypeOK, Phases, Goto, serverVars, storeVars
<1>1. CASE StartCycle(d)
  BY <1>1 DEF StartCycle
<1>2. CASE Fetch(d)
  <2>1. PICK n \in {cursor[d]} \cup {seqOf[i] : i \in After(cursor[d])}, m \in BOOLEAN :
          /\ page' = [page EXCEPT ![d] = PageRows(cursor[d], n)]
          /\ next' = [next EXCEPT ![d] = n]
          /\ more' = [more EXCEPT ![d] = m]
    BY <1>2 DEF Fetch
  <2>2. n \in Nat
    BY DEF After
  <2>3. PageRows(cursor[d], n) \in [Records -> Row]
    BY NoRowType DEF PageRows
  <2> QED BY <1>2, <2>1, <2>2, <2>3 DEF Fetch
<1>3. CASE StoreCursor(d)
  BY <1>3 DEF StoreCursor
<1>4. CASE Collect(d)
  <2>1. CASE ToSend(d) = {}
    BY <1>4, <2>1 DEF Collect
  <2>2. CASE ToSend(d) # {}
    <3>1. PICK S \in SUBSET ToSend(d) :
            /\ batch' = [batch EXCEPT ![d] = [i \in Records |->
                           IF i \in S THEN row[d][i] ELSE NoRow]]
            /\ sentAll' = [sentAll EXCEPT ![d] = (S = ToSend(d))]
            /\ Goto(d, "sent")
      BY <1>4, <2>2 DEF Collect
    <3>2. [i \in Records |-> IF i \in S THEN row[d][i] ELSE NoRow] \in [Records -> Row]
      BY NoRowType
    <3>3. (S = ToSend(d)) \in BOOLEAN
      OBVIOUS
    <3> QED BY <1>4, <3>1, <3>2, <3>3 DEF Collect
  <2> QED BY <2>1, <2>2
<1>5. CASE Deliver(d)
  <2>1. UserOf[d] \in Users /\ batch[d] \in [Records -> Row]
    BY ServerConstants
  <2>2. ServerTypeOK'
    BY <1>5, <2>1, MergeEffect DEF Deliver
  <2>3. Outcome(UserOf[d], batch[d]) \in [Records -> {"none", "accepted", "superseded"}]
    BY DEF Outcome
  <2>4. [i \in Records |-> IF Outcome(UserOf[d], batch[d])[i] = "superseded"
                           THEN rec[i] ELSE NoRow] \in [Records -> Row]
    BY NoRowType
  <2> QED BY <1>5, <2>2, <2>3, <2>4 DEF Deliver
<1>6. CASE PushDone(d)
  BY <1>6, NoRowType DEF PushDone, Nothing
<1>7. ASSUME NEW i \in Records, NEW r \in Row, ApplyRemote(d, i, r)
      PROVE  /\ row' \in [Devices -> [Records -> Row]]
             /\ pushed' \in [Devices -> [Records -> Nat]]
  <2>1. Applied(row[d], i, r) \in [Records -> Row]
    BY AppliedRows
  <2>2. r.ver \in Nat
    BY DEF Row
  <2>3. CASE Newer(r, row[d][i])
    <3>1. /\ row' = [row EXCEPT ![d] = Applied(row[d], i, r)]
          /\ pushed' = [pushed EXCEPT ![d][i] = r.ver]
      BY <1>7, <2>3 DEF ApplyRemote
    <3>2. row \in [Devices -> [Records -> Row]] /\ pushed \in [Devices -> [Records -> Nat]]
      OBVIOUS
    <3>3. row' \in [Devices -> [Records -> Row]]
      BY <2>1, <3>1, <3>2
    <3>4. pushed' \in [Devices -> [Records -> Nat]]
      BY <2>2, <3>1, <3>2
    <3> QED BY <3>3, <3>4
  <2>4. CASE ~Newer(r, row[d][i])
    BY <1>7, <2>4 DEF ApplyRemote
  <2> QED BY <2>3, <2>4
<1>8. ASSUME NEW i \in Records, ApplyRecord(d, i) PROVE TypeOK'
  BY <1>7, <1>8, NoRowType DEF ApplyRecord
<1>9. ASSUME NEW i \in Records, HandleOutcome(d, i) PROVE TypeOK'
  <2>1. batch[d][i].ver \in Nat
    BY DEF Row
  <2>2. CASE MarkPushed(d, i, batch[d][i].ver)
    BY <1>9, <2>1, <2>2, NoRowType DEF HandleOutcome, MarkPushed
  <2>3. CASE ApplyRemote(d, i, reply[d][i])
    <3>1. reply[d][i] \in Row
      OBVIOUS
    <3>2. /\ row' \in [Devices -> [Records -> Row]]
          /\ pushed' \in [Devices -> [Records -> Nat]]
      BY <1>7, <2>3, <3>1
    <3> QED BY <1>9, <3>2, NoRowType DEF HandleOutcome
  <2> QED BY <1>9, <2>2, <2>3 DEF HandleOutcome
<1> QED BY <1>1, <1>2, <1>3, <1>4, <1>5, <1>6, <1>8, <1>9 DEF Cycle

\* So does a fault, wherever it cuts a store call.
LEMMA BreakType == ASSUME TypeOK, NEW d \in Devices, Break(d) PROVE TypeOK'
<1> USE DEF TypeOK, ServerTypeOK, StoreTypeOK, Phases, Goto, serverVars, storeVars
<1>1. ASSUME DropCycle(d), Fault, row' \in [Devices -> [Records -> Row]],
             clock' \in [Devices -> Nat],
             UNCHANGED pushed, saving' = saving \/ saving' = [saving EXCEPT ![d] = NoSave]
      PROVE  TypeOK'
  <2>1. Nothing \in [Records -> Row] /\ NoAck \in [Records -> {"none", "accepted", "superseded"}]
    BY NoRowType DEF Nothing, NoAck
  <2>2. saving' \in [Devices -> [Snippets -> Nat]]
    <3>1. NoSave \in [Snippets -> Nat] /\ saving \in [Devices -> [Snippets -> Nat]]
      BY DEF NoSave
    <3> QED BY <1>1, <3>1
  <2>3. faults' \in Nat
    BY <1>1 DEF Fault
  <2> QED BY <1>1, <2>1, <2>2, <2>3 DEF DropCycle
<1>2. CASE AbortCycle(d)
  BY <1>1, <1>2 DEF AbortCycle
<1>3. CASE Crash(d)
  BY <1>1, <1>3 DEF Crash
<1>4. ASSUME NEW i \in Records, TornApply(d, i) PROVE TypeOK'
  <2>1. PICK r \in {page[d][i], reply[d][i]} :
          \/ row' = [row EXCEPT ![d][i] = r]
          \/ row' = [row EXCEPT ![d] = Applied(row[d], i, r)]
    BY <1>4 DEF TornApply
  <2>2. row[d] \in [Records -> Row] /\ r \in Row
    OBVIOUS
  <2>3. Applied(row[d], i, r) \in [Records -> Row]
    BY <2>2, AppliedRows
  <2>4. row' \in [Devices -> [Records -> Row]]
    <3>1. CASE row' = [row EXCEPT ![d][i] = r]
      <4>1. [row[d] EXCEPT ![i] = r] \in [Records -> Row]
        BY <2>2
      <4>2. row' = [row EXCEPT ![d] = [row[d] EXCEPT ![i] = r]]
        BY <3>1
      <4> HIDE DEF TypeOK
      <4>3. row \in [Devices -> [Records -> Row]]
        BY DEF TypeOK, StoreTypeOK
      <4> QED BY <4>1, <4>2, <4>3
    <3>2. CASE row' = [row EXCEPT ![d] = Applied(row[d], i, r)]
      BY <2>3, <3>2
    <3> QED BY <2>1, <3>1, <3>2
  <2> QED BY <1>1, <1>4, <2>4 DEF TornApply
<1>5. ASSUME NEW g \in Groups, TornFolder(d, g) PROVE TypeOK'
  <2>1. row[d] \in [Records -> Row] /\ g \in Records
    BY DEF Records
  <2>2. ASSUME NEW t \in Now(d), NEW shared \in BOOLEAN,
               row' = [row EXCEPT ![d][g] = Rescoped(row[d][g], shared, t)],
               clock' = [clock EXCEPT ![d] = t]
        PROVE  TypeOK'
    <3>1. t \in Nat
      BY StoreConstants DEF Now
    <3>2. Rescoped(row[d][g], shared, t) \in Row
      BY <2>1, <3>1, EditedRow
    <3>3. row' \in [Devices -> [Records -> Row]] /\ clock' \in [Devices -> Nat]
      BY <2>1, <2>2, <3>1, <3>2
    <3> QED BY <1>1, <1>5, <3>3 DEF TornFolder
  <2>3. CASE row' = [row EXCEPT ![d] = Ungroup(row[d], g)] /\ UNCHANGED clock
    <3>1. Ungroup(row[d], g) \in [Records -> Row]
      BY <2>1, UngroupRows
    <3> QED BY <1>1, <1>5, <2>3, <3>1 DEF TornFolder
  <2> QED BY <1>5, <2>2, <2>3 DEF TornFolder
<1> QED BY <1>2, <1>3, <1>4, <1>5 DEF Break

\* Every variable keeps its type, whatever the users, the network and the
\* devices' clocks do.
THEOREM TypeCorrect == Spec => []TypeOK
<1>1. TypeOK /\ [Next]_vars => TypeOK'
  <2> SUFFICES ASSUME TypeOK, [Next]_vars PROVE TypeOK'
    OBVIOUS
  <2>1. CASE UNCHANGED vars
    BY <2>1 DEF vars, serverVars, storeVars, engineVars, TypeOK, ServerTypeOK, StoreTypeOK
  <2>2. ASSUME NEW d \in Devices, Edit(d) \/ Cycle(d) \/ Break(d) PROVE TypeOK'
    BY <2>2, EditType, CycleType, BreakType
  <2> QED BY <2>1, <2>2 DEF Next
<1> QED BY <1>1, InitType, PTL DEF Spec
-----------------------------------------------------------------------------
(***************************************************************************)
(* The numbering.                                                          *)
(***************************************************************************)
\* What an edit leaves alone.
LEMMA EditFrame ==
  ASSUME NEW d \in Devices, Edit(d)
  PROVE  UNCHANGED <<serverVars, engineVars, faults, pushed, cursor>>
BY DEF Edit, UserEdit, CreateSnippet, UpdateRead, UpdateWrite, SoftDelete, CreateGroup,
   UpdateGroup, SoftDeleteGroup, SetGroupTeam, Write

\* A server counter that only grows past what it has handed out.
LEMMA DeliverNumbers ==
  ASSUME TypeOK, Numbering, NEW d \in Devices, Deliver(d)
  PROVE  /\ seq' \in Nat /\ seq <= seq'
         /\ seqOf' \in [Records -> Nat] /\ rec' \in [Records -> Row]
         /\ \A i \in Records :
              /\ seqOf[i] <= seqOf'[i] /\ seqOf'[i] <= seq'
              /\ \/ rec'[i] = rec[i] /\ seqOf'[i] = seqOf[i]
                 \/ rec'[i] = batch[d][i] /\ Newer(rec'[i], rec[i]) /\ seq < seqOf'[i]
<1>1. UserOf[d] \in Users /\ batch[d] \in [Records -> Row] /\ ServerTypeOK
  BY ServerConstants DEF TypeOK
<1>2. Merge(UserOf[d], batch[d])
  BY DEF Deliver
<1>3. /\ ServerTypeOK' /\ seq' >= seq
      /\ \A i \in Accepted(UserOf[d], batch[d]) :
           /\ rec'[i] = batch[d][i] /\ Newer(batch[d][i], rec[i])
           /\ seq < seqOf'[i] /\ seqOf'[i] <= seq'
      /\ \A i \in Records \ Accepted(UserOf[d], batch[d]) :
           rec'[i] = rec[i] /\ seqOf'[i] = seqOf[i]
  BY <1>1, <1>2, MergeEffect
<1>4. /\ seq' \in Nat /\ seqOf' \in [Records -> Nat] /\ rec' \in [Records -> Row]
      /\ seq \in Nat /\ seqOf \in [Records -> Nat]
  BY <1>1, <1>3 DEF ServerTypeOK
<1>5. \A i \in Records : seqOf[i] <= seq
  BY DEF Numbering
<1> QED BY <1>3, <1>4, <1>5

\* No step lets a record, a cursor or a page run ahead of the server's counter.
LEMMA NumberingStep ==
  ASSUME TypeOK, Numbering, [Next]_vars
  PROVE  Numbering'
<1>0. /\ seq \in Nat /\ seqOf \in [Records -> Nat] /\ cursor \in [Devices -> Nat]
      /\ next \in [Devices -> Nat] /\ pc \in [Devices -> Phases]
  BY DEF TypeOK, ServerTypeOK, StoreTypeOK
<1>1. CASE UNCHANGED <<serverVars, cursor, next, pc>>
  BY <1>1 DEF Numbering, Applying, serverVars
<1>2. ASSUME NEW d \in Devices,
             UNCHANGED <<serverVars, cursor, next>>,
             pc' = [pc EXCEPT ![d] = pc'[d]], pc'[d] \notin {"apply", "reapply"}
      PROVE  Numbering'
  BY <1>0, <1>2 DEF Numbering, Applying, serverVars
<1>3. ASSUME NEW d \in Devices, Fetch(d) PROVE Numbering'
  <2>1. PICK n \in {cursor[d]} \cup {seqOf[i] : i \in After(cursor[d])} :
          next' = [next EXCEPT ![d] = n]
    BY <1>3 DEF Fetch
  <2>2. n \in Nat /\ cursor[d] <= n /\ (cursor[d] < n => \E j \in Records : n <= seqOf[j])
    BY <1>0, <2>1 DEF After
  <2>3. n <= seq
    BY <1>0, <2>1 DEF After, Numbering
  <2>4. /\ UNCHANGED <<serverVars, cursor>> /\ \A e \in Devices \ {d} : pc'[e] = pc[e]
    BY <1>0, <1>3 DEF Fetch, Goto, storeVars
  <2> QED BY <1>0, <2>1, <2>2, <2>3, <2>4 DEF Numbering, Applying, serverVars
<1>4. ASSUME NEW d \in Devices, StoreCursor(d) PROVE Numbering'
  <2>1. /\ UNCHANGED <<serverVars, next>> /\ cursor' = [cursor EXCEPT ![d] = next[d]]
        /\ pc'[d] \notin {"apply", "reapply"} /\ \A e \in Devices \ {d} : pc'[e] = pc[e]
        /\ Applying(d)
    BY <1>0, <1>4 DEF StoreCursor, Goto
  <2> QED BY <1>0, <2>1 DEF Numbering, Applying, serverVars
<1>5. ASSUME NEW d \in Devices, Deliver(d) PROVE Numbering'
  <2>1. /\ seq' \in Nat /\ seq <= seq' /\ seqOf' \in [Records -> Nat]
        /\ \A i \in Records : seqOf[i] <= seqOf'[i] /\ seqOf'[i] <= seq'
    BY <1>5, DeliverNumbers
  <2>2. /\ UNCHANGED <<cursor, next>> /\ pc'[d] = "ack"
        /\ \A e \in Devices \ {d} : pc'[e] = pc[e]
    BY <1>0, <1>5 DEF Deliver, Goto, storeVars
  <2>3. ASSUME NEW e \in Devices PROVE
          /\ cursor'[e] <= seq'
          /\ Applying(e)' => /\ cursor'[e] <= next'[e] /\ next'[e] <= seq'
                             /\ cursor'[e] < next'[e] =>
                                  \E j \in Records : next'[e] <= seqOf'[j]
    <3>1. cursor[e] <= seq
      BY DEF Numbering
    <3>2. Applying(e)' => Applying(e)
      BY <2>2 DEF Applying
    <3> QED BY <1>0, <2>1, <2>2, <3>1, <3>2 DEF Numbering
  <2> QED BY <2>1, <2>3 DEF Numbering
<1>6. ASSUME NEW d \in Devices, Edit(d) PROVE Numbering'
  BY <1>1, <1>6, EditFrame DEF engineVars
<1>7. ASSUME NEW d \in Devices, StartCycle(d) \/ Collect(d) \/ PushDone(d) PROVE Numbering'
  BY <1>0, <1>2, <1>7 DEF StartCycle, Collect, PushDone, Goto, storeVars
<1>8. ASSUME NEW d \in Devices, NEW i \in Records, ApplyRecord(d, i) \/ HandleOutcome(d, i)
      PROVE  Numbering'
  BY <1>1, <1>8 DEF ApplyRecord, HandleOutcome
<1>9. ASSUME NEW d \in Devices, Break(d) PROVE Numbering'
  BY <1>0, <1>2, <1>9 DEF Break, AbortCycle, Crash, TornApply, TornFolder, DropCycle, Goto
<1>10. CASE UNCHANGED vars
  BY <1>1, <1>10 DEF vars, storeVars, engineVars
<1> QED
  BY <1>3, <1>4, <1>5, <1>6, <1>7, <1>8, <1>9, <1>10 DEF Next, Cycle

\* The server's numbering holds of every behaviour.
LEMMA Numbered == Spec => []Numbering
<1>1. Init => Numbering
  BY DEF Init, ServerInit, StoreInit, Numbering, Applying
<1>2. TypeOK /\ Numbering /\ [Next]_vars => Numbering'
  BY NumberingStep
<1> QED BY <1>1, <1>2, TypeCorrect, PTL DEF Spec
-----------------------------------------------------------------------------
(***************************************************************************)
(* The change feed.                                                        *)
(***************************************************************************)
\* The feed speaks of the same records and the same order.
LEMMA FeedTerms ==
  /\ Feed!Records = Records /\ Feed!Row = Row /\ Feed!NoRow = NoRow
  /\ \A a, b : Feed!Newer(a, b) <=> Newer(a, b)
<1>1. Feed!Records = Records /\ Feed!NoRow = NoRow
  BY DEF Feed!Records, Records, Feed!NoRow, NoRow
<1>2. Feed!Row = Row
  BY DEF Feed!Row, Row, Feed!Kinds, Kinds, Feed!SnippetKinds, SnippetKinds
<1>3. \A a, b : Feed!Newer(a, b) <=> Newer(a, b)
  BY DEF Feed!Newer, Newer
<1> QED BY <1>1, <1>2, <1>3

\* A push publishes what it got accepted.
LEMMA DeliverPublishes ==
  ASSUME TypeOK, Numbering, NEW d \in Devices, Deliver(d)
  PROVE  Feed!Next
<1> DEFINE A == Accepted(UserOf[d], batch[d])
<1>1. UserOf[d] \in Users /\ batch[d] \in [Records -> Row] /\ ServerTypeOK
  BY ServerConstants DEF TypeOK
<1>2. Merge(UserOf[d], batch[d]) /\ UNCHANGED cursor
  BY DEF Deliver, storeVars
<1>3. /\ ServerTypeOK'
      /\ \A i \in A : /\ i \in Records /\ rec'[i] = batch[d][i] /\ Newer(batch[d][i], rec[i])
                      /\ seq < seqOf'[i]
                      /\ \A j \in A : i # j => seqOf'[i] # seqOf'[j]
      /\ \A i \in Records \ A : rec'[i] = rec[i] /\ seqOf'[i] = seqOf[i]
  BY <1>1, <1>2, MergeEffect
<1>4. A \in SUBSET Records
  BY <1>3
<1>5. \A i \in A, e \in Devices : cursor[e] < seqOf'[i]
  <2> SUFFICES ASSUME NEW i \in A, NEW e \in Devices PROVE cursor[e] < seqOf'[i]
    OBVIOUS
  <2>1. cursor[e] \in Nat /\ seq \in Nat /\ seqOf'[i] \in Nat
    BY <1>3 DEF TypeOK, StoreTypeOK, ServerTypeOK
  <2>2. cursor[e] <= seq /\ seq < seqOf'[i]
    BY <1>3 DEF Numbering
  <2> QED BY <2>1, <2>2
<1>6. \A i \in A, j \in Records : seqOf[j] < seqOf'[i]
  <2> SUFFICES ASSUME NEW i \in A, NEW j \in Records PROVE seqOf[j] < seqOf'[i]
    OBVIOUS
  <2>1. seqOf[j] \in Nat /\ seq \in Nat /\ seqOf'[i] \in Nat
    BY <1>3 DEF TypeOK, ServerTypeOK
  <2>2. seqOf[j] <= seq /\ seq < seqOf'[i]
    BY <1>3 DEF Numbering
  <2> QED BY <2>1, <2>2
<1>7. Feed!Publish(A)
  <2>1. rec' \in [Records -> Row] /\ seqOf' \in [Records -> Nat]
    BY <1>3 DEF ServerTypeOK
  <2>2. \A i \in A : Newer(rec'[i], rec[i])
    BY <1>3
  <2>3. /\ \A i \in A, j \in Records : seqOf'[i] > seqOf[j]
        /\ \A i \in A, e \in Devices : seqOf'[i] > cursor[e]
    BY <1>5, <1>6
  <2> HIDE DEF A
  <2> QED BY <1>2, <1>3, <2>1, <2>2, <2>3, FeedTerms DEF Feed!Publish
<1> HIDE DEF A
<1> QED BY <1>4, <1>7, FeedTerms DEF Feed!Next

\* A reader stores the cursor of the page it has applied.
LEMMA CursorAdvances ==
  ASSUME TypeOK, Numbering, NEW d \in Devices, StoreCursor(d)
  PROVE  Feed!Next \/ UNCHANGED Feed!feedVars
<1>1. /\ UNCHANGED <<rec, seqOf>> /\ cursor' = [cursor EXCEPT ![d] = next[d]] /\ Applying(d)
  BY DEF StoreCursor, serverVars
<1>2. cursor \in [Devices -> Nat] /\ next[d] \in Nat
  BY DEF TypeOK, StoreTypeOK
<1>3. CASE cursor[d] < next[d]
  <2>1. \E i \in Records : next[d] <= seqOf[i]
    BY <1>1, <1>3 DEF Numbering
  <2>2. cursor' = [cursor EXCEPT ![d] = cursor'[d]] /\ cursor'[d] = next[d]
    BY <1>1, <1>2
  <2>3. Feed!Advance(d)
    BY <1>1, <1>3, <2>1, <2>2, FeedTerms DEF Feed!Advance
  <2> QED BY <2>3 DEF Feed!Next
<1>4. CASE cursor[d] = next[d]
  <2>1. cursor' = cursor
    BY <1>1, <1>2, <1>4
  <2> QED BY <1>1, <2>1 DEF Feed!feedVars
<1>5. cursor[d] <= next[d]
  BY <1>1 DEF Numbering
<1> QED BY <1>2, <1>3, <1>4, <1>5

\* The server and the cursors are a change feed: a reader who asks for what
\* follows its cursor misses nothing, whatever the devices and the network do.
THEOREM FeedImplemented == Spec => ImplementsFeed
<1>1. Init => Feed!Init
  BY FeedTerms DEF Init, ServerInit, StoreInit, Feed!Init
<1>2. ASSUME TypeOK, Numbering, [Next]_vars PROVE [Feed!Next]_(Feed!feedVars)
  <2>1. CASE UNCHANGED <<serverVars, cursor>>
    BY <2>1 DEF serverVars, Feed!feedVars
  <2>2. ASSUME NEW d \in Devices, Edit(d) PROVE [Feed!Next]_(Feed!feedVars)
    BY <2>1, <2>2, EditFrame
  <2>3. ASSUME NEW d \in Devices, Cycle(d) PROVE [Feed!Next]_(Feed!feedVars)
    <3>1. CASE Deliver(d)
      BY <1>2, <3>1, DeliverPublishes
    <3>2. CASE StoreCursor(d)
      BY <1>2, <3>2, CursorAdvances
    <3>3. CASE StartCycle(d) \/ Fetch(d) \/ Collect(d) \/ PushDone(d)
      BY <2>1, <3>3 DEF StartCycle, Fetch, Collect, PushDone, storeVars
    <3>4. ASSUME NEW i \in Records, ApplyRecord(d, i) \/ HandleOutcome(d, i)
          PROVE  [Feed!Next]_(Feed!feedVars)
      BY <2>1, <3>4 DEF ApplyRecord, HandleOutcome
    <3> QED BY <2>3, <3>1, <3>2, <3>3, <3>4 DEF Cycle
  <2>4. ASSUME NEW d \in Devices, Break(d) PROVE [Feed!Next]_(Feed!feedVars)
    BY <2>1, <2>4 DEF Break, AbortCycle, Crash, TornApply, TornFolder, DropCycle
  <2>5. CASE UNCHANGED vars
    BY <2>1, <2>5 DEF vars, storeVars
  <2> QED BY <1>2, <2>2, <2>3, <2>4, <2>5 DEF Next
<1> QED BY <1>1, <1>2, Numbered, TypeCorrect, PTL DEF Spec, ImplementsFeed, Feed!Spec

\* A row's stamp is a pair of numbers; the absent row's is <<0, 0>>.
LEMMA StampTypes ==
  /\ \A r \in Row : r.ts \in Nat /\ r.ver \in Nat
  /\ NoRow.ts = 0 /\ NoRow.ver = 0
BY DEF Row, NoRow
-----------------------------------------------------------------------------
(***************************************************************************)
(* Who wrote what: two copies of a record that carry the same instant are  *)
(* the same record, whichever device, page, push or answer holds them.     *)
(* This needs neither IndInv nor its assumptions, only that no two devices *)
(* see the same instant.                                                   *)
(***************************************************************************)
\* A row but for its folder, which a device may have to clear by itself.
Bare(r) == [r EXCEPT !.grp = NoGroup]

\* Every copy of record i there is, the absent row included.
Copies(i) ==
  {NoRow, rec[i]} \cup
  UNION {{row[d][i], page[d][i], batch[d][i], reply[d][i]} : d \in Devices}

\* A device's clock has been through every instant of its that a copy carries.
Timed == \A i \in Records : \A a \in Copies(i), d \in Devices : a.ts \in Stamps[d] => a.ts <= clock[d]

Authored == /\ \A i \in Records : \A a, b \in Copies(i) : a.ts = b.ts => Bare(a) = Bare(b)
            /\ Timed

\* A folder's row is a folder's, so that it may travel.
GroupKinds == \A g \in Groups : \A a \in Copies(g) : Syncable(a)

\* No two devices see the same instant.
DistinctClocks == \A d, e \in Devices : d # e => Stamps[d] \cap Stamps[e] = {}

\* Clearing the folder leaves every other field alone.
LEMMA BareFields ==
  ASSUME NEW a \in Row
  PROVE  /\ Bare(a) \in Row /\ Bare(a).ts = a.ts /\ Bare(a).ver = a.ver /\ Bare(a).kind = a.kind
         /\ Bare(Bare(a)) = Bare(a)
BY DEF Bare, Row

\* Every copy is a row.
LEMMA CopyRows ==
  ASSUME NEW i \in Records
  PROVE  /\ TypeOK => Copies(i) \subseteq Row
         /\ TypeOK' => Copies(i)' \subseteq Row
BY NoRowType DEF Copies, TypeOK, ServerTypeOK, StoreTypeOK

\* Row r of record i says what a copy said before the step.
Known(i, r) == \E o \in Copies(i) : Bare(r) = Bare(o)

\* Device d's user wrote record i in this step.
Written(d, i) ==
  /\ clock'[d] \in Now(d) /\ row'[d][i].ts = clock'[d]
  /\ i \in Groups => row'[d][i].kind \in {"group", row[d][i].kind}

\* Only device d's table and clock move; a row is as it was, but for its folder,
\* or has been written.
Wrote(d) ==
  /\ \A e \in Devices \ {d} : row'[e] = row[e] /\ clock'[e] = clock[e]
  /\ clock[d] <= clock'[d]
  /\ \A i \in Records : Bare(row'[d][i]) = Bare(row[d][i]) \/ Written(d, i)

\* Ungrouping and applying touch the folder only.
LEMMA UngroupBare ==
  ASSUME NEW rows \in [Records -> Row], NEW g \in Groups, NEW i \in Records
  PROVE  Bare(Ungroup(rows, g)[i]) = Bare(rows[i])
BY DEF Ungroup, Bare, Row

\* Applying a remote row (apply_remote_*) stores it, but for a folder.
LEMMA AppliedBare ==
  ASSUME NEW rows \in [Records -> Row], NEW k \in Records, NEW r \in Row, NEW i \in Records
  PROVE  Bare(Applied(rows, k, r)[i]) = Bare(IF i = k THEN r ELSE rows[i])
<1> DEFINE put == [rows EXCEPT ![k] = r]
<1>1. put \in [Records -> Row] /\ put[i] = IF i = k THEN r ELSE rows[i]
  OBVIOUS
<1>2. CASE k \in Groups /\ r.del
  <2>1. Bare(Ungroup(put, k)[i]) = Bare(put[i])
    BY <1>1, <1>2, UngroupBare
  <2> QED BY <1>1, <1>2, <2>1 DEF Applied
<1>3. CASE ~(k \in Groups /\ r.del)
  BY <1>1, <1>3 DEF Applied
<1> QED BY <1>2, <1>3

\* The fields of a row after an edit at instant t.
LEMMA EditFields ==
  ASSUME NEW r \in Row, NEW t \in Nat
  PROVE  /\ Tombstone(r, t).ts = t /\ Tombstone(r, t).kind = r.kind
         /\ \A x : Renamed(r, x, t).ts = t /\ Renamed(r, x, t).kind = r.kind
         /\ \A b : Rescoped(r, b, t).ts = t /\ Rescoped(r, b, t).kind = r.kind
BY DEF Row, Tombstone, Renamed, Rescoped

\* The next instant of a device's clock is a later one.
LEMMA NowInstants ==
  ASSUME TypeOK, NEW d \in Devices
  PROVE  /\ Now(d) \subseteq Nat /\ clock[d] \in Nat
         /\ \A t \in Now(d) : clock[d] <= t /\ t \in Stamps[d]
<1>1. clock[d] \in Nat /\ Stamps[d] \subseteq Nat
  BY StoreConstants DEF TypeOK, StoreTypeOK
<1>2. Now(d) \subseteq Stamps[d] /\ \A t \in Now(d) : t > clock[d]
  BY DEF Now
<1> QED BY <1>1, <1>2

\* An edit of the user writes rows at one later instant of the device's clock.
LEMMA EditWrote == ASSUME TypeOK, NEW d \in Devices, Edit(d) PROVE Wrote(d)
<1>0. /\ row \in [Devices -> [Records -> Row]] /\ clock \in [Devices -> Nat]
      /\ \A i \in Records : row[d][i] \in Row
      /\ Snippets \subseteq Records /\ Groups \subseteq Records /\ Snippets \cap Groups = {}
      /\ Now(d) \subseteq Nat /\ \A t \in Now(d) : clock[d] <= t
  <2>1. row \in [Devices -> [Records -> Row]] /\ clock \in [Devices -> Nat]
    BY DEF TypeOK, StoreTypeOK
  <2>2. \A i \in Records : row[d][i] \in Row
    BY <2>1
  <2>3. /\ Snippets \subseteq Records /\ Groups \subseteq Records
        /\ Snippets \cap Groups = {}
    BY DisjointIds DEF Records
  <2> QED BY <2>1, <2>2, <2>3, NowInstants
<1>1. ASSUME NEW k \in Records, NEW r, NEW t \in Now(d), Write(d, k, r, t), r.ts = t,
             k \in Groups => r.kind \in {"group", row[d][k].kind}
      PROVE  Wrote(d)
  <2>1. /\ row' = [row EXCEPT ![d][k] = r] /\ clock' = [clock EXCEPT ![d] = t]
    BY <1>1 DEF Write
  <2>2. /\ clock'[d] = t /\ row'[d][k] = r /\ \A i \in Records \ {k} : row'[d][i] = row[d][i]
        /\ \A e \in Devices \ {d} : row'[e] = row[e] /\ clock'[e] = clock[e]
    BY <1>0, <2>1
  <2> QED BY <1>0, <1>1, <2>2 DEF Wrote, Written
<1>2. ASSUME NEW rows, row' = [row EXCEPT ![d] = rows], UNCHANGED clock,
             \A i \in Records : Bare(rows[i]) = Bare(row[d][i])
      PROVE  Wrote(d)
  BY <1>0, <1>2 DEF Wrote
<1>3. ASSUME NEW rows, NEW t \in Now(d), row' = [row EXCEPT ![d] = rows],
             clock' = [clock EXCEPT ![d] = t],
             \A i \in Records : \/ Bare(rows[i]) = Bare(row[d][i])
                                \/ rows[i].ts = t /\ rows[i].kind = row[d][i].kind
      PROVE  Wrote(d)
  BY <1>0, <1>3 DEF Wrote, Written
<1>4. ASSUME NEW i \in Snippets, CreateSnippet(d, i) PROVE Wrote(d)
  <2>1. PICK t \in Now(d), k \in KindsUsed, x \in Texts, asked \in TeamAsked,
             g \in LiveGroups(d) \cup {NoGroup} :
          Write(d, i, [ts |-> t, ver |-> 1, del |-> FALSE, team |-> TeamOf(d, k, asked, g),
                       grp |-> g, kind |-> k, text |-> x], t)
    BY <1>4 DEF CreateSnippet
  <2> QED BY <1>0, <1>1, <2>1
<1>5. ASSUME NEW i \in Snippets, UpdateRead(d, i) PROVE Wrote(d)
  BY <1>0, <1>5 DEF UpdateRead, Wrote
<1>6. ASSUME NEW i \in Snippets, UpdateWrite(d, i) PROVE Wrote(d)
  <2>1. PICK t \in Now(d), k \in KindsUsed, x \in Texts, asked \in TeamAsked,
             g \in LiveGroups(d) \cup {NoGroup} :
          Write(d, i, [ts |-> t, ver |-> saving[d][i] + 1, del |-> row[d][i].del,
                       team |-> TeamOf(d, k, asked, g), grp |-> g, kind |-> k, text |-> x], t)
    BY <1>6 DEF UpdateWrite
  <2> QED BY <1>0, <1>1, <2>1
<1>7. ASSUME NEW i \in Snippets, SoftDelete(d, i) PROVE Wrote(d)
  <2>1. PICK t \in Now(d) : Write(d, i, Tombstone(row[d][i], t), t)
    BY <1>7 DEF SoftDelete
  <2>2. t \in Nat /\ i \in Records /\ row[d][i] \in Row
    BY <1>0
  <2>3. Tombstone(row[d][i], t).ts = t /\ Tombstone(row[d][i], t).kind = row[d][i].kind
    BY <2>2, EditFields
  <2> QED BY <1>1, <2>1, <2>2, <2>3
<1>8. ASSUME NEW g \in Groups, CreateGroup(d, g) PROVE Wrote(d)
  <2>1. PICK t \in Now(d), x \in Texts :
          Write(d, g, [ts |-> t, ver |-> 1, del |-> FALSE, team |-> FALSE,
                       grp |-> NoGroup, kind |-> "group", text |-> x], t)
    BY <1>8 DEF CreateGroup
  <2> QED BY <1>0, <1>1, <2>1
<1>9. ASSUME NEW g \in Groups, UpdateGroup(d, g) PROVE Wrote(d)
  <2>1. PICK t \in Now(d), x \in Texts : Write(d, g, Renamed(row[d][g], x, t), t)
    BY <1>9 DEF UpdateGroup
  <2>2. t \in Nat /\ g \in Records /\ row[d][g] \in Row
    BY <1>0
  <2>3. Renamed(row[d][g], x, t).ts = t /\ Renamed(row[d][g], x, t).kind = row[d][g].kind
    BY <2>2, EditFields
  <2> QED BY <1>1, <2>1, <2>2, <2>3
<1>10. ASSUME NEW g \in Groups, SoftDeleteGroup(d, g) PROVE Wrote(d)
  <2> DEFINE bare == Ungroup(row[d], g)
  <2>1. /\ row[d] \in [Records -> Row] /\ g \in Records
        /\ \A i \in Records : bare[i] \in Row /\ Bare(bare[i]) = Bare(row[d][i])
    BY <1>0, UngroupRows, UngroupBare
  <2>2. bare[g].kind = row[d][g].kind
    BY <1>0, <2>1, BareFields
  <2>3. ASSUME NEW t \in Now(d),
               row' = [row EXCEPT ![d] = [bare EXCEPT ![g] = Tombstone(@, t)]],
               clock' = [clock EXCEPT ![d] = t]
        PROVE  Wrote(d)
    <3>1. Tombstone(bare[g], t).ts = t /\ Tombstone(bare[g], t).kind = row[d][g].kind
      BY <1>0, <2>1, <2>2, EditFields
    <3>2. bare \in [Records -> Row]
      BY <2>1, UngroupRows
    <3>3. \A i \in Records : \/ Bare([bare EXCEPT ![g] = Tombstone(@, t)][i]) = Bare(row[d][i])
                             \/ /\ [bare EXCEPT ![g] = Tombstone(@, t)][i].ts = t
                                /\ [bare EXCEPT ![g] = Tombstone(@, t)][i].kind = row[d][i].kind
      <4> HIDE DEF bare
      <4> QED BY <2>1, <3>1, <3>2
    <3> HIDE DEF bare
    <3> QED BY <1>3, <2>3, <3>3
  <2>4. CASE row' = [row EXCEPT ![d] = bare] /\ UNCHANGED clock
    <3> HIDE DEF bare
    <3> QED BY <1>2, <2>1, <2>4
  <2> QED BY <1>10, <2>3, <2>4 DEF SoftDeleteGroup
<1>11. ASSUME NEW g \in Groups, NEW b \in BOOLEAN, SetGroupTeam(d, g, b) PROVE Wrote(d)
  <2>1. PICK t \in Now(d) :
          /\ row' = [row EXCEPT ![d] = [i \in Records |->
                       IF i \in Following(d, g) THEN Rescoped(row[d][i], b, t) ELSE row[d][i]]]
          /\ clock' = [clock EXCEPT ![d] = t]
    BY <1>11 DEF SetGroupTeam
  <2> DEFINE rows == [i \in Records |->
                       IF i \in Following(d, g) THEN Rescoped(row[d][i], b, t) ELSE row[d][i]]
  <2>2. \A i \in Records : /\ Rescoped(row[d][i], b, t).ts = t
                           /\ Rescoped(row[d][i], b, t).kind = row[d][i].kind
    BY <1>0, EditFields
  <2>3. \A i \in Records : \/ Bare(rows[i]) = Bare(row[d][i])
                           \/ rows[i].ts = t /\ rows[i].kind = row[d][i].kind
    BY <2>2
  <2>4. row' = [row EXCEPT ![d] = rows]
    BY <2>1
  <2> HIDE DEF rows
  <2> QED BY <1>3, <2>1, <2>3, <2>4
<1> QED
  BY <1>4, <1>5, <1>6, <1>7, <1>8, <1>9, <1>10, <1>11 DEF Edit, UserEdit

\* So does a folder call the application dies in.
LEMMA TornFolderWrote ==
  ASSUME TypeOK, NEW d \in Devices, NEW g \in Groups, TornFolder(d, g) PROVE Wrote(d)
<1>0. /\ row \in [Devices -> [Records -> Row]] /\ clock \in [Devices -> Nat]
      /\ row[d] \in [Records -> Row] /\ g \in Records
      /\ Now(d) \subseteq Nat /\ \A t \in Now(d) : clock[d] <= t
  BY NowInstants DEF TypeOK, StoreTypeOK, Records
<1>1. ASSUME NEW t \in Now(d), NEW shared \in BOOLEAN,
             row' = [row EXCEPT ![d][g] = Rescoped(row[d][g], shared, t)],
             clock' = [clock EXCEPT ![d] = t]
      PROVE  Wrote(d)
  <2>1. /\ Rescoped(row[d][g], shared, t).ts = t
        /\ Rescoped(row[d][g], shared, t).kind = row[d][g].kind
    BY <1>0, EditFields
  <2>2. /\ clock'[d] = t /\ row'[d][g] = Rescoped(row[d][g], shared, t)
        /\ \A i \in Records \ {g} : row'[d][i] = row[d][i]
        /\ \A e \in Devices \ {d} : row'[e] = row[e] /\ clock'[e] = clock[e]
    BY <1>0, <1>1
  <2> QED BY <1>0, <2>1, <2>2 DEF Wrote, Written
<1>2. CASE row' = [row EXCEPT ![d] = Ungroup(row[d], g)] /\ UNCHANGED clock
  <2>1. \A i \in Records : Bare(Ungroup(row[d], g)[i]) = Bare(row[d][i])
    BY <1>0, UngroupBare
  <2> QED BY <1>0, <1>2, <2>1 DEF Wrote
<1> QED BY <1>1, <1>2 DEF TornFolder

\* Nothing is written; every copy is a copy of before, but for its folder.
Copied == /\ \A e \in Devices : clock'[e] = clock[e]
          /\ \A i \in Records : \A r \in Copies(i)' : Known(i, r)

\* Device d's user wrote; every other copy is a copy of before.
WroteOne(d) ==
  /\ \A e \in Devices \ {d} : clock'[e] = clock[e]
  /\ clock[d] <= clock'[d]
  /\ \A i \in Records : \A r \in Copies(i)' :
       Known(i, r) \/ (r = row'[d][i] /\ Written(d, i))

\* What is where, without the sets.
LEMMA CopyPlaces ==
  ASSUME NEW i \in Records, NEW d \in Devices
  PROVE  {NoRow, rec[i], row[d][i], page[d][i], batch[d][i], reply[d][i]} \subseteq Copies(i)
BY DEF Copies

\* One place after another.
LEMMA CopiesFrom ==
  ASSUME NEW i \in Records, NEW r \in Copies(i)'
  PROVE  \/ r = NoRow \/ r = rec'[i]
         \/ \E e \in Devices : r \in {row'[e][i], page'[e][i], batch'[e][i], reply'[e][i]}
BY DEF Copies

\* If only d's table moves and the engine keeps or drops what it holds, d wrote.
LEMMA WroteCopies ==
  ASSUME TypeOK, NEW d \in Devices, Wrote(d), UNCHANGED rec,
         \A i \in Records, e \in Devices :
           {page'[e][i], batch'[e][i], reply'[e][i]}
             \subseteq {page[e][i], batch[e][i], reply[e][i], NoRow}
  PROVE  WroteOne(d)
<1>1. ASSUME NEW i \in Records, NEW r \in Copies(i)'
      PROVE  Known(i, r) \/ (r = row'[d][i] /\ Written(d, i))
  <2>1. CASE r = NoRow \/ r = rec'[i]
    BY <2>1, CopyPlaces DEF Known
  <2>2. ASSUME NEW e \in Devices, r \in {page'[e][i], batch'[e][i], reply'[e][i]}
        PROVE  Known(i, r)
    BY <2>2, CopyPlaces DEF Known
  <2>3. ASSUME NEW e \in Devices, r = row'[e][i], e # d PROVE Known(i, r)
    BY <2>3, CopyPlaces DEF Known, Wrote
  <2>4. ASSUME r = row'[d][i] PROVE Known(i, r) \/ Written(d, i)
    BY <2>4, CopyPlaces DEF Known, Wrote
  <2> QED BY <2>1, <2>2, <2>3, <2>4, CopiesFrom
<1> QED BY <1>1 DEF WroteOne, Wrote

\* If every place holds a copy of before, nothing has been written.
LEMMA MovedCopies ==
  ASSUME UNCHANGED clock,
         \A i \in Records : Known(i, rec'[i]),
         \A i \in Records, e \in Devices :
           /\ Known(i, row'[e][i]) /\ Known(i, page'[e][i])
           /\ Known(i, batch'[e][i]) /\ Known(i, reply'[e][i])
  PROVE  Copied
<1>1. ASSUME NEW i \in Records, NEW r \in Copies(i)' PROVE Known(i, r)
  <2>1. CASE r = NoRow
    BY <2>1 DEF Known, Copies
  <2> QED BY <1>1, <2>1, CopiesFrom
<1> QED BY <1>1 DEF Copied

\* A copy is known.
LEMMA CopyKnown ==
  ASSUME NEW i \in Records, NEW r \in Copies(i) PROVE Known(i, r)
BY DEF Known

\* An applied record is a copy that has moved to the table.
LEMMA RemoteKnown ==
  ASSUME TypeOK, NEW d \in Devices, NEW k \in Records, NEW r \in Copies(k),
         \/ row' = row
         \/ row' = [row EXCEPT ![d][k] = r]
         \/ row' = [row EXCEPT ![d] = Applied(row[d], k, r)],
         NEW i \in Records, NEW e \in Devices
  PROVE  Known(i, row'[e][i])
<1>1. row \in [Devices -> [Records -> Row]] /\ row[d] \in [Records -> Row] /\ r \in Row
  BY CopyRows DEF TypeOK, StoreTypeOK
<1>2. Known(i, row[e][i])
  BY CopyPlaces, CopyKnown
<1>3. Known(k, r)
  BY CopyKnown
<1>4. Bare(Applied(row[d], k, r)[i]) = Bare(IF i = k THEN r ELSE row[d][i])
  BY <1>1, AppliedBare
<1>5. CASE row' = [row EXCEPT ![d] = Applied(row[d], k, r)]
  <2>1. row'[e][i] = IF e = d THEN Applied(row[d], k, r)[i] ELSE row[e][i]
    BY <1>1, <1>5
  <2> QED BY <1>2, <1>3, <1>4, <2>1 DEF Known
<1>6. CASE row' = [row EXCEPT ![d][k] = r]
  <2>1. row'[e][i] = IF e = d /\ i = k THEN r ELSE row[e][i]
    BY <1>1, <1>6
  <2> QED BY <1>2, <1>3, <2>1
<1> QED BY <1>2, <1>5, <1>6

\* The places of the engine, as long as they hold copies of before or nothing.
EngineKnown ==
  \A i \in Records, e \in Devices :
    /\ page'[e][i] \in Copies(i) /\ batch'[e][i] \in Copies(i) /\ reply'[e][i] \in Copies(i)

\* The same when the tables stand still.
LEMMA EngineCopies ==
  ASSUME UNCHANGED <<rec, row, clock>>, EngineKnown PROVE Copied
<1>1. \A i \in Records : Known(i, rec'[i])
  BY CopyKnown DEF Copies
<1>2. \A i \in Records, e \in Devices : Known(i, row'[e][i])
  BY CopyPlaces, CopyKnown
<1>3. \A i \in Records, e \in Devices :
        Known(i, page'[e][i]) /\ Known(i, batch'[e][i]) /\ Known(i, reply'[e][i])
  BY CopyKnown DEF EngineKnown
<1> QED BY <1>1, <1>2, <1>3, MovedCopies

\* A cycle that is dropped leaves nothing of device d's engine.
LEMMA DropKnown ==
  ASSUME TypeOK, NEW d \in Devices, DropCycle(d)
  PROVE  /\ rec' = rec
         /\ \A i \in Records, e \in Devices :
              {page'[e][i], batch'[e][i], reply'[e][i]}
                \subseteq {page[e][i], batch[e][i], reply[e][i], NoRow}
BY DEF TypeOK, DropCycle, Nothing, serverVars

\* A cycle only copies: it never makes a row up.
LEMMA CycleCopies ==
  ASSUME TypeOK, Numbering, NEW d \in Devices, Cycle(d) PROVE Copied
<1> USE DEF serverVars, storeVars
<1>0. /\ page \in [Devices -> [Records -> Row]] /\ batch \in [Devices -> [Records -> Row]]
      /\ reply \in [Devices -> [Records -> Row]]
  BY DEF TypeOK
<1>1. \A i \in Records, e \in Devices :
        {NoRow, rec[i], row[e][i], page[e][i], batch[e][i], reply[e][i]} \subseteq Copies(i)
  BY CopyPlaces
<1>2. CASE StartCycle(d)
  <2>1. UNCHANGED <<rec, row, clock, page, batch, reply>>
    BY <1>2 DEF StartCycle
  <2> QED BY <1>1, <2>1, EngineCopies DEF EngineKnown
<1>3. CASE Fetch(d)
  <2>1. PICK n : page' = [page EXCEPT ![d] = PageRows(cursor[d], n)]
    BY <1>3 DEF Fetch
  <2>2. UNCHANGED <<rec, row, clock, batch, reply>>
    BY <1>3 DEF Fetch
  <2>3. \A i \in Records, e \in Devices : page'[e][i] \in {page[e][i], rec[i], NoRow}
    BY <1>0, <2>1 DEF PageRows
  <2> QED BY <1>1, <2>2, <2>3, EngineCopies DEF EngineKnown
<1>4. CASE StoreCursor(d)
  <2>1. UNCHANGED <<rec, row, clock, page, batch, reply>>
    BY <1>4 DEF StoreCursor
  <2> QED BY <1>1, <2>1, EngineCopies DEF EngineKnown
<1>5. CASE Collect(d)
  <2>1. UNCHANGED <<rec, row, clock, page, reply>>
    BY <1>5 DEF Collect
  <2>2. \A i \in Records, e \in Devices : batch'[e][i] \in {batch[e][i], row[e][i], NoRow}
    <3>1. CASE ToSend(d) = {}
      BY <1>5, <3>1 DEF Collect
    <3>2. CASE ToSend(d) # {}
      <4>1. PICK S \in SUBSET ToSend(d) :
              batch' = [batch EXCEPT ![d] = [j \in Records |->
                         IF j \in S THEN row[d][j] ELSE NoRow]]
        BY <1>5, <3>2 DEF Collect
      <4> QED BY <1>0, <4>1
    <3> QED BY <3>1, <3>2
  <2> QED BY <1>1, <2>1, <2>2, EngineCopies DEF EngineKnown
<1>6. CASE Deliver(d)
  <2>1. UNCHANGED <<row, clock, page, batch>>
    BY <1>6 DEF Deliver
  <2>2. \A i \in Records : rec'[i] \in {rec[i], batch[d][i]}
    BY <1>6, DeliverNumbers
  <2>3. \A i \in Records, e \in Devices : reply'[e][i] \in {reply[e][i], rec[i], NoRow}
    BY <1>0, <1>6 DEF Deliver
  <2> QED BY <1>1, <2>1, <2>2, <2>3, MovedCopies, CopyKnown
<1>7. CASE PushDone(d)
  <2>1. UNCHANGED <<rec, row, clock, page, reply>>
    BY <1>7 DEF PushDone
  <2>2. \A i \in Records, e \in Devices : batch'[e][i] \in {batch[e][i], NoRow}
    BY <1>0, <1>7 DEF PushDone, Nothing
  <2> QED BY <1>1, <2>1, <2>2, EngineCopies DEF EngineKnown
<1>8. ASSUME UNCHANGED <<rec, clock, batch>>, NEW k \in Records, NEW r \in Copies(k),
             \/ row' = row
             \/ row' = [row EXCEPT ![d][k] = r]
             \/ row' = [row EXCEPT ![d] = Applied(row[d], k, r)],
             \A i \in Records, e \in Devices : /\ page'[e][i] \in {page[e][i], NoRow}
                                               /\ reply'[e][i] \in {reply[e][i], NoRow}
      PROVE  Copied
  <2>1. \A i \in Records, e \in Devices : Known(i, row'[e][i])
    BY <1>8, RemoteKnown
  <2>2. \A i \in Records, e \in Devices :
          Known(i, page'[e][i]) /\ Known(i, batch'[e][i]) /\ Known(i, reply'[e][i])
    BY <1>1, <1>8, CopyKnown
  <2>3. \A i \in Records : Known(i, rec'[i])
    BY <1>8, CopyKnown DEF Copies
  <2> QED BY <1>8, <2>1, <2>2, <2>3, MovedCopies
<1>9. ASSUME NEW k \in Records, ApplyRecord(d, k) PROVE Copied
  <2>1. UNCHANGED <<rec, clock, batch, reply>> /\ ApplyRemote(d, k, page[d][k])
    BY <1>9 DEF ApplyRecord
  <2>2. \A i \in Records, e \in Devices : page'[e][i] \in {page[e][i], NoRow}
    BY <1>0, <1>9 DEF ApplyRecord
  <2>3. row' = row \/ row' = [row EXCEPT ![d] = Applied(row[d], k, page[d][k])]
    BY <2>1 DEF ApplyRemote
  <2>4. page[d][k] \in Copies(k)
    BY <1>1
  <2> QED BY <1>8, <2>1, <2>2, <2>3, <2>4
<1>10. ASSUME NEW k \in Records, HandleOutcome(d, k) PROVE Copied
  <2>1. UNCHANGED <<rec, clock, batch, page>>
    BY <1>10 DEF HandleOutcome
  <2>2. \A i \in Records, e \in Devices : reply'[e][i] \in {reply[e][i], NoRow}
    BY <1>0, <1>10 DEF HandleOutcome
  <2>3. row' = row \/ row' = [row EXCEPT ![d] = Applied(row[d], k, reply[d][k])]
    BY <1>10 DEF HandleOutcome, ApplyRemote, MarkPushed
  <2>4. reply[d][k] \in Copies(k)
    BY <1>1
  <2> QED BY <1>8, <2>1, <2>2, <2>3, <2>4
<1> QED BY <1>2, <1>3, <1>4, <1>5, <1>6, <1>7, <1>9, <1>10 DEF Cycle

\* A fault copies, drops, or leaves an edit of one folder half done.
LEMMA BreakCopies ==
  ASSUME TypeOK, NEW d \in Devices, Break(d) PROVE Copied \/ WroteOne(d)
<1>0. \A i \in Records, e \in Devices :
        {NoRow, rec[i], row[e][i], page[e][i], batch[e][i], reply[e][i]} \subseteq Copies(i)
  BY CopyPlaces
<1>1. DropCycle(d)
  BY DEF Break, AbortCycle, Crash, TornApply, TornFolder
<1>2. /\ rec' = rec
      /\ \A i \in Records, e \in Devices :
           {page'[e][i], batch'[e][i], reply'[e][i]}
             \subseteq {page[e][i], batch[e][i], reply[e][i], NoRow}
  BY <1>1, DropKnown
<1>3. CASE AbortCycle(d) \/ Crash(d)
  <2>1. UNCHANGED <<row, clock>>
    BY <1>3 DEF AbortCycle, Crash
  <2> QED BY <1>0, <1>2, <2>1, EngineCopies DEF EngineKnown
<1>4. ASSUME NEW k \in Records, TornApply(d, k) PROVE Copied
  <2>1. PICK r \in {page[d][k], reply[d][k]} :
          \/ row' = [row EXCEPT ![d][k] = r]
          \/ row' = [row EXCEPT ![d] = Applied(row[d], k, r)]
    BY <1>4 DEF TornApply
  <2>2. r \in Copies(k) /\ UNCHANGED clock
    BY <1>0, <1>4 DEF TornApply
  <2>3. \A i \in Records, e \in Devices : Known(i, row'[e][i])
    BY <2>1, <2>2, RemoteKnown
  <2>4. \A i \in Records, e \in Devices :
          Known(i, page'[e][i]) /\ Known(i, batch'[e][i]) /\ Known(i, reply'[e][i])
    BY <1>0, <1>2, CopyKnown
  <2>5. \A i \in Records : Known(i, rec'[i])
    BY <1>2, CopyKnown DEF Copies
  <2> QED BY <2>2, <2>3, <2>4, <2>5, MovedCopies
<1>5. ASSUME NEW g \in Groups, TornFolder(d, g) PROVE WroteOne(d)
  BY <1>2, <1>5, TornFolderWrote, WroteCopies
<1> QED BY <1>3, <1>4, <1>5 DEF Break

\* Every step copies, or is the edit of one device.
LEMMA StepCopies ==
  ASSUME TypeOK, Numbering, [Next]_vars PROVE Copied \/ \E d \in Devices : WroteOne(d)
<1>1. ASSUME NEW d \in Devices, Edit(d) PROVE WroteOne(d)
  <2>1. Wrote(d) /\ UNCHANGED <<rec, page, batch, reply>>
    BY <1>1, EditWrote, EditFrame DEF serverVars, engineVars
  <2> QED BY <2>1, WroteCopies
<1>2. ASSUME NEW d \in Devices, Cycle(d) \/ Break(d) PROVE Copied \/ WroteOne(d)
  BY <1>2, CycleCopies, BreakCopies
<1>3. CASE UNCHANGED vars
  <2>1. UNCHANGED <<rec, row, clock, page, batch, reply>>
    BY <1>3 DEF vars, serverVars, storeVars, engineVars
  <2>2. EngineKnown
    BY <2>1, CopyPlaces DEF EngineKnown
  <2> QED BY <2>1, <2>2, EngineCopies
<1> QED BY <1>1, <1>2, <1>3 DEF Next

-----------------------------------------------------------------------------
\* Copying keeps equal instants equal edits; an edit has an instant of its own.
LEMMA AuthoredStep ==
  ASSUME DistinctClocks, TypeOK, TypeOK', Numbering, Authored, [Next]_vars PROVE Authored'
<1>0. /\ \A i \in Records : \A r \in Copies(i) : r \in Row /\ r.ts \in Nat
      /\ \A i \in Records : \A r \in Copies(i)' : r \in Row /\ r.ts \in Nat
      /\ \A d \in Devices : clock[d] \in Nat /\ clock'[d] \in Nat
  BY CopyRows, StampTypes DEF TypeOK, StoreTypeOK
\* What a known row is and carries.
<1>1. ASSUME NEW i \in Records, NEW r \in Row, Known(i, r)
      PROVE  \E o \in Copies(i) : Bare(r) = Bare(o) /\ r.ts = o.ts
  BY <1>0, <1>1, BareFields DEF Known
<1>2. CASE Copied
  <2>1. ASSUME NEW i \in Records, NEW a \in Copies(i)', NEW b \in Copies(i)', a.ts = b.ts
        PROVE  Bare(a) = Bare(b)
    <3>1. PICK o \in Copies(i) : Bare(a) = Bare(o) /\ a.ts = o.ts
      BY <1>0, <1>1, <1>2 DEF Copied
    <3>2. PICK p \in Copies(i) : Bare(b) = Bare(p) /\ b.ts = p.ts
      BY <1>0, <1>1, <1>2 DEF Copied
    <3> QED BY <2>1, <3>1, <3>2 DEF Authored
  <2>2. ASSUME NEW i \in Records, NEW a \in Copies(i)', NEW d \in Devices, a.ts \in Stamps[d]
        PROVE  a.ts <= clock'[d]
    <3>1. PICK o \in Copies(i) : Bare(a) = Bare(o) /\ a.ts = o.ts
      BY <1>0, <1>1, <1>2 DEF Copied
    <3> QED BY <1>2, <2>2, <3>1 DEF Authored, Timed, Copied
  <2> QED BY <2>1, <2>2 DEF Authored, Timed
<1>3. ASSUME NEW d \in Devices, WroteOne(d) PROVE Authored'
  <2>1. ASSUME NEW i \in Records, NEW r \in Copies(i)', Known(i, r), Written(d, i)
        PROVE  r.ts # clock'[d]
    <3>1. PICK o \in Copies(i) : Bare(r) = Bare(o) /\ r.ts = o.ts
      BY <1>0, <1>1, <2>1
    <3>2. clock'[d] \in Stamps[d] /\ clock[d] < clock'[d]
      BY <1>0, <2>1 DEF Written, Now
    <3> QED BY <1>0, <3>1, <3>2 DEF Authored, Timed
  <2>2. ASSUME NEW i \in Records, NEW a \in Copies(i)', NEW b \in Copies(i)', a.ts = b.ts
        PROVE  Bare(a) = Bare(b)
    <3>1. CASE Known(i, a) /\ Known(i, b)
      <4>1. PICK o \in Copies(i) : Bare(a) = Bare(o) /\ a.ts = o.ts
        BY <1>0, <1>1, <3>1
      <4>2. PICK p \in Copies(i) : Bare(b) = Bare(p) /\ b.ts = p.ts
        BY <1>0, <1>1, <3>1
      <4> QED BY <2>2, <4>1, <4>2 DEF Authored
    <3>2. ASSUME ~(Known(i, a) /\ Known(i, b)) PROVE a = b
      <4>1. Known(i, a) \/ (a = row'[d][i] /\ Written(d, i))
        BY <1>3 DEF WroteOne
      <4>2. Known(i, b) \/ (b = row'[d][i] /\ Written(d, i))
        BY <1>3 DEF WroteOne
      <4>3. Known(i, a) /\ b = row'[d][i] => FALSE
        BY <2>1, <2>2, <3>2, <4>2 DEF Written
      <4>4. Known(i, b) /\ a = row'[d][i] => FALSE
        BY <2>1, <2>2, <3>2, <4>1 DEF Written
      <4> QED BY <3>2, <4>1, <4>2, <4>3, <4>4
    <3> QED BY <3>1, <3>2
  <2>3. ASSUME NEW i \in Records, NEW a \in Copies(i)', NEW e \in Devices, a.ts \in Stamps[e]
        PROVE  a.ts <= clock'[e]
    <3>1. clock[e] <= clock'[e]
      BY <1>0, <1>3 DEF WroteOne
    <3>2. CASE Known(i, a)
      <4>1. PICK o \in Copies(i) : Bare(a) = Bare(o) /\ a.ts = o.ts
        BY <1>0, <1>1, <3>2
      <4>2. a.ts <= clock[e]
        BY <2>3, <4>1 DEF Authored, Timed
      <4> QED BY <1>0, <3>1, <4>2
    <3>3. CASE a = row'[d][i] /\ Written(d, i)
      <4>1. a.ts = clock'[d] /\ a.ts \in Stamps[d]
        BY <3>3 DEF Written, Now
      <4>2. e = d
        BY <2>3, <4>1 DEF DistinctClocks
      <4> QED BY <1>0, <4>1, <4>2
    <3> QED BY <1>3, <3>2, <3>3 DEF WroteOne
  <2> QED BY <2>2, <2>3 DEF Authored, Timed
<1> QED BY <1>2, <1>3, StepCopies

\* At the start there is only the absent row, and no clock shows its instant 0.
LEMMA InitAuthored == Init => Authored
<1> SUFFICES ASSUME Init PROVE Authored
  OBVIOUS
<1>1. \A i \in Records : \A r \in Copies(i) : r = NoRow
  BY DEF Copies, Init, ServerInit, StoreInit, Nothing
<1>2. \A d \in Devices : 0 \notin Stamps[d]
  BY StoreConstants
<1> QED BY <1>1, <1>2, StampTypes DEF Authored, Timed
-----------------------------------------------------------------------------
(***************************************************************************)
(* What may travel.                                                        *)
(***************************************************************************)
LEMMA KindsStep ==
  ASSUME TypeOK, TypeOK', Numbering, GroupKinds, [Next]_vars PROVE GroupKinds'
<1>0. Groups \subseteq Records
  BY DEF Records
<1>1. ASSUME NEW g \in Groups, NEW r \in Copies(g)', Known(g, r) PROVE Syncable(r)
  <2>1. PICK o \in Copies(g) : Bare(r) = Bare(o)
    BY <1>1 DEF Known
  <2>2. r.kind = o.kind
    BY <1>0, <2>1, CopyRows, BareFields
  <2> QED BY <2>2 DEF GroupKinds, Syncable
<1>2. ASSUME NEW d \in Devices, NEW g \in Groups, Written(d, g) PROVE Syncable(row'[d][g])
  <2>1. Syncable(row[d][g])
    BY <1>0, CopyPlaces DEF GroupKinds
  <2> QED BY <1>2, <2>1 DEF Written, Syncable
<1> QED BY <1>0, <1>1, <1>2, StepCopies DEF GroupKinds, Copied, WroteOne

\* A push is collected from team rows that may travel (push_team's ToSend), and the
\* server stores what a push carries.
LEMMA ScopeStep ==
  ASSUME TypeOK, TypeOK', Numbering, GroupKinds, ScopeRule, [Next]_vars PROVE ScopeRule'
<1>0. /\ batch \in [Devices -> [Records -> Row]] /\ ~Present(NoRow)
      /\ \A d \in Devices, g \in Groups : Syncable(row[d][g])
  <2>1. \A d \in Devices, g \in Groups : row[d][g] \in Copies(g)
    BY CopyPlaces DEF Records
  <2> QED BY <2>1, StampTypes DEF TypeOK, Present, GroupKinds
<1>1. ASSUME UNCHANGED rec, \A e \in Devices, i \in Records : batch'[e][i] \in {batch[e][i], NoRow}
      PROVE  ScopeRule'
  BY <1>0, <1>1 DEF ScopeRule
<1>2. ASSUME NEW d \in Devices, Edit(d) PROVE ScopeRule'
  BY <1>1, <1>2, EditFrame DEF serverVars, engineVars
<1>3. ASSUME NEW d \in Devices, Break(d) PROVE ScopeRule'
  <2>1. DropCycle(d)
    BY <1>3 DEF Break, AbortCycle, Crash, TornApply, TornFolder
  <2> QED BY <1>1, <2>1, DropKnown DEF DropCycle, Nothing, TypeOK
<1>4. ASSUME NEW d \in Devices, Collect(d) PROVE ScopeRule'
  <2>1. UNCHANGED rec
    BY <1>4 DEF Collect, serverVars
  <2>2. CASE ToSend(d) = {}
    BY <1>1, <1>4, <2>1, <2>2 DEF Collect
  <2>3. CASE ToSend(d) # {}
    <3>1. PICK S \in SUBSET ToSend(d) :
            batch' = [batch EXCEPT ![d] = [j \in Records |->
                       IF j \in S THEN row[d][j] ELSE NoRow]]
      BY <1>4, <2>3 DEF Collect
    <3>2. \A i \in ToSend(d) : row[d][i].team /\ Syncable(row[d][i])
      BY <1>0 DEF ToSend, Dirty, Records
    <3>3. \A i \in Records : Present(batch'[d][i]) => batch'[d][i].team /\ Syncable(batch'[d][i])
      BY <1>0, <3>1, <3>2
    <3>4. \A e \in Devices \ {d} : batch'[e] = batch[e]
      BY <1>0, <3>1
    <3> QED BY <2>1, <3>3, <3>4 DEF ScopeRule
  <2> QED BY <2>2, <2>3
<1>5. ASSUME NEW d \in Devices, Deliver(d) PROVE ScopeRule'
  <2>1. UNCHANGED batch /\ \A i \in Records : rec'[i] \in {rec[i], batch[d][i]}
    BY <1>5, DeliverNumbers DEF Deliver
  <2> QED BY <2>1 DEF ScopeRule
<1>6. ASSUME NEW d \in Devices, PushDone(d) PROVE ScopeRule'
  BY <1>0, <1>1, <1>6 DEF PushDone, Nothing, serverVars
<1>7. ASSUME NEW d \in Devices, StartCycle(d) \/ Fetch(d) \/ StoreCursor(d) PROVE ScopeRule'
  BY <1>1, <1>7 DEF StartCycle, Fetch, StoreCursor, serverVars
<1>8. ASSUME NEW d \in Devices, NEW i \in Records, ApplyRecord(d, i) \/ HandleOutcome(d, i)
      PROVE  ScopeRule'
  BY <1>1, <1>8 DEF ApplyRecord, HandleOutcome, serverVars
<1>9. CASE UNCHANGED vars
  BY <1>1, <1>9 DEF vars, serverVars, engineVars
<1> QED
  BY <1>2, <1>3, <1>4, <1>5, <1>6, <1>7, <1>8, <1>9 DEF Next, Cycle

\* Whatever races, crashes or tears, nothing but team records without executable
\* content is ever sent or stored by the server.
THEOREM OnlyScopedTravels == Spec => []ScopeRule
<1>1. Init => GroupKinds /\ ScopeRule
  <2> SUFFICES ASSUME Init PROVE GroupKinds /\ ScopeRule
    OBVIOUS
  <2>1. ~Present(NoRow) /\ Syncable(NoRow)
    BY DEF Present, Syncable, NoRow
  <2>2. \A i \in Records : \A r \in Copies(i) : r = NoRow
    BY DEF Copies, Init, ServerInit, StoreInit, Nothing
  <2>3. \A i \in Records : rec[i] = NoRow /\ \A d \in Devices : batch[d][i] = NoRow
    BY DEF Init, ServerInit, Nothing
  <2> QED BY <2>1, <2>2, <2>3 DEF GroupKinds, ScopeRule, Records
<1>2. TypeOK /\ TypeOK' /\ Numbering /\ GroupKinds /\ ScopeRule /\ [Next]_vars
        => GroupKinds' /\ ScopeRule'
  BY KindsStep, ScopeStep
<1> QED BY <1>1, <1>2, Numbered, TypeCorrect, PTL DEF Spec

-----------------------------------------------------------------------------
(***************************************************************************)
(* What holds when no `update` races a remote record and no crash tears a  *)
(* store call in two: the theorems that rest on IndInv.                    *)
(***************************************************************************)
(***************************************************************************)
(* IndInv, one device and one record at a time.                            *)
(***************************************************************************)
\* The types a case of the proof needs of device d and record i.
Typed(d, i) ==
  /\ row[d][i] \in Row /\ rec[i] \in Row /\ page[d][i] \in Row
  /\ batch[d][i] \in Row /\ reply[d][i] \in Row
  /\ pushed[d][i] \in Nat /\ cursor[d] \in Nat /\ next[d] \in Nat
  /\ seqOf[i] \in Nat /\ seq \in Nat
  /\ i \in Snippets => saving[d][i] \in Nat

\* TypeOK gives them, before and after a step.
LEMMA TypedRecord ==
  ASSUME NEW d \in Devices, NEW i \in Records
  PROVE  /\ TypeOK => Typed(d, i)
         /\ TypeOK' => Typed(d, i)'
BY DEF Typed, TypeOK, ServerTypeOK, StoreTypeOK

\* What the server does to record i in one step: nothing, or it takes a newer
\* row and gives it a number past every number it has given out.
ServerStep(i) == \/ rec'[i] = rec[i] /\ seqOf'[i] = seqOf[i]
                 \/ Newer(rec'[i], rec[i]) /\ seq < seqOf'[i]

\* An `update` in progress has read the row's version.
ReadIsCurrent(d, i) == i \in Snippets /\ saving[d][i] > 0 => saving[d][i] = row[d][i].ver

\* The engine of device d stands still as far as record i is concerned.
EngineStill(d, i) ==
  /\ pushed'[d][i] = pushed[d][i] /\ cursor'[d] = cursor[d]
  /\ pc'[d] = pc[d] /\ next'[d] = next[d]
  /\ page'[d][i] = page[d][i] /\ batch'[d][i] = batch[d][i]
  /\ ack'[d][i] = ack[d][i] /\ reply'[d][i] = reply[d][i]

\* The server moves, the row keeps its stamp.
LEMMA RowStays ==
  ASSUME TypeOK, TypeOK', Numbering, NEW d \in Devices, NEW i \in Records, Linked(d, i),
         ServerStep(i), EngineStill(d, i), SameStamp(row'[d][i], row[d][i]),
         ReadIsCurrent(d, i)'
  PROVE  Linked(d, i)' /\ Survives(d, i)
<1>1. Typed(d, i) /\ Typed(d, i)'
  BY TypedRecord
<1>2. cursor[d] <= seq /\ (Applying(d) => next[d] <= seq)
  BY DEF Numbering
<1>3. Unacked(d, i)' <=> Unacked(d, i)
  BY <1>1 DEF EngineStill, SameStamp, Unacked
<1>4. ~Newer(rec[i], row[d][i]) /\ rec'[i] = rec[i] => ~Newer(rec'[i], row'[d][i])
  BY <1>1, StampTypes DEF SameStamp, Newer, Typed
<1>5. Booked(d, i)'
  BY <1>1, StampTypes DEF Linked, Booked, ReadIsCurrent, EngineStill, SameStamp, Typed
<1>6. Paged(d, i)'
  BY <1>1, <1>2, <1>3, <1>4, StampTypes DEF Linked, Paged, ServerStep, EngineStill, Applying,
     KnownOrPending, Present, Newer, Typed
<1>7. Batched(d, i)'
  BY <1>1, StampTypes DEF Linked, Batched, EngineStill, SameStamp, Present, Typed
<1>8. Acked(d, i)'
  BY <1>1, <1>2, StampTypes DEF Linked, Acked, ServerStep, EngineStill, SameStamp, Present, Newer,
     Typed
<1>9. Kept(d, i)'
  BY <1>1, <1>3, StampTypes DEF Linked, Kept, ServerStep, SameStamp, Newer, Typed
<1>10. Covered(d, i)'
  BY <1>1, <1>2, <1>3, <1>4, StampTypes DEF Linked, Covered, KnownOrPending, ServerStep,
     EngineStill, Typed
<1> QED BY <1>3, <1>5, <1>6, <1>7, <1>8, <1>9, <1>10 DEF Linked, Survives

\* The user edits the row: its version moves past what is acknowledged or sent.
LEMMA RowEdited ==
  ASSUME TypeOK, TypeOK', NEW d \in Devices, NEW i \in Records, Linked(d, i),
         rec'[i] = rec[i], seqOf'[i] = seqOf[i], EngineStill(d, i),
         row'[d][i].ver = row[d][i].ver + 1, ReadIsCurrent(d, i)'
  PROVE  Linked(d, i)' /\ Survives(d, i)
<1>1. Typed(d, i) /\ Typed(d, i)'
  BY TypedRecord
<1>2. Unacked(d, i)'
  BY <1>1, StampTypes DEF Linked, Booked, EngineStill, Unacked, Typed
<1>3. Booked(d, i)'
  BY <1>1, StampTypes DEF Linked, Booked, ReadIsCurrent, EngineStill, Typed
<1>4. Paged(d, i)'
  BY <1>2 DEF Linked, Paged, EngineStill, Applying, KnownOrPending
<1>5. Batched(d, i)'
  BY <1>1, StampTypes DEF Linked, Batched, EngineStill, SameStamp, Typed
<1>6. Acked(d, i)'
  BY DEF Linked, Acked, EngineStill
<1> QED BY <1>2, <1>3, <1>4, <1>5, <1>6 DEF Linked, Kept, Covered, KnownOrPending, Survives

\* An edit of device d leaves a row its stamp or moves its version by one.
LEMMA EditSteps ==
  ASSUME TypeOK, NEW d \in Devices, Edit(d), \A i \in Records : ReadIsCurrent(d, i)
  PROVE  /\ \A e \in Devices \ {d} : row'[e] = row[e] /\ saving'[e] = saving[e]
         /\ \A i \in Records : /\ \/ SameStamp(row'[d][i], row[d][i])
                                 \/ row'[d][i].ver = row[d][i].ver + 1
                              /\ ReadIsCurrent(d, i)'
<1> DEFINE Goal == /\ \A e \in Devices \ {d} : row'[e] = row[e] /\ saving'[e] = saving[e]
                   /\ \A i \in Records : /\ \/ SameStamp(row'[d][i], row[d][i])
                                           \/ row'[d][i].ver = row[d][i].ver + 1
                                        /\ ReadIsCurrent(d, i)'
<1>0. /\ row \in [Devices -> [Records -> Row]] /\ saving \in [Devices -> [Snippets -> Nat]]
      /\ Snippets \subseteq Records /\ Groups \subseteq Records
      /\ \A i \in Records : row[d][i] \in Row /\ row[d][i].ver \in Nat
  <2>1. row \in [Devices -> [Records -> Row]] /\ saving \in [Devices -> [Snippets -> Nat]]
    BY DEF TypeOK, StoreTypeOK
  <2>2. \A i \in Records : row[d][i] \in Row
    BY <2>1
  <2>3. Snippets \subseteq Records /\ Groups \subseteq Records
    BY DEF Records
  <2> QED BY <2>1, <2>2, <2>3, StampTypes
<1>1. ASSUME NEW k \in Records, NEW r, NEW t, Write(d, k, r, t),
             r.ver = row[d][k].ver + 1,
             saving' = [saving EXCEPT ![d] = NoSave] \/ (saving' = saving /\ Ready(d))
      PROVE  Goal
  <2>1. /\ row' = [row EXCEPT ![d][k] = r] /\ saving'[d] = NoSave
        /\ \A e \in Devices \ {d} : saving'[e] = saving[e]
    BY <1>0, <1>1 DEF Write, Ready
  <2>2. \A i \in Records : ReadIsCurrent(d, i)'
    BY <2>1 DEF ReadIsCurrent, NoSave
  <2> QED BY <1>0, <1>1, <2>1, <2>2 DEF SameStamp
<1>2. ASSUME NEW i \in Snippets, CreateSnippet(d, i) PROVE Goal
  <2>1. PICK t \in Now(d), k \in KindsUsed, x \in Texts, asked \in TeamAsked,
             g \in LiveGroups(d) \cup {NoGroup} :
          Write(d, i, [ts |-> t, ver |-> 1, del |-> FALSE, team |-> TeamOf(d, k, asked, g),
                       grp |-> g, kind |-> k, text |-> x], t)
    BY <1>2 DEF CreateSnippet
  <2>2. row[d][i].ver = 0 /\ saving' = saving /\ Ready(d) /\ i \in Records
    BY <1>0, <1>2 DEF CreateSnippet, Fresh, Present
  <2> HIDE DEF Goal
  <2> QED BY <1>1, <2>1, <2>2
<1>3. ASSUME NEW i \in Snippets, UpdateRead(d, i) PROVE Goal
  <2>1. /\ row' = row /\ saving[d] = NoSave
        /\ saving' = [saving EXCEPT ![d][i] = row[d][i].ver]
    BY <1>3 DEF UpdateRead, Ready
  <2>2. \A j \in Records : ReadIsCurrent(d, j)'
    BY <1>0, <2>1 DEF ReadIsCurrent, NoSave
  <2> QED BY <1>0, <2>1, <2>2 DEF SameStamp
<1>4. ASSUME NEW i \in Snippets, UpdateWrite(d, i) PROVE Goal
  <2>1. PICK t \in Now(d), k \in KindsUsed, x \in Texts, asked \in TeamAsked,
             g \in LiveGroups(d) \cup {NoGroup} :
          Write(d, i, [ts |-> t, ver |-> saving[d][i] + 1, del |-> row[d][i].del,
                       team |-> TeamOf(d, k, asked, g), grp |-> g, kind |-> k, text |-> x], t)
    BY <1>4 DEF UpdateWrite
  <2>2. /\ saving[d][i] = row[d][i].ver /\ i \in Records
        /\ saving' = [saving EXCEPT ![d] = NoSave]
    BY <1>0, <1>4 DEF UpdateWrite, ReadIsCurrent
  <2> HIDE DEF Goal
  <2> QED BY <1>1, <2>1, <2>2
<1>5. ASSUME NEW i \in Snippets, SoftDelete(d, i) PROVE Goal
  <2>1. PICK t \in Now(d) : Write(d, i, Tombstone(row[d][i], t), t)
    BY <1>5 DEF SoftDelete
  <2>2. Tombstone(row[d][i], t).ver = row[d][i].ver + 1
    BY <1>0 DEF Tombstone, Row
  <2>3. saving' = saving /\ Ready(d) /\ i \in Records
    BY <1>0, <1>5 DEF SoftDelete
  <2> HIDE DEF Goal
  <2> QED BY <1>1, <2>1, <2>2, <2>3
<1>6. ASSUME NEW g \in Groups, CreateGroup(d, g) PROVE Goal
  <2>1. PICK t \in Now(d), x \in Texts :
          Write(d, g, [ts |-> t, ver |-> 1, del |-> FALSE, team |-> FALSE,
                       grp |-> NoGroup, kind |-> "group", text |-> x], t)
    BY <1>6 DEF CreateGroup
  <2>2. row[d][g].ver = 0 /\ saving' = saving /\ Ready(d) /\ g \in Records
    BY <1>0, <1>6 DEF CreateGroup, Fresh, Present
  <2> HIDE DEF Goal
  <2> QED BY <1>1, <2>1, <2>2
<1>7. ASSUME NEW g \in Groups, UpdateGroup(d, g) PROVE Goal
  <2>1. PICK t \in Now(d), x \in Texts : Write(d, g, Renamed(row[d][g], x, t), t)
    BY <1>7 DEF UpdateGroup
  <2>2. Renamed(row[d][g], x, t).ver = row[d][g].ver + 1
    BY <1>0 DEF Renamed, Row
  <2>3. saving' = saving /\ Ready(d) /\ g \in Records
    BY <1>0, <1>7 DEF UpdateGroup
  <2> HIDE DEF Goal
  <2> QED BY <1>1, <2>1, <2>2, <2>3
<1>8. ASSUME NEW t, NEW rows, row' = [row EXCEPT ![d] = rows], saving' = saving, Ready(d),
             \A i \in Records : \/ SameStamp(rows[i], row[d][i])
                                 \/ rows[i].ver = row[d][i].ver + 1
      PROVE  Goal
  <2>1. saving'[d] = NoSave
    BY <1>8 DEF Ready
  <2>2. \A i \in Records : ReadIsCurrent(d, i)'
    BY <2>1 DEF ReadIsCurrent, NoSave
  <2> QED BY <1>0, <1>8, <2>2
<1>9. ASSUME NEW g \in Groups, SoftDeleteGroup(d, g) PROVE Goal
  <2>1. saving' = saving /\ Ready(d)
    BY <1>9 DEF SoftDeleteGroup
  <2>2. /\ Ungroup(row[d], g) \in [Records -> Row] /\ g \in Records
        /\ \A i \in Records : SameStamp(Ungroup(row[d], g)[i], row[d][i])
    BY <1>0, UngroupRows
  <2>3. ASSUME NEW t \in Now(d),
               row' = [row EXCEPT ![d] = [Ungroup(row[d], g) EXCEPT ![g] = Tombstone(@, t)]]
        PROVE  Goal
    <3> DEFINE rows == [Ungroup(row[d], g) EXCEPT ![g] = Tombstone(@, t)]
    <3>1. Tombstone(Ungroup(row[d], g)[g], t).ver = row[d][g].ver + 1
      BY <2>2 DEF Tombstone, Row, SameStamp
    <3>2. \A i \in Records : \/ SameStamp(rows[i], row[d][i])
                              \/ rows[i].ver = row[d][i].ver + 1
      BY <2>2, <3>1
    <3> HIDE DEF Goal, rows
    <3>3. row' = [row EXCEPT ![d] = rows]
      BY <2>3 DEF rows
    <3> QED BY <1>8, <2>1, <3>2, <3>3
  <2> HIDE DEF Goal
  <2>4. CASE row' = [row EXCEPT ![d] = Ungroup(row[d], g)]
    BY <1>8, <2>1, <2>2, <2>4
  <2> QED BY <1>9, <2>3, <2>4 DEF SoftDeleteGroup
<1>10. ASSUME NEW g \in Groups, NEW b \in BOOLEAN, SetGroupTeam(d, g, b) PROVE Goal
  <2>1. PICK t \in Now(d) :
          row' = [row EXCEPT ![d] = [i \in Records |->
                    IF i \in Following(d, g) THEN Rescoped(row[d][i], b, t) ELSE row[d][i]]]
    BY <1>10 DEF SetGroupTeam
  <2>2. saving' = saving /\ Ready(d)
    BY <1>10 DEF SetGroupTeam
  <2> DEFINE rows == [i \in Records |-> IF i \in Following(d, g)
                                        THEN Rescoped(row[d][i], b, t) ELSE row[d][i]]
  <2>3. \A i \in Records : Rescoped(row[d][i], b, t).ver = row[d][i].ver + 1
    BY <1>0 DEF Rescoped, Row
  <2>4. \A i \in Records : \/ SameStamp(rows[i], row[d][i])
                            \/ rows[i].ver = row[d][i].ver + 1
    BY <2>3 DEF SameStamp
  <2> HIDE DEF Goal, rows
  <2>5. row' = [row EXCEPT ![d] = rows]
    BY <2>1 DEF rows
  <2> QED BY <1>8, <2>2, <2>4, <2>5
<1> HIDE DEF Goal
<1>11. Goal
  BY <1>2, <1>3, <1>4, <1>5, <1>6, <1>7, <1>9, <1>10 DEF Edit, UserEdit
<1> QED BY <1>11 DEF Goal

\* An edit keeps every device and record linked.
LEMMA EditLinked ==
  ASSUME TypeOK, TypeOK', IndInv, NEW d \in Devices, Edit(d),
         NEW e \in Devices, NEW i \in Records
  PROVE  Linked(e, i)' /\ Survives(e, i)
<1>1. Numbering /\ Linked(e, i) /\ \A j \in Records : Linked(d, j)
  BY DEF IndInv
<1>2. rec'[i] = rec[i] /\ seqOf'[i] = seqOf[i] /\ EngineStill(e, i)
  BY EditFrame DEF EngineStill, serverVars, engineVars
<1>3. \A j \in Records : ReadIsCurrent(d, j)
  BY <1>1 DEF Linked, Booked, ReadIsCurrent
<1>4. CASE e = d
  <2>1. /\ SameStamp(row'[d][i], row[d][i]) \/ row'[d][i].ver = row[d][i].ver + 1
        /\ ReadIsCurrent(d, i)'
    BY <1>3, EditSteps
  <2> QED BY <1>1, <1>2, <1>4, <2>1, RowStays, RowEdited DEF ServerStep
<1>5. CASE e # d
  <2>1. row'[e] = row[e] /\ saving'[e] = saving[e]
    BY <1>3, <1>5, EditSteps
  <2>2. SameStamp(row'[e][i], row[e][i])
    BY <2>1 DEF SameStamp
  <2>3. ReadIsCurrent(e, i)'
    BY <1>1, <2>1 DEF Linked, Booked, ReadIsCurrent
  <2> QED BY <1>1, <1>2, <2>2, <2>3, RowStays DEF ServerStep
<1> QED BY <1>4, <1>5

-----------------------------------------------------------------------------
(***************************************************************************)
(* The engine's steps.                                                     *)
(***************************************************************************)
\* A remote record either is stored and acknowledged or changes nothing; other
\* records keep their stamps.
LEMMA RemoteSteps ==
  ASSUME TypeOK, NEW d \in Devices, NEW k \in Records, NEW r \in Row, ApplyRemote(d, k, r)
  PROVE  /\ \A e \in Devices \ {d} : row'[e] = row[e] /\ pushed'[e] = pushed[e]
         /\ \A i \in Records \ {k} :
              SameStamp(row'[d][i], row[d][i]) /\ pushed'[d][i] = pushed[d][i]
         /\ \/ /\ Newer(r, row[d][k])
               /\ SameStamp(row'[d][k], r) /\ pushed'[d][k] = r.ver
            \/ /\ ~Newer(r, row[d][k])
               /\ SameStamp(row'[d][k], row[d][k]) /\ pushed'[d][k] = pushed[d][k]
<1>1. /\ row \in [Devices -> [Records -> Row]] /\ row[d] \in [Records -> Row]
      /\ pushed \in [Devices -> [Records -> Nat]]
  BY DEF TypeOK, StoreTypeOK
<1>2. CASE Newer(r, row[d][k])
  <2>1. /\ row' = [row EXCEPT ![d] = Applied(row[d], k, r)]
        /\ pushed' = [pushed EXCEPT ![d][k] = r.ver]
    BY <1>2 DEF ApplyRemote
  <2>2. /\ SameStamp(Applied(row[d], k, r)[k], r)
        /\ \A i \in Records \ {k} : SameStamp(Applied(row[d], k, r)[i], row[d][i])
    BY <1>1, AppliedRows
  <2> QED BY <1>1, <1>2, <2>1, <2>2
<1>3. CASE ~Newer(r, row[d][k])
  BY <1>3 DEF ApplyRemote, SameStamp
<1> QED BY <1>2, <1>3

\* Applying a record of the page (pull_team) keeps every record linked.
LEMMA ApplyRecordLinked ==
  ASSUME ~SaveRaces, TypeOK, TypeOK', IndInv, NEW d \in Devices, NEW k \in Records,
         ApplyRecord(d, k), NEW e \in Devices, NEW i \in Records
  PROVE  Linked(e, i)' /\ Survives(e, i)
<1>1. /\ Numbering /\ Linked(e, i) /\ Typed(e, i) /\ Typed(e, i)'
      /\ Typed(d, k)
  BY TypedRecord DEF IndInv
<1>2. /\ UNCHANGED <<serverVars, cursor, saving, pc, next, batch, ack, reply>>
      /\ page' = [page EXCEPT ![d][k] = NoRow] /\ page \in [Devices -> [Records -> Row]]
      /\ Applying(d) /\ Present(page[d][k]) /\ ApplyRemote(d, k, page[d][k])
      /\ saving[d] = NoSave
  BY DEF ApplyRecord, NextOfPage, MayTouchStore, Ready, TypeOK
<1>3. ServerStep(i)
  BY <1>2 DEF ServerStep, serverVars
<1>4. CASE e # d \/ i # k
  <2>1. SameStamp(row'[e][i], row[e][i]) /\ pushed'[e][i] = pushed[e][i]
    BY <1>1, <1>2, <1>4, RemoteSteps DEF Typed, SameStamp
  <2>2. EngineStill(e, i)
    BY <1>2, <1>4, <2>1 DEF EngineStill
  <2>3. ReadIsCurrent(e, i)'
    BY <1>1, <1>2, <2>1 DEF ReadIsCurrent, Linked, Booked, SameStamp
  <2> QED BY <1>1, <1>3, <2>1, <2>2, <2>3, RowStays
<1>5. CASE e = d /\ i = k
  <2> DEFINE r == page[d][k]
  <2>1. /\ ~Newer(r, rec[k]) /\ cursor[d] < seqOf[k]
        /\ seqOf[k] <= next[d] => r = rec[k]
    BY <1>1, <1>2, <1>5 DEF Linked, Paged
  <2>2. \/ Newer(r, row[d][k]) /\ SameStamp(row'[d][k], r) /\ pushed'[d][k] = r.ver
        \/ /\ ~Newer(r, row[d][k])
           /\ SameStamp(row'[d][k], row[d][k]) /\ pushed'[d][k] = pushed[d][k]
    BY <1>1, <1>2, RemoteSteps DEF Typed
  <2>3. /\ page'[d][k] = NoRow /\ rec' = rec /\ seqOf' = seqOf /\ cursor' = cursor
        /\ pc' = pc /\ next' = next /\ batch' = batch /\ ack' = ack /\ reply' = reply
        /\ saving'[d] = NoSave
    BY <1>2 DEF serverVars
  <2>4. Linked(d, k) /\ Typed(d, k) /\ Typed(d, k)'
    BY <1>1, <1>5
  <2> HIDE DEF r
  <2>5. /\ r \in Row /\ r.ver \in Nat /\ r.ts \in Nat
        /\ row[d][k].ver \in Nat /\ row[d][k].ts \in Nat
        /\ row'[d][k].ver \in Nat /\ row'[d][k].ts \in Nat
        /\ rec[k].ver \in Nat /\ rec[k].ts \in Nat
        /\ pushed[d][k] \in Nat /\ cursor[d] \in Nat /\ seqOf[k] \in Nat
    BY <2>4, StampTypes DEF Typed, r
  <2>6. Booked(d, k)'
    BY <2>2, <2>3, <2>4, <2>5 DEF Linked, Booked, SameStamp, NoSave
  <2>7. Kept(d, k)'
    BY <2>1, <2>2, <2>3, <2>4, <2>5 DEF Linked, Kept, Unacked, SameStamp, Newer
  <2>8. Covered(d, k)'
    BY <2>1, <2>3, <2>5 DEF Covered
  <2>9. seqOf[k] <= next[d] => KnownOrPending(d, k)'
    BY <2>1, <2>2, <2>3, <2>5 DEF KnownOrPending, SameStamp, Newer
  <2>10. Paged(d, k)'
    BY <2>3, <2>9, StampTypes DEF Paged, Present
  <2>11. ack[d][k] = "none" /\ pc[d] # "sent"
    BY <1>2, <2>4 DEF Linked, Acked, Applying
  <2>12. Batched(d, k)' /\ Acked(d, k)'
    BY <2>3, <2>4, <2>11 DEF Linked, Batched, Acked
  <2>13. Survives(d, k)
    BY <2>1, <2>2, <2>3, <2>5 DEF Survives, Unacked, SameStamp, Newer
  <2> QED BY <1>5, <2>6, <2>7, <2>8, <2>10, <2>12, <2>13 DEF Linked
<1> QED BY <1>4, <1>5

\* So does handling one outcome of the ack (push_team).
LEMMA OutcomeLinked ==
  ASSUME ~SaveRaces, TypeOK, TypeOK', IndInv, NEW d \in Devices, NEW k \in Records,
         HandleOutcome(d, k), NEW e \in Devices, NEW i \in Records
  PROVE  Linked(e, i)' /\ Survives(e, i)
<1>1. /\ Numbering /\ Linked(e, i) /\ Typed(e, i) /\ Typed(e, i)'
      /\ Linked(d, k) /\ Typed(d, k)
  BY TypedRecord DEF IndInv
<1>2. /\ UNCHANGED <<serverVars, cursor, saving, pc, page, next, batch>>
      /\ ack' = [ack EXCEPT ![d][k] = "none"] /\ reply' = [reply EXCEPT ![d][k] = NoRow]
      /\ pc[d] = "ack" /\ ack[d][k] # "none" /\ saving[d] = NoSave
  BY DEF HandleOutcome, NextOfAck, MayTouchStore, Ready
<1>3. /\ ack \in [Devices -> [Records -> {"none", "accepted", "superseded"}]]
      /\ reply \in [Devices -> [Records -> Row]]
      /\ pushed \in [Devices -> [Records -> Nat]]
  BY DEF TypeOK, StoreTypeOK
<1>4. \/ /\ ack[d][k] = "accepted" /\ row' = row
         /\ pushed' = [pushed EXCEPT ![d][k] = batch[d][k].ver]
      \/ ack[d][k] = "superseded" /\ ApplyRemote(d, k, reply[d][k])
  BY <1>3, <1>2 DEF HandleOutcome, MarkPushed
<1>5. ServerStep(i)
  BY <1>2 DEF ServerStep, serverVars
<1>6. CASE e # d \/ i # k
  <2>1. SameStamp(row'[e][i], row[e][i]) /\ pushed'[e][i] = pushed[e][i]
    <3>1. CASE ack[d][k] = "accepted"
      BY <1>3, <1>4, <1>6, <3>1 DEF SameStamp
    <3>2. CASE ack[d][k] = "superseded"
      BY <1>1, <1>4, <1>6, <3>2, RemoteSteps DEF Typed, SameStamp
    <3> QED BY <1>4, <3>1, <3>2
  <2>2. EngineStill(e, i)
    BY <1>2, <1>3, <1>6, <2>1 DEF EngineStill
  <2>3. ReadIsCurrent(e, i)'
    BY <1>1, <1>2, <2>1 DEF ReadIsCurrent, Linked, Booked, SameStamp
  <2> QED BY <1>1, <1>5, <2>1, <2>2, <2>3, RowStays
<1>7. CASE e = d /\ i = k
  <2> DEFINE r == reply[d][k]
             b == batch[d][k]
  <2>1. /\ Present(b)
        /\ ack[d][k] = "accepted" => ~Newer(b, rec[k]) /\ cursor[d] < seqOf[k]
        /\ r # NoRow => ~Newer(r, rec[k]) /\ (SameStamp(r, rec[k]) \/ cursor[d] < seqOf[k])
    BY <1>1, <1>2 DEF Linked, Acked
  <2>2. b.ver < row[d][k].ver \/ SameStamp(b, row[d][k])
    BY <1>1, <1>2, <2>1 DEF Linked, Batched
  <2>3. \/ /\ ack[d][k] = "accepted" /\ row'[d][k] = row[d][k] /\ pushed'[d][k] = b.ver
        \/ /\ ack[d][k] = "superseded"
           /\ Newer(r, row[d][k]) /\ SameStamp(row'[d][k], r) /\ pushed'[d][k] = r.ver
        \/ /\ ack[d][k] = "superseded" /\ ~Newer(r, row[d][k])
           /\ SameStamp(row'[d][k], row[d][k]) /\ pushed'[d][k] = pushed[d][k]
    <3>1. CASE ack[d][k] = "accepted"
      BY <1>3, <1>4, <3>1
    <3>2. CASE ack[d][k] = "superseded"
      BY <1>1, <1>4, <3>2, RemoteSteps DEF Typed
    <3> QED BY <1>4, <3>1, <3>2
  <2>4. /\ ack'[d][k] = "none" /\ reply'[d][k] = NoRow
        /\ page' = page /\ rec' = rec /\ seqOf' = seqOf /\ cursor' = cursor
        /\ pc' = pc /\ next' = next /\ batch' = batch /\ saving'[d] = NoSave
    BY <1>2, <1>3 DEF serverVars
  <2>5. Linked(d, k) /\ Typed(d, k) /\ Typed(d, k)'
    BY <1>1, <1>7
  <2> HIDE DEF r, b
  <2>6. /\ r \in Row /\ r.ver \in Nat /\ r.ts \in Nat
        /\ b \in Row /\ b.ver \in Nat /\ b.ts \in Nat
        /\ row[d][k].ver \in Nat /\ row[d][k].ts \in Nat
        /\ row'[d][k].ver \in Nat /\ row'[d][k].ts \in Nat
        /\ rec[k].ver \in Nat /\ rec[k].ts \in Nat
        /\ pushed[d][k] \in Nat /\ cursor[d] \in Nat /\ seqOf[k] \in Nat
    BY <2>5, StampTypes DEF Typed, r, b
  <2>7. Newer(r, row[d][k]) => r # NoRow
    BY <2>6, StampTypes DEF Newer
  <2>8. Booked(d, k)'
    BY <2>2, <2>3, <2>4, <2>5, <2>6 DEF Linked, Booked, SameStamp, NoSave
  <2>9. Kept(d, k)'
    BY <2>1, <2>2, <2>3, <2>4, <2>5, <2>6, <2>7 DEF Linked, Kept, Unacked, SameStamp, Newer
  <2>10. Covered(d, k)'
    BY <2>1, <2>3, <2>4, <2>5, <2>6, <2>7 DEF Linked, Covered, KnownOrPending, Unacked,
       SameStamp, Newer
  <2>11. ~Applying(d) /\ pc[d] # "sent"
    BY <1>2 DEF Applying
  <2>12. Paged(d, k)' /\ Batched(d, k)' /\ Acked(d, k)'
    BY <2>4, <2>5, <2>11 DEF Linked, Paged, Batched, Acked, Applying
  <2>13. Survives(d, k)
    BY <2>1, <2>2, <2>3, <2>4, <2>6, <2>7 DEF Survives, Unacked, SameStamp, Newer
  <2> QED BY <1>7, <2>8, <2>9, <2>10, <2>12, <2>13 DEF Linked
<1> QED BY <1>6, <1>7

\* So does the server's handling of a push.
LEMMA DeliverLinked ==
  ASSUME TypeOK, TypeOK', IndInv, NEW d \in Devices, Deliver(d),
         NEW e \in Devices, NEW i \in Records
  PROVE  Linked(e, i)' /\ Survives(e, i)
<1>1. Numbering /\ Linked(e, i) /\ Typed(e, i) /\ Typed(e, i)'
  BY TypedRecord DEF IndInv
<1>2. \/ rec'[i] = rec[i] /\ seqOf'[i] = seqOf[i]
      \/ rec'[i] = batch[d][i] /\ Newer(rec'[i], rec[i]) /\ seq < seqOf'[i]
  BY <1>1, DeliverNumbers
<1>3. /\ UNCHANGED <<storeVars, page, next, batch>> /\ pc[d] = "sent"
      /\ pc' = [pc EXCEPT ![d] = "ack"] /\ pc \in [Devices -> Phases]
      /\ ack' = [ack EXCEPT ![d] = Outcome(UserOf[d], batch[d])]
      /\ reply' = [reply EXCEPT ![d] = [j \in Records |->
           IF Outcome(UserOf[d], batch[d])[j] = "superseded" THEN rec[j] ELSE NoRow]]
      /\ ack \in [Devices -> [Records -> {"none", "accepted", "superseded"}]]
      /\ reply \in [Devices -> [Records -> Row]]
  BY DEF Deliver, Goto, TypeOK
<1>4. ServerStep(i)
  BY <1>2 DEF ServerStep
<1>5. SameStamp(row'[e][i], row[e][i]) /\ ReadIsCurrent(e, i)'
  BY <1>1, <1>3 DEF storeVars, SameStamp, ReadIsCurrent, Linked, Booked
<1>6. CASE e # d
  <2>1. EngineStill(e, i)
    BY <1>3, <1>6 DEF EngineStill, storeVars
  <2> QED BY <1>1, <1>4, <1>5, <2>1, RowStays
<1>7. CASE e = d
  <2> DEFINE b == batch[d][i]
  <2>1. /\ UserOf[d] \in Users /\ batch[d] \in [Records -> Row] /\ ServerTypeOK
        /\ Merge(UserOf[d], batch[d])
    BY ServerConstants DEF TypeOK, Deliver
  <2>2. /\ i \in Accepted(UserOf[d], batch[d]) =>
             rec'[i] = b /\ Newer(b, rec[i]) /\ Present(b) /\ seq < seqOf'[i]
        /\ i \notin Accepted(UserOf[d], batch[d]) => rec'[i] = rec[i] /\ seqOf'[i] = seqOf[i]
    BY <2>1, MergeEffect
  <2>3. \/ ack'[d][i] = "none" /\ reply'[d][i] = NoRow
        \/ /\ ack'[d][i] = "accepted" /\ reply'[d][i] = NoRow
           /\ Present(b) /\ rec'[i] = b /\ seq < seqOf'[i]
        \/ /\ ack'[d][i] = "superseded" /\ reply'[d][i] = rec[i]
           /\ Present(b) /\ rec'[i] = rec[i]
    BY <1>3, <2>2 DEF Outcome
  <2>4. /\ row' = row /\ pushed' = pushed /\ cursor' = cursor /\ saving' = saving
        /\ page' = page /\ next' = next /\ batch' = batch /\ pc[d] = "sent"
        /\ pc'[d] = "ack"
    BY <1>3 DEF storeVars
  <2>5. Linked(d, i) /\ Typed(d, i) /\ Typed(d, i)'
    BY <1>1, <1>7
  <2> HIDE DEF b
  <2>6. /\ row[d][i].ver \in Nat /\ row[d][i].ts \in Nat
        /\ rec[i].ver \in Nat /\ rec[i].ts \in Nat
        /\ rec'[i].ver \in Nat /\ rec'[i].ts \in Nat
        /\ b.ver \in Nat /\ b.ts \in Nat
        /\ cursor[d] \in Nat /\ seqOf[i] \in Nat /\ seqOf'[i] \in Nat /\ seq \in Nat
        /\ cursor[d] <= seq
    BY <1>1, <2>5, StampTypes DEF Typed, b, Numbering
  <2>7. Booked(d, i)'
    BY <2>4, <2>5 DEF Linked, Booked
  <2>8. Paged(d, i)'
    BY <2>4, <2>5 DEF Linked, Paged, Applying
  <2>9. Batched(d, i)'
    BY <2>3, <2>4, <2>5 DEF Linked, Batched, b
  <2>10. Acked(d, i)'
    BY <2>3, <2>4, <2>6 DEF Acked, b, Newer, SameStamp
  <2>11. Kept(d, i)'
    BY <1>2, <2>4, <2>5, <2>6 DEF Linked, Kept, Unacked, Newer
  <2>12. Covered(d, i)'
    BY <1>2, <2>4, <2>5, <2>6 DEF Linked, Covered, KnownOrPending, Unacked
  <2>13. Survives(d, i)
    BY <2>4 DEF Survives, Unacked
  <2> QED BY <1>7, <2>7, <2>8, <2>9, <2>10, <2>11, <2>12, <2>13 DEF Linked
<1> QED BY <1>6, <1>7

\* The steps of a cycle that leave the server and every row alone.
Quiet(d) == \/ StartCycle(d) \/ Fetch(d) \/ StoreCursor(d) \/ Collect(d) \/ PushDone(d)
            \/ AbortCycle(d) \/ Crash(d)

\* What they leave alone, and what becomes of an `update` in progress.
LEMMA QuietFrame ==
  ASSUME TypeOK, NEW d \in Devices, Quiet(d)
  PROVE  /\ UNCHANGED <<serverVars, row, pushed>>
         /\ \A e \in Devices \ {d}, i \in Records : saving'[e] = saving[e] /\ EngineStill(e, i)
         /\ saving'[d] = saving[d] \/ saving'[d] = NoSave
<1> USE DEF TypeOK, StoreTypeOK, EngineStill, Goto
<1>1. CASE StartCycle(d)
  BY <1>1 DEF StartCycle, storeVars
<1>2. CASE Fetch(d)
  BY <1>2 DEF Fetch, storeVars
<1>3. CASE StoreCursor(d)
  BY <1>3 DEF StoreCursor
<1>4. CASE Collect(d)
  BY <1>4 DEF Collect, storeVars
<1>5. CASE PushDone(d)
  BY <1>5 DEF PushDone, storeVars
<1>6. CASE AbortCycle(d)
  BY <1>6 DEF AbortCycle, DropCycle
<1>7. CASE Crash(d)
  BY <1>7 DEF Crash, DropCycle
<1> QED BY <1>1, <1>2, <1>3, <1>4, <1>5, <1>6, <1>7 DEF Quiet

\* A fetched page carries what the server holds.
LEMMA FetchLinked ==
  ASSUME TypeOK, IndInv, NEW d \in Devices, Fetch(d), NEW i \in Records
  PROVE  Paged(d, i)' /\ Batched(d, i)' /\ Acked(d, i)' /\ Covered(d, i)'
<1>1. Typed(d, i) /\ Linked(d, i)
  BY TypedRecord DEF IndInv
<1>2. PICK n \in {cursor[d]} \cup {seqOf[j] : j \in After(cursor[d])} :
        /\ page' = [page EXCEPT ![d] = PageRows(cursor[d], n)]
        /\ next' = [next EXCEPT ![d] = n]
  BY DEF Fetch
<1>3. /\ UNCHANGED <<serverVars, storeVars, batch, ack, reply>>
      /\ pc'[d] \in {"apply", "reapply"} /\ pc[d] \in {"pull", "repull"}
  BY DEF Fetch, Goto, TypeOK
<1>4. /\ page'[d][i] = IF cursor[d] < seqOf[i] /\ seqOf[i] <= n THEN rec[i] ELSE NoRow
      /\ next'[d] = n
  BY <1>2 DEF PageRows, TypeOK
<1>5. ~Present(NoRow) /\ ~Newer(rec[i], rec[i])
  BY <1>1, StampTypes DEF Present, Newer, Typed
<1>6. Paged(d, i)'
  BY <1>3, <1>4, <1>5 DEF Paged, Applying, serverVars, storeVars
<1>7. ack[d][i] = "none"
  BY <1>1, <1>3 DEF Linked, Acked
<1> QED BY <1>1, <1>3, <1>6, <1>7 DEF Linked, Batched, Acked, Covered, KnownOrPending,
     Unacked, serverVars, storeVars

\* The cursor is stored when nothing of the page is left to apply.
LEMMA StoreCursorLinked ==
  ASSUME TypeOK, IndInv, NEW d \in Devices, StoreCursor(d), NEW i \in Records
  PROVE  Paged(d, i)' /\ Batched(d, i)' /\ Acked(d, i)' /\ Covered(d, i)'
<1>1. Typed(d, i) /\ Linked(d, i)
  BY TypedRecord DEF IndInv
<1>2. /\ UNCHANGED <<serverVars, row, pushed, page, next, batch, ack, reply>>
      /\ cursor'[d] = next[d] /\ page[d] = Nothing /\ Applying(d)
      /\ pc'[d] \in {"pull", "push", "repull", "idle"}
  BY DEF StoreCursor, Goto, TypeOK, StoreTypeOK
<1>3. page[d][i] = NoRow /\ ~Present(NoRow) /\ ~Newer(NoRow, row[d][i])
  BY <1>1, <1>2, StampTypes DEF Nothing, Present, Newer, Typed
<1>4. ack[d][i] = "none" /\ reply[d][i] = NoRow
  BY <1>1, <1>2 DEF Linked, Acked, Applying
<1>5. Paged(d, i)' /\ Batched(d, i)' /\ Acked(d, i)'
  BY <1>2, <1>3, <1>4 DEF Paged, Batched, Acked, Applying
<1>6. seqOf[i] <= next[d] => KnownOrPending(d, i)
  BY <1>1, <1>2, <1>3 DEF Linked, Paged, Covered, KnownOrPending, Typed
<1>7. Covered(d, i)'
  BY <1>2, <1>6 DEF Covered, KnownOrPending, Unacked, serverVars
<1> QED BY <1>5, <1>7

\* Collect, PushDone, StartCycle and the two ways a cycle ends early.
LEMMA OtherQuietLinked ==
  ASSUME TypeOK, IndInv, NEW d \in Devices, NEW i \in Records,
         StartCycle(d) \/ Collect(d) \/ PushDone(d) \/ AbortCycle(d) \/ Crash(d)
  PROVE  Paged(d, i)' /\ Batched(d, i)' /\ Acked(d, i)' /\ Covered(d, i)'
<1>1. Typed(d, i) /\ Linked(d, i)
  BY TypedRecord DEF IndInv
<1>2. ~Present(NoRow) /\ SameStamp(row[d][i], row[d][i])
  BY StampTypes DEF Present, SameStamp
<1>3. UNCHANGED <<serverVars, row, pushed, cursor, next>>
  BY DEF StartCycle, Collect, PushDone, AbortCycle, Crash, DropCycle, storeVars
<1>4. Covered(d, i)'
  BY <1>1, <1>3 DEF Linked, Covered, KnownOrPending, Unacked, serverVars
<1>5. CASE StartCycle(d)
  <2>1. /\ UNCHANGED <<page, batch, ack, reply>> /\ pc[d] = "idle" /\ pc'[d] = "pull"
    BY <1>5 DEF StartCycle, Goto, TypeOK
  <2> QED BY <1>1, <1>3, <1>4, <2>1 DEF Linked, Paged, Batched, Acked, Applying, serverVars
<1>6. CASE Collect(d)
  <2>1. /\ UNCHANGED <<page, ack, reply>> /\ pc[d] = "push" /\ pc'[d] \in {"sent", "repull"}
    BY <1>6 DEF Collect, Goto, TypeOK
  <2>2. batch'[d][i] \in {NoRow, row[d][i]} \/ (batch' = batch /\ pc'[d] = "repull")
    <3>1. CASE ToSend(d) = {}
      BY <1>6, <3>1 DEF Collect, Goto, TypeOK
    <3>2. CASE ToSend(d) # {}
      <4>1. PICK S \in SUBSET ToSend(d) :
              batch' = [batch EXCEPT ![d] = [j \in Records |->
                         IF j \in S THEN row[d][j] ELSE NoRow]]
        BY <1>6, <3>2 DEF Collect
      <4> QED BY <4>1 DEF TypeOK
    <3> QED BY <3>1, <3>2
  <2>3. ack[d][i] = "none" /\ reply[d][i] = NoRow
    BY <1>1, <2>1 DEF Linked, Acked
  <2> QED
    BY <1>1, <1>2, <1>3, <1>4, <2>1, <2>2, <2>3
    DEF Linked, Paged, Batched, Acked, Applying, serverVars
<1>7. CASE PushDone(d)
  <2>1. /\ UNCHANGED <<page, ack, reply>> /\ pc[d] = "ack" /\ pc'[d] \in {"push", "repull"}
        /\ batch'[d][i] = NoRow /\ ack[d][i] = "none"
    BY <1>7 DEF PushDone, Goto, TypeOK, Nothing, NoAck
  <2> QED
    BY <1>1, <1>2, <1>3, <1>4, <2>1 DEF Linked, Paged, Batched, Acked, Applying, serverVars
<1>8. CASE AbortCycle(d) \/ Crash(d)
  <2>1. /\ page'[d][i] = NoRow /\ batch'[d][i] = NoRow /\ ack'[d][i] = "none"
        /\ reply'[d][i] = NoRow /\ pc'[d] = "idle"
    BY <1>8 DEF AbortCycle, Crash, DropCycle, Goto, TypeOK, Nothing, NoAck
  <2> QED BY <1>2, <1>4, <2>1 DEF Paged, Batched, Acked, Applying
<1> QED BY <1>5, <1>6, <1>7, <1>8

\* The steps that leave the rows alone keep every record linked.
LEMMA QuietLinked ==
  ASSUME TypeOK, TypeOK', IndInv, NEW d \in Devices, Quiet(d),
         NEW e \in Devices, NEW i \in Records
  PROVE  Linked(e, i)' /\ Survives(e, i)
<1>1. Numbering /\ Linked(e, i)
  BY DEF IndInv
<1>2. UNCHANGED <<serverVars, row, pushed>>
  BY QuietFrame
<1>3. CASE e # d
  <2>1. saving'[e] = saving[e] /\ EngineStill(e, i)
    BY <1>3, QuietFrame
  <2>2. ServerStep(i) /\ SameStamp(row'[e][i], row[e][i]) /\ ReadIsCurrent(e, i)'
    BY <1>1, <1>2, <2>1 DEF ServerStep, SameStamp, ReadIsCurrent, Linked, Booked, serverVars
  <2> QED BY <1>1, <2>1, <2>2, RowStays
<1>4. CASE e = d
  <2>1. Paged(d, i)' /\ Batched(d, i)' /\ Acked(d, i)' /\ Covered(d, i)'
    BY FetchLinked, StoreCursorLinked, OtherQuietLinked DEF Quiet
  <2>2. Booked(d, i)'
    <3>1. saving'[d] = saving[d] \/ saving'[d] = NoSave
      BY QuietFrame
    <3> QED BY <1>1, <1>2, <1>4, <3>1 DEF Linked, Booked, NoSave
  <2>3. Kept(d, i)' /\ Survives(d, i)
    BY <1>1, <1>2, <1>4 DEF Linked, Kept, Survives, Unacked, serverVars
  <2> QED BY <1>4, <2>1, <2>2, <2>3 DEF Linked
<1> QED BY <1>3, <1>4

-----------------------------------------------------------------------------
(***************************************************************************)
(* The invariant and what follows from it.                                 *)
(***************************************************************************)
LEMMA InitInd == Init => IndInv
<1> SUFFICES ASSUME Init PROVE IndInv
  OBVIOUS
<1>1. Numbering
  BY DEF Init, ServerInit, StoreInit, Numbering, Applying
<1>2. ~Present(NoRow) /\ ~Newer(NoRow, NoRow)
  BY DEF NoRow, Present, Newer
<1>3. ASSUME NEW d \in Devices, NEW i \in Records PROVE Linked(d, i)
  <2>1. /\ row[d][i] = NoRow /\ rec[i] = NoRow /\ pushed[d][i] = 0 /\ NoRow.ver = 0
        /\ page[d][i] = NoRow /\ batch[d][i] = NoRow /\ reply[d][i] = NoRow
        /\ ack[d][i] = "none" /\ pc[d] = "idle" /\ saving[d] = NoSave
    BY DEF Init, ServerInit, StoreInit, Nothing, NoAck, NoRow
  <2> QED
    BY <1>2, <2>1 DEF Linked, Booked, Paged, Batched, Acked, Kept, Covered, KnownOrPending,
       Applying, NoSave
<1> QED BY <1>1, <1>3 DEF IndInv

\* Every step keeps every record linked, and no edit leaves the queue unheld.
LEMMA StepLinked ==
  ASSUME ~SaveRaces, ~TornCalls, TypeOK, TypeOK', IndInv, [Next]_vars,
         NEW e \in Devices, NEW i \in Records
  PROVE  Linked(e, i)' /\ Survives(e, i)
<1>1. ASSUME NEW d \in Devices, Cycle(d) PROVE Linked(e, i)' /\ Survives(e, i)
  BY <1>1, QuietLinked, DeliverLinked, ApplyRecordLinked, OutcomeLinked DEF Cycle, Quiet
<1>2. ASSUME NEW d \in Devices, Break(d) PROVE Linked(e, i)' /\ Survives(e, i)
  BY <1>2, QuietLinked DEF Break, Quiet, TornApply, TornFolder
<1>3. ASSUME NEW d \in Devices, Edit(d) PROVE Linked(e, i)' /\ Survives(e, i)
  BY <1>3, EditLinked
<1>4. CASE UNCHANGED vars
  <2>1. Linked(e, i)
    BY DEF IndInv
  <2> QED
    BY <1>4, <2>1 DEF vars, serverVars, storeVars, engineVars, Linked, Booked, Paged, Batched,
       Acked, Kept, Covered, KnownOrPending, Unacked, Applying, Survives
<1> QED BY <1>1, <1>2, <1>3, <1>4 DEF Next

\* Without the save race and the torn call, every row, page, push and answer stays
\* linked to what the server holds.
THEOREM Invariant == ASSUME ~SaveRaces, ~TornCalls PROVE Spec => []IndInv
<1>1. TypeOK /\ TypeOK' /\ IndInv /\ [Next]_vars => IndInv'
  <2> SUFFICES ASSUME TypeOK, TypeOK', IndInv, [Next]_vars PROVE IndInv'
    OBVIOUS
  <2>1. Numbering'
    BY NumberingStep DEF IndInv
  <2>2. \A e \in Devices, i \in Records : Linked(e, i)'
    BY StepLinked
  <2> QED BY <2>1, <2>2 DEF IndInv
<1> QED BY <1>1, InitInd, TypeCorrect, PTL DEF Spec

\* No edit is lost: a row that is not in the push queue is not newer than the
\* server's record, for every number of devices and records, whatever is lost,
\* aborted or crashes.
THEOREM NothingLost == ASSUME ~SaveRaces, ~TornCalls PROVE Spec => []NoLostEdit
<1>1. IndInv => NoLostEdit
  BY DEF IndInv, Linked, NoLostEdit
<1> QED BY <1>1, Invariant, PTL

\* The stored cursor never passes a record that the device does not have, unless
\* an unacknowledged edit of its own is in the way.
THEOREM CursorNeverPasses == ASSUME ~SaveRaces, ~TornCalls PROVE Spec => []CursorSound
<1>1. IndInv => CursorSound
  BY DEF IndInv, Linked, CursorSound
<1> QED BY <1>1, Invariant, PTL

\* An edit leaves the push queue only in a step after which the server holds it
\* or something newer.
THEOREM EditsSurvive == ASSUME ~SaveRaces, ~TornCalls PROVE Spec => PendingEditSurvives
<1>1. TypeOK /\ TypeOK' /\ IndInv /\ [Next]_vars =>
        [\A d \in Devices, i \in Records : Survives(d, i)]_vars
  BY StepLinked
<1> QED BY <1>1, Invariant, TypeCorrect, PTL DEF Spec, PendingEditSurvives

\* A device that is caught up on a record and owes the server nothing holds the
\* server's record in every field but the folder, as long as no two devices see
\* the same instant: equal stamps are then the same edit.
THEOREM CaughtUpAgrees ==
  ASSUME ~SaveRaces, ~TornCalls, DistinctClocks PROVE Spec => []Agreement
<1>1. TypeOK /\ IndInv /\ Authored => Agreement
  <2> SUFFICES ASSUME TypeOK, IndInv, Authored, NEW d \in Devices, NEW i \in Records,
                      seqOf[i] <= cursor[d], ~Unacked(d, i)
               PROVE  Bare(row[d][i]) = Bare(rec[i])
    BY DEF Agreement, Bare
  <2>1. ~Newer(row[d][i], rec[i]) /\ ~Newer(rec[i], row[d][i])
    BY DEF IndInv, Linked, Kept, Covered, KnownOrPending
  <2>2. row[d][i].ts \in Nat /\ rec[i].ts \in Nat
    BY TypedRecord, StampTypes DEF Typed
  <2>3. row[d][i].ts = rec[i].ts
    BY <2>1, <2>2 DEF Newer
  <2> QED BY <2>3, CopyPlaces DEF Authored
<1>2. TypeOK /\ TypeOK' /\ Numbering /\ Authored /\ [Next]_vars => Authored'
  BY AuthoredStep
<1> QED BY <1>1, <1>2, InitAuthored, Numbered, Invariant, TypeCorrect, PTL DEF Spec
=============================================================================
