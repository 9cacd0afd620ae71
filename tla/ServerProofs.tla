---------------------------- MODULE ServerProofs ----------------------------
(***************************************************************************)
(* Theorems about the server.  DynamoFeed: for every set of devices and    *)
(* records, every clock and every bound, with requests that overlap, fail  *)
(* and outlive their client.  Membership: for every set of people, claims, *)
(* invites and requests.  What is said of requests that come one after the *)
(* other rests on what the one that is open has read: no row has changed   *)
(* since.                                                                  *)
(***************************************************************************)
EXTENDS DynamoFeed, Membership, FiniteSetTheorems, TLAPS

(***************************************************************************)
(* DynamoFeed: the inductive invariant, TableSound and what it rests on.   *)
(***************************************************************************)
\* A row that is not absent has been edited.
Whole(r) == Present(r) \/ r = NoRow

\* What has a number is stored; a device owes what it has.
Rows ==
  /\ \A i \in Records : Whole(item[i]) /\ (seqOf[i] > 0 => Present(item[i]))
  /\ \A d \in Devices, i \in Records :
       /\ Whole(have[d][i]) /\ Whole(left[d][i])
       /\ i \in owed[d] => Present(have[d][i])

\* A request works on a record it still has to merge, it merges what it was sent, and what
\* it got accepted the table holds or has outgrown.
Request(d) ==
  /\ doing[d] # NoId => IsNext(d, doing[d])
  /\ \A i \in Records :
       /\ Present(left[d][i]) => left[d][i] = sent[d][i]
       /\ ack[d][i] = "accepted" => ~Newer(sent[d][i], item[i])

\* A number that a request holds is nobody else's.
Counted ==
  /\ NumbersDistinct
  /\ \A d \in Devices :
       /\ cursor[d] <= ctr
       /\ doing[d] # NoId => /\ 0 < num[d] /\ num[d] <= ctr
                             /\ \A i \in Records : seqOf[i] # num[d]
                             /\ \A e \in Devices \ {d} : doing[e] # NoId => num[e] # num[d]

\* The folder of a stored snippet is stored; that of a snippet on its way is on its way or
\* stored; that of an edit is on the device that owes it.
Folders ==
  /\ \A i \in Snippets : item[i].grp # NoGroup => Present(item[item[i].grp])
  /\ \A d \in Devices, i \in Snippets :
       /\ i \in owed[d] /\ have[d][i].grp # NoGroup => Present(have[d][have[d][i].grp])
       /\ left[d][i].grp # NoGroup =>
            Present(item[left[d][i].grp]) \/ Present(left[d][left[d][i].grp])

\* Without overlaps the number that is held is past all others and past every cursor, so
\* that no cursor passes a record its device does not have.
InOrder ==
  /\ \A d \in Devices : doing[d] # NoId =>
       /\ \A e \in Devices \ {d} : doing[e] = NoId
       /\ \A i \in Records : seqOf[i] < num[d]
       /\ \A e \in Devices : cursor[e] < num[d]
  /\ CursorSound
  /\ \A d \in Devices, i \in Records :
       waiting[d] /\ ack[d][i] = "accepted" => cursor[d] < seqOf[i]

TableInd == /\ Rows /\ (\A d \in Devices : Request(d)) /\ Counted /\ Folders /\ NoLostPush
       /\ (inTurn => InOrder) /\ FolderKnown

-----------------------------------------------------------------------------
(***************************************************************************)
(* Rows and their order.                                                   *)
(***************************************************************************)
\* A row's stamp is a pair of numbers; the absent row is a row, and beats nothing.
LEMMA StampTypes ==
  /\ \A r \in Row : r.ts \in Nat /\ r.ver \in Nat /\ r.grp \in Groups \cup {NoGroup}
  /\ NoRow \in Row /\ NoRow.ts = 0 /\ NoRow.ver = 0 /\ NoRow.grp = NoGroup
  /\ ~Present(NoRow)
BY DEF Row, NoRow, Kinds, Present

\* lww_wins orders rows: beating is transitive with not being beaten.
LEMMA Order ==
  ASSUME NEW a \in Row, NEW b \in Row, NEW c \in Row
  PROVE  /\ ~Newer(a, a)
         /\ Newer(a, b) => ~Newer(b, a)
         /\ ~Newer(a, b) /\ ~Newer(b, c) => ~Newer(a, c)
         /\ SameStamp(a, b) /\ ~Newer(a, c) => ~Newer(b, c)
BY StampTypes DEF Newer, SameStamp

\* What beats a whole row is an edited row, and so is what is not beaten by one.
LEMMA WholeOrder ==
  ASSUME NEW a \in Row, NEW b \in Row, Whole(a)
  PROVE  /\ Newer(a, b) => Present(a)
         /\ Present(b) /\ ~Newer(b, a) => Present(a)
         /\ Present(b) /\ ~Present(a) => Newer(b, a)
BY StampTypes DEF Newer, Whole, Present

-----------------------------------------------------------------------------
(***************************************************************************)
(* Types.                                                                  *)
(***************************************************************************)
\* Every step keeps the types.
LEMMA TypeStep == ASSUME TableTypes, [TableNext]_dynamoVars PROVE TableTypes'
<1> USE DEF TableTypes, tableVars, deviceVars, requestVars
<1>0. Nothing \in [Records -> Row] /\ NoAck \in [Records -> {"none", "accepted", "superseded"}]
  BY StampTypes DEF Nothing, NoAck
<1>1. CASE UNCHANGED dynamoVars
  BY <1>1 DEF dynamoVars
<1>2. ASSUME NEW d \in Devices, Edit(d) PROVE TableTypes'
  <2>1. PICK i \in Records, t \in Now(d), x \in Texts,
             g \in {h \in Groups : Present(have[d][h])} \cup {NoGroup} :
          /\ have' = [have EXCEPT ![d][i] =
                     [ts |-> t, ver |-> @.ver + 1, del |-> FALSE, team |-> TRUE,
                      grp |-> IF i \in Snippets THEN g ELSE NoGroup,
                      kind |-> IF i \in Snippets THEN "text" ELSE "group", text |-> x]]
          /\ owed' = [owed EXCEPT ![d] = @ \cup {i}]
    BY <1>2 DEF Edit
  <2>2. t \in Nat /\ have[d][i].ver + 1 \in Nat /\ g \in Groups \cup {NoGroup}
    BY DynamoConstants, StampTypes DEF Now
  <2>3. [ts |-> t, ver |-> have[d][i].ver + 1, del |-> FALSE, team |-> TRUE,
         grp |-> IF i \in Snippets THEN g ELSE NoGroup,
         kind |-> IF i \in Snippets THEN "text" ELSE "group", text |-> x] \in Row
    BY <2>2 DEF Row, Kinds, SnippetKinds
  <2>4. have' \in [Devices -> [Records -> Row]] /\ owed' \in [Devices -> SUBSET Records]
    BY <2>1, <2>3
  <2> QED BY <1>2, <2>4 DEF Edit
<1>3. ASSUME NEW d \in Devices, Read(d) PROVE TableTypes'
  <2>1. PICK n \in {seqOf[i] : i \in {j \in Records : seqOf[j] > cursor[d]}} :
          LET shown == {i \in Records : cursor[d] < seqOf[i] /\ seqOf[i] <= n}
          IN  /\ have' = [have EXCEPT ![d] = [i \in Records |->
                            IF i \in shown THEN Merged(d, i, item[i]) ELSE have[d][i]]]
              /\ owed' = [owed EXCEPT ![d] = @ \ {i \in shown : Newer(item[i], have[d][i])}]
              /\ cursor' = [cursor EXCEPT ![d] = n]
    BY <1>3 DEF Read
  <2>2. n \in Nat /\ \A i \in Records : Merged(d, i, item[i]) \in Row
    BY DEF Merged
  <2>3. /\ have' \in [Devices -> [Records -> Row]] /\ owed' \in [Devices -> SUBSET Records]
        /\ cursor' \in [Devices -> Nat]
    BY <2>1, <2>2
  <2> QED BY <1>3, <2>3 DEF Read
<1>4. ASSUME NEW d \in Devices, Push(d) PROVE TableTypes'
  <2>1. [i \in Records |-> IF i \in owed[d] THEN have[d][i] ELSE NoRow] \in [Records -> Row]
    BY StampTypes
  <2>2. left' \in [Devices -> [Records -> Row]] /\ sent' \in [Devices -> [Records -> Row]]
    BY <1>4, <2>1 DEF Push
  <2> QED BY <1>4, <2>2 DEF Push
<1>5. ASSUME NEW d \in Devices, GiveUp(d) PROVE TableTypes'
  BY <1>5 DEF GiveUp
<1>6. ASSUME NEW d \in Devices, TakeNumber(d) PROVE TableTypes'
  BY <1>6 DEF TakeNumber
<1>7. ASSUME NEW d \in Devices, Put(d) PROVE TableTypes'
  <2>1. doing[d] \in Records /\ left[d][doing[d]] \in Row
    BY <1>7 DEF Put
  <2>2. item' \in [Records -> Row] /\ seqOf' \in [Records -> Nat]
    BY <1>7, <2>1 DEF Put
  <2>3. ack' \in [Devices -> [Records -> {"none", "accepted", "superseded"}]]
    <3>1. \/ ack' = [ack EXCEPT ![d][doing[d]] = "accepted"]
          \/ ack' = [ack EXCEPT ![d][doing[d]] = "superseded"]
      BY <1>7 DEF Put, LoserOutcome
    <3>2. ack \in [Devices -> [Records -> {"none", "accepted", "superseded"}]]
      OBVIOUS
    <3> HIDE DEF TableTypes
    <3> QED BY <2>1, <3>1, <3>2
  <2>4. left' \in [Devices -> [Records -> Row]]
    BY <1>7, <2>1, StampTypes DEF Put
  <2> QED BY <1>7, <2>2, <2>3, <2>4 DEF Put
<1>8. ASSUME NEW d \in Devices, EndRequest(d), waiting' = [waiting EXCEPT ![d] = FALSE],
             have' \in [Devices -> [Records -> Row]], owed' \in [Devices -> SUBSET Records]
      PROVE  TableTypes'
  BY <1>0, <1>8 DEF EndRequest
<1>9. ASSUME NEW d \in Devices, Fail(d) PROVE TableTypes'
  BY <1>8, <1>9 DEF Fail
<1>10. ASSUME NEW d \in Devices, Answer(d) PROVE TableTypes'
  <2>1. have' \in [Devices -> [Records -> Row]] /\ owed' \in [Devices -> SUBSET Records]
    <3> DEFINE superseded == {i \in Records : ack[d][i] = "superseded"}
               rows == [i \in Records |->
                          IF i \in superseded THEN Merged(d, i, item[i]) ELSE have[d][i]]
               settled == {i \in Records : ack[d][i] = "accepted"
                                              /\ SameStamp(sent[d][i], have[d][i])}
                            \cup {i \in superseded : Newer(item[i], have[d][i])}
    <3>1. \/ have' = [have EXCEPT ![d] = rows] /\ owed' = [owed EXCEPT ![d] = @ \ settled]
          \/ UNCHANGED <<have, owed>>
      BY <1>10 DEF Answer
    <3>2. rows \in [Records -> Row]
      BY DEF Merged
    <3>3. have \in [Devices -> [Records -> Row]] /\ owed \in [Devices -> SUBSET Records]
      OBVIOUS
    <3> HIDE DEF rows, settled, TableTypes
    <3> QED BY <3>1, <3>2, <3>3
  <2> QED BY <1>8, <1>10, <2>1 DEF Answer
<1> QED
  BY <1>1, <1>2, <1>3, <1>4, <1>5, <1>6, <1>7, <1>9, <1>10 DEF TableNext

-----------------------------------------------------------------------------
(***************************************************************************)
(* The steps, one device and one record at a time.                         *)
(***************************************************************************)
\* The types a step's proof needs.
LEMMA Types ==
  /\ TableTypes =>
       /\ \A i \in Records : item[i] \in Row /\ seqOf[i] \in Nat
       /\ \A d \in Devices, i \in Records :
            /\ have[d][i] \in Row /\ left[d][i] \in Row /\ sent[d][i] \in Row
            /\ ack[d][i] \in {"none", "accepted", "superseded"}
       /\ \A d \in Devices : /\ cursor[d] \in Nat /\ num[d] \in Nat /\ ctr \in Nat
                             /\ doing[d] \in Records \cup {NoId} /\ owed[d] \subseteq Records
       /\ NoId \notin Records /\ Groups \subseteq Records /\ Snippets \subseteq Records
       /\ Snippets \cap Groups = {} /\ NoGroup \notin Groups
BY DynamoConstants, DisjointIds DEF TableTypes, Records

\* What the table says of one record: item and number stay, or a request of device d puts
\* the row it was sent, which beats the item, under the number it holds.
PutOne(d, i) ==
  /\ doing[d] = i /\ Present(left[d][i])
  /\ item'[i] = left[d][i] /\ Newer(left[d][i], item[i]) /\ seqOf'[i] = num[d]

\* What a put does to the table and to its request (merge_one).
LEMMA PutEffect ==
  ASSUME TableTypes, TableInd, NEW d \in Devices, Put(d)
  PROVE  /\ doing[d] \in Records /\ IsNext(d, doing[d]) /\ Present(left[d][doing[d]])
         /\ \A j \in Records : IF j = doing[d] THEN left'[d][j] = NoRow
                                               ELSE left'[d][j] = left[d][j]
         /\ \A e \in Devices \ {d} : /\ left'[e] = left[e] /\ ack'[e] = ack[e]
                                     /\ doing'[e] = doing[e]
         /\ doing'[d] = NoId
         /\ \A j \in Records \ {doing[d]} :
              item'[j] = item[j] /\ seqOf'[j] = seqOf[j] /\ ack'[d][j] = ack[d][j]
         /\ \/ PutOne(d, doing[d]) /\ ack'[d][doing[d]] = "accepted"
            \/ /\ item'[doing[d]] = item[doing[d]] /\ seqOf'[doing[d]] = seqOf[doing[d]]
               /\ ack'[d][doing[d]] = "superseded" /\ Present(item[doing[d]])
<1> DEFINE i == doing[d]
<1>1. i \in Records /\ IsNext(d, i)
  BY Types DEF Put, TableInd, Request
<1>2. Present(left[d][i])
  BY <1>1 DEF IsNext
<1>3. /\ left' = [left EXCEPT ![d][i] = NoRow] /\ doing' = [doing EXCEPT ![d] = NoId]
      /\ left \in [Devices -> [Records -> Row]] /\ doing \in [Devices -> Records \cup {NoId}]
      /\ item \in [Records -> Row] /\ seqOf \in [Records -> Nat]
      /\ ack \in [Devices -> [Records -> {"none", "accepted", "superseded"}]]
  BY DEF Put, TableTypes
<1>4. \/ /\ Wins(left[d][i], i) /\ item' = [item EXCEPT ![i] = left[d][i]]
         /\ seqOf' = [seqOf EXCEPT ![i] = num[d]] /\ ack' = [ack EXCEPT ![d][i] = "accepted"]
      \/ /\ ~Wins(left[d][i], i) /\ ack' = [ack EXCEPT ![d][i] = "superseded"]
         /\ UNCHANGED <<item, seqOf>>
  BY DEF Put, LoserOutcome
<1>5. Wins(left[d][i], i) => Newer(left[d][i], item[i])
  BY <1>1, <1>2, Types, WholeOrder DEF Wins, TableInd, Rows
<1>6. ~Wins(left[d][i], i) => Present(item[i])
  BY DEF Wins
<1> HIDE DEF i
<1>7. /\ \A j \in Records \ {i} :
              item'[j] = item[j] /\ seqOf'[j] = seqOf[j] /\ ack'[d][j] = ack[d][j]
      /\ \A e \in Devices \ {d} : ack'[e] = ack[e]
  BY <1>1, <1>3, <1>4
<1>8. \/ /\ Wins(left[d][i], i) /\ item'[i] = left[d][i] /\ seqOf'[i] = num[d]
         /\ ack'[d][i] = "accepted"
      \/ /\ ~Wins(left[d][i], i) /\ ack'[d][i] = "superseded"
         /\ item'[i] = item[i] /\ seqOf'[i] = seqOf[i]
  BY <1>1, <1>3, <1>4
<1>9. /\ \A j \in Records : left'[d][j] = IF j = i THEN NoRow ELSE left[d][j]
      /\ \A e \in Devices \ {d} : left'[e] = left[e] /\ doing'[e] = doing[e]
      /\ doing'[d] = NoId
  BY <1>1, <1>3
<1> QED BY <1>1, <1>2, <1>5, <1>6, <1>7, <1>8, <1>9 DEF PutOne, i

\* An edit of device d: the row is owed, and its folder is on the device.
LEMMA EditStep == ASSUME TableTypes, TableTypes', TableInd, NEW d \in Devices, Edit(d) PROVE TableInd'
<1>1. PICK i \in Records, t \in Now(d), x \in Texts,
           g \in {h \in Groups : Present(have[d][h])} \cup {NoGroup} :
        /\ have' = [have EXCEPT ![d][i] =
                     [ts |-> t, ver |-> @.ver + 1, del |-> FALSE, team |-> TRUE,
                      grp |-> IF i \in Snippets THEN g ELSE NoGroup,
                      kind |-> IF i \in Snippets THEN "text" ELSE "group", text |-> x]]
        /\ owed' = [owed EXCEPT ![d] = @ \cup {i}]
  BY DEF Edit
<1>2. /\ have \in [Devices -> [Records -> Row]] /\ owed \in [Devices -> SUBSET Records]
      /\ have[d][i].ver \in Nat
  BY StampTypes DEF TableTypes
<1>3. /\ \A e \in Devices \ {d} : have'[e] = have[e] /\ owed'[e] = owed[e]
      /\ \A k \in Records \ {i} : have'[d][k] = have[d][k]
      /\ owed'[d] = owed[d] \cup {i}
      /\ have'[d][i].ver = have[d][i].ver + 1
      /\ have'[d][i].grp = IF i \in Snippets THEN g ELSE NoGroup
  BY <1>1, <1>2
<1>4. /\ UNCHANGED <<item, seqOf, ctr, left, doing, num, ack, sent, cursor, waiting, inTurn>>
  BY DEF Edit, tableVars, requestVars
<1>5. \A e \in Devices, k \in Records : Present(have[e][k]) => Present(have'[e][k])
  BY <1>2, <1>3 DEF Present
<1>6. Present(have'[d][i])
  BY <1>2, <1>3 DEF Present
<1>7. \A e \in Devices : owed[e] \subseteq owed'[e]
  BY <1>3
<1>8. Rows'
  BY <1>3, <1>4, <1>6 DEF TableInd, Rows, Whole
<1>9. (\A e \in Devices : Request(e)') /\ Counted'
  BY <1>4 DEF TableInd, Request, IsNext, Counted, NumbersDistinct
<1>10. Folders'
  <2>1. ASSUME NEW e \in Devices, NEW k \in Snippets, k \in owed'[e], have'[e][k].grp # NoGroup
        PROVE  Present(have'[e][have'[e][k].grp])
    <3>1. k \in Records /\ Groups \subseteq Records
      BY DEF Records
    <3>2. CASE e = d /\ k = i
      <4>1. g \in Groups /\ Present(have[d][g]) /\ have'[d][i].grp = g
        BY <1>3, <2>1, <3>2
      <4> QED BY <1>5, <3>1, <3>2, <4>1
    <3>3. CASE ~(e = d /\ k = i)
      <4>1. have'[e][k] = have[e][k] /\ k \in owed[e]
        BY <1>3, <2>1, <3>1, <3>3
      <4>2. have[e][k].grp \in Groups
        BY <2>1, <3>1, <4>1, Types, StampTypes
      <4> QED BY <1>5, <2>1, <3>1, <4>1, <4>2 DEF TableInd, Folders
    <3> QED BY <3>2, <3>3
  <2> QED BY <1>4, <2>1 DEF TableInd, Folders
<1>11. NoLostPush'
  BY <1>3, <1>4 DEF TableInd, NoLostPush
<1>12. inTurn' => InOrder'
  BY <1>3, <1>4, <1>7 DEF TableInd, InOrder, CursorSound
<1>13. FolderKnown'
  <2>1. ASSUME NEW e \in Devices, NEW k \in Snippets, inTurn, have'[e][k].grp # NoGroup
        PROVE  Present(have'[e][have'[e][k].grp]) \/ cursor[e] < seqOf[have'[e][k].grp]
    <3>1. k \in Records /\ Groups \subseteq Records
      BY DEF Records
    <3>2. CASE e = d /\ k = i
      <4>1. g \in Groups /\ Present(have[d][g]) /\ have'[d][i].grp = g
        BY <1>3, <2>1, <3>2
      <4> QED BY <1>5, <3>1, <3>2, <4>1
    <3>3. CASE ~(e = d /\ k = i)
      <4>1. have'[e][k] = have[e][k]
        BY <1>3, <2>1, <3>1, <3>3
      <4>2. have[e][k].grp \in Groups
        BY <2>1, <3>1, <4>1, Types, StampTypes
      <4> QED BY <1>5, <2>1, <3>1, <4>1, <4>2 DEF TableInd, FolderKnown
    <3> QED BY <3>2, <3>3
  <2> QED BY <1>4, <2>1 DEF FolderKnown
<1> QED BY <1>8, <1>9, <1>10, <1>11, <1>12, <1>13 DEF TableInd

\* Device d takes items of the table: each beats the row it replaces, and what is settled
\* the table holds or has outgrown.
Takes(d) ==
  /\ \A k \in Records :
       /\ \/ have'[d][k] = have[d][k]
          \/ have'[d][k] = item[k] /\ Newer(item[k], have[d][k]) /\ k \notin owed'[d]
       /\ k \in owed[d] \ owed'[d] => ~Newer(have'[d][k], item[k])
  /\ owed'[d] \subseteq owed[d]
  /\ cursor[d] <= cursor'[d]
  /\ inTurn => \A k \in Records :
       seqOf[k] <= cursor'[d] => ~Newer(item[k], have'[d][k]) \/ k \in owed'[d]
  /\ \A e \in Devices \ {d} : have'[e] = have[e] /\ owed'[e] = owed[e] /\ cursor'[e] = cursor[e]

\* What a device takes keeps its rows whole, its folders known and its cursor honest.
LEMMA TakeStep ==
  ASSUME TableTypes, TableTypes', TableInd, NEW d \in Devices, Takes(d), UNCHANGED <<item, seqOf, inTurn>>
  PROVE  /\ \A e \in Devices, k \in Records :
              Whole(have'[e][k]) /\ (k \in owed'[e] => Present(have'[e][k]))
         /\ \A e \in Devices, k \in Snippets :
              k \in owed'[e] /\ have'[e][k].grp # NoGroup => Present(have'[e][have'[e][k].grp])
         /\ NoLostPush' /\ FolderKnown' /\ (inTurn => CursorSound')
<1>0. /\ \A k \in Records : /\ item[k] \in Row /\ seqOf[k] \in Nat
                            /\ \A e \in Devices : have[e][k] \in Row /\ have'[e][k] \in Row
      /\ cursor[d] \in Nat /\ cursor'[d] \in Nat
      /\ Snippets \subseteq Records /\ Groups \subseteq Records
  BY Types DEF TableTypes
<1>1. \A e \in Devices, k \in Records :
        \/ have'[e][k] = have[e][k]
        \/ e = d /\ have'[e][k] = item[k] /\ Newer(item[k], have[e][k]) /\ k \notin owed'[e]
  BY DEF Takes
<1>2. \A e \in Devices : owed'[e] \subseteq owed[e]
  BY DEF Takes
<1>3. \A e \in Devices, k \in Records :
        /\ Whole(item[k]) /\ Whole(have[e][k])
        /\ k \in owed[e] => Present(have[e][k])
        /\ seqOf[k] > 0 => Present(item[k])
  BY DEF TableInd, Rows
<1>4. \A e \in Devices, k \in Records : Present(have[e][k]) => Present(have'[e][k])
  BY <1>0, <1>1, <1>3, WholeOrder
<1>5. \A e \in Devices, k \in Records :
        Whole(have'[e][k]) /\ (k \in owed'[e] => Present(have'[e][k]))
  BY <1>1, <1>2, <1>3, <1>4
<1>6. NoLostPush'
  <2>1. ASSUME NEW e \in Devices, NEW k \in Records, k \notin owed'[e]
        PROVE  ~Newer(have'[e][k], item[k])
    <3>1. CASE e = d /\ k \in owed[d]
      BY <2>1, <3>1 DEF Takes
    <3>2. CASE k \notin owed[e] /\ have'[e][k] = have[e][k]
      BY <3>2 DEF TableInd, NoLostPush
    <3>3. CASE have'[e][k] = item[k]
      BY <1>0, <3>3, Order
    <3>4. e # d => owed'[e] = owed[e]
      BY DEF Takes
    <3> QED BY <1>1, <2>1, <3>1, <3>2, <3>3, <3>4
  <2> QED BY <2>1 DEF NoLostPush
<1>7. ASSUME inTurn, NEW e \in Devices, NEW k \in Records, seqOf[k] <= cursor'[e]
      PROVE  ~Newer(item[k], have'[e][k]) \/ k \in owed'[e]
  BY <1>7 DEF Takes, TableInd, InOrder, CursorSound
<1>8. FolderKnown'
  <2>1. ASSUME NEW e \in Devices, NEW k \in Snippets, inTurn, have'[e][k].grp # NoGroup
        PROVE  Present(have'[e][have'[e][k].grp]) \/ cursor'[e] < seqOf[have'[e][k].grp]
    <3> DEFINE g == have'[e][k].grp
    <3>1. g \in Groups /\ g \in Records /\ k \in Records
      BY <1>0, <2>1, StampTypes
    <3>2. Present(item[g]) \/ Present(have'[e][g])
      <4>1. CASE have'[e][k] = item[k]
        BY <2>1, <4>1 DEF TableInd, Folders
      <4>2. CASE have'[e][k] = have[e][k]
        <5>1. Present(have[e][g]) \/ cursor[e] < seqOf[g]
          BY <2>1, <4>2 DEF TableInd, FolderKnown
        <5>2. cursor[e] \in Nat
          BY Types
        <5> QED BY <1>0, <1>3, <1>4, <3>1, <5>1, <5>2
      <4> QED BY <1>1, <3>1, <4>1, <4>2
    <3>3. cursor'[e] \in Nat /\ seqOf[g] \in Nat
      BY <1>0, <3>1 DEF TableTypes
    <3>4. CASE seqOf[g] <= cursor'[e]
      <4>1. ~Newer(item[g], have'[e][g]) \/ g \in owed'[e]
        BY <1>7, <2>1, <3>1, <3>4
      <4>2. have'[e][g] \in Row /\ item[g] \in Row /\ Whole(have'[e][g])
        BY <1>0, <1>5, <3>1
      <4> HIDE DEF g
      <4>3. Present(have'[e][g])
        BY <1>5, <3>1, <3>2, <4>1, <4>2, WholeOrder
      <4> QED BY <4>3 DEF g
    <3> QED BY <3>3, <3>4
  <2> QED BY <2>1 DEF FolderKnown
<1>9. ASSUME NEW e \in Devices, NEW k \in Snippets, k \in owed'[e], have'[e][k].grp # NoGroup
      PROVE  Present(have'[e][have'[e][k].grp])
  <2>1. have'[e][k] = have[e][k] /\ k \in owed[e] /\ k \in Records
    BY <1>0, <1>1, <1>2, <1>9
  <2>2. have[e][k].grp \in Groups /\ have[e][k].grp \in Records
    BY <1>0, <1>9, <2>1, StampTypes
  <2> QED BY <1>4, <1>9, <2>1, <2>2 DEF TableInd, Folders
<1> QED BY <1>5, <1>6, <1>7, <1>8, <1>9 DEF CursorSound

\* A page is read: what it shows follows the cursor, and the page ends below every number held.
LEMMA ReadStep == ASSUME TableTypes, TableTypes', TableInd, NEW d \in Devices, Read(d) PROVE TableInd'
<1>1. PICK n \in {seqOf[i] : i \in {j \in Records : seqOf[j] > cursor[d]}} :
        LET shown == {i \in Records : cursor[d] < seqOf[i] /\ seqOf[i] <= n}
        IN  /\ have' = [have EXCEPT ![d] = [i \in Records |->
                          IF i \in shown THEN Merged(d, i, item[i]) ELSE have[d][i]]]
            /\ owed' = [owed EXCEPT ![d] = @ \ {i \in shown : Newer(item[i], have[d][i])}]
            /\ cursor' = [cursor EXCEPT ![d] = n]
  BY DEF Read
<1>2. UNCHANGED <<item, seqOf, ctr, waiting, left, doing, num, ack, sent, inTurn>> /\ ~waiting[d]
  BY DEF Read, tableVars, requestVars
<1>3. PICK j \in Records : n = seqOf[j] /\ seqOf[j] > cursor[d]
  OBVIOUS
<1>4. /\ \A k \in Records : item[k] \in Row /\ have[d][k] \in Row /\ seqOf[k] \in Nat
      /\ n \in Nat /\ ctr \in Nat /\ \A e \in Devices : cursor[e] \in Nat /\ num[e] \in Nat
  BY <1>3, Types
<1>5. /\ cursor'[d] = n
      /\ \A e \in Devices \ {d} : have'[e] = have[e] /\ owed'[e] = owed[e] /\ cursor'[e] = cursor[e]
  BY <1>1 DEF TableTypes
<1>6. \A k \in Records :
        IF cursor[d] < seqOf[k] /\ seqOf[k] <= n /\ Newer(item[k], have[d][k])
        THEN have'[d][k] = item[k] /\ k \notin owed'[d]
        ELSE have'[d][k] = have[d][k] /\ (k \in owed'[d] <=> k \in owed[d])
  BY <1>1 DEF TableTypes, Merged
<1>7. Takes(d)
  <2>1. ASSUME NEW k \in Records, inTurn, seqOf[k] <= cursor'[d]
        PROVE  ~Newer(item[k], have'[d][k]) \/ k \in owed'[d]
    <3>1. seqOf[k] <= cursor[d] => ~Newer(item[k], have[d][k]) \/ k \in owed[d]
      BY <2>1 DEF TableInd, InOrder, CursorSound
    <3> QED BY <1>4, <1>5, <1>6, <2>1, <3>1, Order
  <2>2. owed'[d] \subseteq owed[d]
    BY <1>6 DEF TableTypes
  <2>3. cursor[d] <= cursor'[d]
    BY <1>3, <1>4, <1>5
  <2>4. ASSUME NEW k \in Records, k \in owed[d] \ owed'[d] PROVE ~Newer(have'[d][k], item[k])
    BY <1>4, <1>6, <2>4, Order
  <2> QED BY <1>5, <1>6, <2>1, <2>2, <2>3, <2>4 DEF Takes
<1>8. /\ \A e \in Devices, k \in Records :
              Whole(have'[e][k]) /\ (k \in owed'[e] => Present(have'[e][k]))
      /\ \A e \in Devices, k \in Snippets :
              k \in owed'[e] /\ have'[e][k].grp # NoGroup => Present(have'[e][have'[e][k].grp])
      /\ NoLostPush' /\ FolderKnown' /\ (inTurn => CursorSound')
  BY <1>2, <1>7, TakeStep
<1>9. Rows' /\ Folders'
  BY <1>2, <1>8 DEF TableInd, Rows, Folders
<1>10. \A e \in Devices : Request(e)'
  BY <1>2 DEF TableInd, Request, IsNext
<1>11. Counted'
  <2>1. \A e \in Devices : cursor'[e] <= ctr
    BY <1>3, <1>4, <1>5 DEF TableInd, Counted, NumbersDistinct
  <2> QED BY <1>2, <2>1 DEF TableInd, Counted, NumbersDistinct
<1>12. ASSUME inTurn PROVE InOrder'
  <2>1. ASSUME NEW e \in Devices, doing[e] # NoId
        PROVE  \A f \in Devices : cursor'[f] < num[e]
    <3>1. n < num[e] /\ \A f \in Devices : cursor[f] < num[e]
      BY <1>3, <1>12, <2>1 DEF TableInd, InOrder
    <3> QED BY <1>5, <3>1
  <2>2. \A e \in Devices : doing[e] # NoId =>
          (\A f \in Devices \ {e} : doing[f] = NoId) /\ (\A k \in Records : seqOf[k] < num[e])
    BY <1>12 DEF TableInd, InOrder
  <2>3. \A e \in Devices, k \in Records :
          waiting[e] /\ ack[e][k] = "accepted" => cursor'[e] < seqOf[k]
    BY <1>2, <1>5, <1>12 DEF TableInd, InOrder
  <2> QED BY <1>2, <1>8, <1>12, <2>1, <2>2, <2>3 DEF InOrder
<1> QED BY <1>2, <1>8, <1>9, <1>10, <1>11, <1>12 DEF TableInd

\* A request sets out with what the device owes: a snippet's folder is in it, or the table
\* has it because it is not owed.
LEMMA PushStep == ASSUME TableTypes, TableTypes', TableInd, NEW d \in Devices, Push(d) PROVE TableInd'
<1>1. /\ UNCHANGED <<item, seqOf, ctr, have, owed, cursor, doing, num, ack, inTurn>>
      /\ left' = [left EXCEPT ![d] = [i \in Records |->
                    IF i \in owed[d] THEN have[d][i] ELSE NoRow]]
      /\ sent' = [sent EXCEPT ![d] = left'[d]] /\ waiting' = [waiting EXCEPT ![d] = TRUE]
      /\ ack[d] = NoAck /\ left[d] = Nothing
  BY DEF Push, InFlight, tableVars
<1>2. /\ \A i \in Records : left'[d][i] = (IF i \in owed[d] THEN have[d][i] ELSE NoRow)
      /\ sent'[d] = left'[d]
      /\ \A e \in Devices \ {d} : left'[e] = left[e] /\ sent'[e] = sent[e] /\ waiting'[e] = waiting[e]
  BY <1>1 DEF TableTypes
<1>3. \A i \in Records : ack[d][i] = "none" /\ ~Present(left[d][i])
  BY <1>1, StampTypes DEF NoAck, Nothing
<1>4. doing[d] = NoId
  BY <1>3, Types DEF TableInd, Request, IsNext
<1>5. Rows'
  BY <1>1, <1>2 DEF TableInd, Rows, Whole
<1>6. \A e \in Devices : Request(e)'
  BY <1>1, <1>2, <1>3, <1>4 DEF TableInd, Request, IsNext
<1>7. Counted' /\ NoLostPush' /\ FolderKnown'
  BY <1>1 DEF TableInd, Counted, NumbersDistinct, NoLostPush, FolderKnown
<1>8. Folders'
  <2>1. ASSUME NEW i \in Snippets, left'[d][i].grp # NoGroup
        PROVE  Present(item[left'[d][i].grp]) \/ Present(left'[d][left'[d][i].grp])
    <3> DEFINE g == have[d][i].grp
    <3>1. i \in Records /\ i \in owed[d] /\ left'[d][i] = have[d][i]
      BY <1>2, <2>1, Types, StampTypes
    <3>2. g \in Groups /\ g \in Records /\ Present(have[d][g])
      BY <2>1, <3>1, Types, StampTypes DEF TableInd, Folders
    <3>3. CASE g \in owed[d]
      BY <1>2, <3>1, <3>2, <3>3
    <3>4. CASE g \notin owed[d]
      <4>1. ~Newer(have[d][g], item[g]) /\ Whole(item[g])
        BY <3>2, <3>4 DEF TableInd, NoLostPush, Rows
      <4>2. item[g] \in Row /\ have[d][g] \in Row
        BY <3>2, Types
      <4> HIDE DEF g
      <4>3. Present(item[g])
        BY <3>2, <4>1, <4>2, WholeOrder
      <4> QED BY <3>1, <4>3 DEF g
    <3> QED BY <3>3, <3>4
  <2>2. ASSUME NEW e \in Devices \ {d}, NEW i \in Snippets, left'[e][i].grp # NoGroup
        PROVE  Present(item[left'[e][i].grp]) \/ Present(left'[e][left'[e][i].grp])
    BY <1>2, <2>2 DEF TableInd, Folders
  <2> QED BY <1>1, <2>1, <2>2 DEF TableInd, Folders
<1>9. inTurn' => InOrder'
  BY <1>1, <1>2, <1>3 DEF TableInd, InOrder, CursorSound
<1> QED BY <1>5, <1>6, <1>7, <1>8, <1>9 DEF TableInd

\* The client no longer waits.
LEMMA GiveUpStep == ASSUME TableTypes, TableTypes', TableInd, NEW d \in Devices, GiveUp(d) PROVE TableInd'
<1>1. /\ UNCHANGED <<item, seqOf, ctr, have, owed, cursor, left, doing, num, ack, sent, inTurn>>
      /\ \A e \in Devices : waiting'[e] => waiting[e]
  BY DEF GiveUp, tableVars, requestVars, TableTypes
<1>2. Rows' /\ (\A e \in Devices : Request(e)')
  BY <1>1 DEF TableInd, Rows, Request, IsNext
<1>3. Counted' /\ NoLostPush' /\ FolderKnown' /\ Folders'
  BY <1>1 DEF TableInd, Counted, NumbersDistinct, NoLostPush, FolderKnown, Folders
<1>4. inTurn' => InOrder'
  BY <1>1 DEF TableInd, InOrder, CursorSound
<1> QED BY <1>2, <1>3, <1>4 DEF TableInd

\* A number is past all that are given out.
LEMMA TakeNumberStep == ASSUME TableTypes, TableTypes', TableInd, NEW d \in Devices, TakeNumber(d) PROVE TableInd'
<1>1. /\ UNCHANGED <<item, seqOf, have, owed, cursor, waiting, left, ack, sent, inTurn>>
      /\ doing[d] = NoId /\ ctr' = ctr + 1 /\ num' = [num EXCEPT ![d] = ctr + 1]
      /\ inTurn => \A e \in Devices : doing[e] = NoId
  BY DEF TakeNumber, deviceVars
<1>2. PICK i \in Records : IsNext(d, i) /\ doing' = [doing EXCEPT ![d] = i]
  BY DEF TakeNumber
<1>3. /\ doing'[d] = i /\ num'[d] = ctr + 1
      /\ \A e \in Devices \ {d} : doing'[e] = doing[e] /\ num'[e] = num[e]
  BY <1>1, <1>2 DEF TableTypes
<1>4. /\ ctr \in Nat /\ i # NoId /\ \A k \in Records : seqOf[k] \in Nat
      /\ \A e \in Devices : cursor[e] \in Nat /\ num[e] \in Nat
  BY Types
<1>5. \A k \in Records, e \in Devices : seqOf[k] <= ctr /\ cursor[e] <= ctr
  BY DEF TableInd, Counted, NumbersDistinct
<1>6. Rows' /\ NoLostPush' /\ FolderKnown' /\ Folders'
  BY <1>1 DEF TableInd, Rows, NoLostPush, FolderKnown, Folders
<1>7. \A e \in Devices : Request(e)'
  BY <1>1, <1>2, <1>3 DEF TableInd, Request, IsNext
<1>8. Counted'
  <2>1. NumbersDistinct'
    BY <1>1, <1>4, <1>5 DEF TableInd, Counted, NumbersDistinct
  <2>2. ASSUME NEW e \in Devices, doing'[e] # NoId
        PROVE  /\ 0 < num'[e] /\ num'[e] <= ctr'
               /\ \A k \in Records : seqOf'[k] # num'[e]
               /\ \A f \in Devices \ {e} : doing'[f] # NoId => num'[f] # num'[e]
    <3>1. \A f \in Devices \ {d} : doing'[f] # NoId => /\ 0 < num[f] /\ num[f] <= ctr
                                      /\ \A k \in Records : seqOf[k] # num[f]
      BY <1>3 DEF TableInd, Counted
    <3>2. \A f, h \in Devices \ {d} : doing'[f] # NoId /\ doing'[h] # NoId /\ f # h
                                        => num[f] # num[h]
      BY <1>3 DEF TableInd, Counted
    <3> QED BY <1>1, <1>3, <1>4, <1>5, <2>2, <3>1, <3>2
  <2>3. \A e \in Devices : cursor'[e] <= ctr'
    BY <1>1, <1>4, <1>5
  <2> QED BY <2>1, <2>2, <2>3 DEF Counted
<1>9. ASSUME inTurn PROVE InOrder'
  <2>1. ASSUME NEW e \in Devices, doing'[e] # NoId
        PROVE  /\ \A f \in Devices \ {e} : doing'[f] = NoId
               /\ \A k \in Records : seqOf[k] < num'[e]
               /\ \A f \in Devices : cursor[f] < num'[e]
    BY <1>1, <1>3, <1>4, <1>5, <1>9, <2>1
  <2> QED BY <1>1, <1>9, <2>1 DEF TableInd, InOrder, CursorSound
<1> QED BY <1>1, <1>6, <1>7, <1>8, <1>9 DEF TableInd

\* A put that wins stores a row newer than the item, under the number held; a folder that
\* it stores stays stored, and the snippets come after.
LEMMA PutStep == ASSUME TableTypes, TableTypes', TableInd, NEW d \in Devices, Put(d) PROVE TableInd'
<1> DEFINE i == doing[d]
<1>1. /\ i \in Records /\ IsNext(d, i) /\ Present(left[d][i])
      /\ \A j \in Records : IF j = i THEN left'[d][j] = NoRow ELSE left'[d][j] = left[d][j]
      /\ \A e \in Devices \ {d} : left'[e] = left[e] /\ ack'[e] = ack[e] /\ doing'[e] = doing[e]
      /\ doing'[d] = NoId
      /\ \A j \in Records \ {i} :
           item'[j] = item[j] /\ seqOf'[j] = seqOf[j] /\ ack'[d][j] = ack[d][j]
      /\ \/ PutOne(d, i) /\ ack'[d][i] = "accepted"
         \/ /\ item'[i] = item[i] /\ seqOf'[i] = seqOf[i]
            /\ ack'[d][i] = "superseded" /\ Present(item[i])
  BY PutEffect
<1>2. UNCHANGED <<ctr, have, owed, cursor, waiting, num, sent, inTurn>> /\ doing[d] # NoId
  BY DEF Put, deviceVars
<1>3. /\ \A j \in Records : /\ item[j] \in Row /\ item'[j] \in Row /\ seqOf[j] \in Nat
                            /\ \A e \in Devices : /\ have[e][j] \in Row /\ left[e][j] \in Row
                                                  /\ sent[e][j] \in Row
      /\ \A e \in Devices : cursor[e] \in Nat /\ num[e] \in Nat
      /\ ctr \in Nat /\ Groups \subseteq Records /\ Snippets \subseteq Records
      /\ Snippets \cap Groups = {} /\ NoGroup \notin Groups
  BY Types DEF TableTypes
<1>4. 0 < num[d] /\ num[d] <= ctr /\ \A j \in Records : seqOf[j] # num[d]
  BY <1>2 DEF TableInd, Counted
<1> HIDE DEF i
\* An item is what it was or a newer row.
<1>5. \A j \in Records : /\ item'[j] = item[j] \/ Newer(item'[j], item[j])
                         /\ Present(item[j]) => Present(item'[j])
                         /\ Whole(item'[j])
                         /\ seqOf'[j] = seqOf[j] \/ (j = i /\ seqOf'[j] = num[d])
  <2>1. \A j \in Records \ {i} : item'[j] = item[j] /\ Whole(item[j])
    BY <1>1 DEF TableInd, Rows
  <2>2. /\ item'[i] = item[i] \/ (Newer(item'[i], item[i]) /\ Present(item'[i]))
        /\ Whole(item[i])
    BY <1>1 DEF PutOne, TableInd, Rows
  <2> QED BY <1>1, <2>1, <2>2 DEF PutOne, Whole
<1>6. \A j \in Records, r \in Row : ~Newer(r, item[j]) => ~Newer(r, item'[j])
  <2>1. ASSUME NEW j \in Records, NEW r \in Row, ~Newer(r, item[j]) PROVE ~Newer(r, item'[j])
    <3>1. item[j] \in Row /\ item'[j] \in Row /\ ~Newer(item[j], item'[j])
      BY <1>3, <1>5, Order
    <3> QED BY <2>1, <3>1, Order
  <2> QED BY <2>1
<1>7. Present(item'[i])
  BY <1>1, <1>5 DEF PutOne
<1>8. Rows'
  <2>1. ASSUME NEW j \in Records, seqOf'[j] > 0 PROVE Present(item'[j])
    BY <1>1, <1>5, <1>7, <2>1 DEF TableInd, Rows
  <2>2. ASSUME NEW e \in Devices, NEW j \in Records PROVE Whole(left'[e][j])
    BY <1>1 DEF TableInd, Rows, Whole
  <2> QED BY <1>2, <1>5, <2>1, <2>2 DEF TableInd, Rows
<1>9. ASSUME NEW e \in Devices PROVE Request(e)'
  <2>1. doing'[e] # NoId => IsNext(e, doing[e])'
    BY <1>1 DEF TableInd, Request, IsNext
  <2>2. ASSUME NEW j \in Records, Present(left'[e][j]) PROVE left'[e][j] = sent'[e][j]
    BY <1>1, <1>2, <2>2, StampTypes DEF TableInd, Request
  <2>3. ASSUME NEW j \in Records, ack'[e][j] = "accepted" PROVE ~Newer(sent'[e][j], item'[j])
    <3>1. CASE ack[e][j] = "accepted"
      BY <1>2, <1>3, <1>6, <3>1 DEF TableInd, Request
    <3>2. CASE e = d /\ j = i
      <4>1. item'[i] = left[d][i] /\ left[d][i] = sent[d][i]
        BY <1>1, <2>3, <3>2 DEF PutOne, TableInd, Request
      <4> QED BY <1>2, <1>3, <3>2, <4>1, Order
    <3> QED BY <1>1, <2>3, <3>1, <3>2
  <2> QED BY <2>1, <2>2, <2>3 DEF Request
<1>10. Counted'
  <2>1. NumbersDistinct'
    BY <1>2, <1>3, <1>4, <1>5 DEF TableInd, Counted, NumbersDistinct
  <2>2. ASSUME NEW e \in Devices, doing'[e] # NoId
        PROVE  /\ 0 < num[e] /\ num[e] <= ctr
               /\ \A j \in Records : seqOf'[j] # num[e]
               /\ \A f \in Devices \ {e} : doing'[f] # NoId => num[f] # num[e]
    <3>1. e # d /\ doing[e] # NoId
      BY <1>1, <2>2
    <3>2. num[e] # num[d] /\ \A j \in Records : seqOf[j] # num[e]
      BY <1>2, <3>1 DEF TableInd, Counted
    <3>3. 0 < num[e] /\ num[e] <= ctr
      BY <3>1 DEF TableInd, Counted
    <3>4. \A f \in Devices \ {e} : doing[f] # NoId => num[f] # num[e]
      BY <3>1 DEF TableInd, Counted
    <3> QED BY <1>1, <1>5, <3>2, <3>3, <3>4
  <2>3. \A e \in Devices : cursor'[e] <= ctr'
    BY <1>2 DEF TableInd, Counted
  <2> QED BY <1>2, <2>1, <2>2, <2>3 DEF Counted
<1>11. Folders'
  <2>1. ASSUME NEW k \in Snippets, item'[k].grp # NoGroup PROVE Present(item'[item'[k].grp])
    <3>1. k \in Records /\ item'[k].grp \in Groups /\ item'[k].grp \in Records
      BY <1>3, <2>1, StampTypes
    <3>2. CASE item'[k] = item[k]
      <4>1. Present(item[item[k].grp])
        BY <2>1, <3>2 DEF TableInd, Folders
      <4> QED BY <1>5, <3>1, <3>2, <4>1
    <3>3. CASE k = i /\ item'[k] = left[d][i]
      <4>1. ~Present(left[d][left[d][i].grp])
        BY <1>1, <3>1, <3>3 DEF IsNext
      <4>2. Present(item[left[d][i].grp])
        BY <2>1, <3>3, <4>1 DEF TableInd, Folders
      <4> QED BY <1>5, <3>1, <3>3, <4>2
    <3> QED BY <1>1, <3>1, <3>2, <3>3 DEF PutOne
  <2>2. ASSUME NEW e \in Devices, NEW k \in Snippets, left'[e][k].grp # NoGroup
        PROVE  Present(item'[left'[e][k].grp]) \/ Present(left'[e][left'[e][k].grp])
    <3>1. left'[e][k] = left[e][k] /\ k \in Records
      BY <1>1, <1>3, <2>2, StampTypes
    <3>2. left[e][k].grp \in Groups /\ left[e][k].grp \in Records
      BY <1>3, <2>2, <3>1, StampTypes
    <3>3. Present(item[left[e][k].grp]) \/ Present(left[e][left[e][k].grp])
      BY <2>2, <3>1 DEF TableInd, Folders
    <3> QED BY <1>1, <1>5, <1>7, <3>1, <3>2, <3>3
  <2>3. ASSUME NEW e \in Devices, NEW k \in Snippets, k \in owed[e], have[e][k].grp # NoGroup
        PROVE  Present(have[e][have[e][k].grp])
    BY <2>3 DEF TableInd, Folders
  <2> QED BY <1>2, <2>1, <2>2, <2>3 DEF Folders
<1>12. NoLostPush'
  BY <1>2, <1>3, <1>6 DEF TableInd, NoLostPush
<1>13. ASSUME inTurn PROVE /\ \A e \in Devices : doing'[e] = NoId
                           /\ \A e \in Devices : cursor[e] < num[d]
  BY <1>1, <1>2, <1>13 DEF TableInd, InOrder
<1>14. ASSUME inTurn PROVE InOrder'
  <2>1. ASSUME NEW e \in Devices, NEW j \in Records, seqOf'[j] <= cursor[e]
        PROVE  ~Newer(item'[j], have[e][j]) \/ j \in owed[e]
    <3>1. seqOf'[j] # num[d]
      BY <1>3, <1>13, <1>14, <2>1
    <3>2. item'[j] = item[j] /\ seqOf'[j] = seqOf[j]
      BY <1>1, <3>1 DEF PutOne
    <3> QED BY <1>14, <2>1, <3>2 DEF TableInd, InOrder, CursorSound
  <2>2. ASSUME NEW e \in Devices, NEW j \in Records, waiting[e], ack'[e][j] = "accepted"
        PROVE  cursor[e] < seqOf'[j]
    <3>1. CASE seqOf'[j] = num[d]
      BY <1>13, <1>14, <3>1
    <3>2. CASE seqOf'[j] # num[d]
      <4>1. ack[e][j] = "accepted" /\ seqOf'[j] = seqOf[j]
        BY <1>1, <2>2, <3>2 DEF PutOne
      <4> QED BY <1>14, <2>2, <4>1 DEF TableInd, InOrder
    <3> QED BY <3>1, <3>2
  <2> QED BY <1>2, <1>13, <1>14, <2>1, <2>2 DEF InOrder, CursorSound
<1>15. FolderKnown'
  <2>1. ASSUME NEW e \in Devices, NEW k \in Snippets, inTurn, have[e][k].grp # NoGroup
        PROVE  Present(have[e][have[e][k].grp]) \/ cursor[e] < seqOf'[have[e][k].grp]
    <3>1. have[e][k].grp \in Records
      BY <1>3, <2>1, StampTypes
    <3>2. Present(have[e][have[e][k].grp]) \/ cursor[e] < seqOf[have[e][k].grp]
      BY <2>1 DEF TableInd, FolderKnown
    <3> QED BY <1>5, <1>13, <2>1, <3>1, <3>2
  <2> QED BY <1>2, <2>1 DEF FolderKnown
<1> QED BY <1>2, <1>8, <1>9, <1>10, <1>11, <1>12, <1>14, <1>15 DEF TableInd

\* A request ends, whatever the device takes from the answer.
LEMMA EndStep ==
  ASSUME TableTypes, TableTypes', TableInd, NEW d \in Devices, Takes(d), EndRequest(d),
         waiting' = [waiting EXCEPT ![d] = FALSE]
  PROVE  TableInd'
<1>1. /\ UNCHANGED <<item, seqOf, ctr, cursor, num, inTurn>>
      /\ \A i \in Records : left'[d][i] = NoRow /\ ack'[d][i] = "none"
      /\ doing'[d] = NoId /\ ~waiting'[d]
      /\ \A e \in Devices \ {d} : /\ left'[e] = left[e] /\ doing'[e] = doing[e]
                                  /\ ack'[e] = ack[e] /\ sent'[e] = sent[e]
                                  /\ waiting'[e] = waiting[e]
  BY DEF EndRequest, tableVars, Nothing, NoAck, TableTypes
<1>2. /\ \A e \in Devices, k \in Records :
              Whole(have'[e][k]) /\ (k \in owed'[e] => Present(have'[e][k]))
      /\ \A e \in Devices, k \in Snippets :
              k \in owed'[e] /\ have'[e][k].grp # NoGroup => Present(have'[e][have'[e][k].grp])
      /\ NoLostPush' /\ FolderKnown' /\ (inTurn => CursorSound')
  BY <1>1, TakeStep
<1>3. Rows'
  BY <1>1, <1>2 DEF TableInd, Rows, Whole
<1>4. \A e \in Devices : Request(e)'
  BY <1>1, StampTypes DEF TableInd, Request, IsNext
<1>5. Counted'
  BY <1>1 DEF TableInd, Counted, NumbersDistinct
<1>6. Folders'
  <2>1. ASSUME NEW e \in Devices, NEW k \in Snippets, left'[e][k].grp # NoGroup
        PROVE  Present(item[left'[e][k].grp]) \/ Present(left'[e][left'[e][k].grp])
    <3>1. e # d
      BY <1>1, <2>1, Types, StampTypes
    <3> QED BY <1>1, <2>1, <3>1 DEF TableInd, Folders
  <2> QED BY <1>1, <1>2, <2>1 DEF TableInd, Folders
<1>7. inTurn => InOrder'
  BY <1>1, <1>2 DEF TableInd, InOrder
<1> QED BY <1>1, <1>2, <1>3, <1>4, <1>5, <1>6, <1>7 DEF TableInd

\* A request that fails leaves the device as it is.
LEMMA FailStep == ASSUME TableTypes, TableTypes', TableInd, NEW d \in Devices, Fail(d) PROVE TableInd'
<1>1. EndRequest(d) /\ waiting' = [waiting EXCEPT ![d] = FALSE]
      /\ UNCHANGED <<have, owed, cursor, item, seqOf, inTurn>>
  BY DEF Fail, EndRequest, tableVars
<1>2. cursor[d] \in Nat
  BY Types
<1>3. inTurn => \A k \in Records : seqOf[k] <= cursor[d] => ~Newer(item[k], have[d][k]) \/ k \in owed[d]
  BY DEF TableInd, InOrder, CursorSound
<1>4. Takes(d)
  BY <1>1, <1>2, <1>3 DEF Takes
<1> QED BY <1>1, <1>4, EndStep

\* An answer settles what the table holds and brings what superseded the device's rows.
LEMMA AnswerStep == ASSUME TableTypes, TableTypes', TableInd, NEW d \in Devices, Answer(d) PROVE TableInd'
<1>1. EndRequest(d) /\ waiting' = [waiting EXCEPT ![d] = FALSE]
      /\ UNCHANGED <<cursor, item, seqOf, inTurn>>
  BY DEF Answer, EndRequest, tableVars
<1>2. /\ cursor[d] \in Nat
      /\ \A k \in Records : /\ have[d][k] \in Row /\ item[k] \in Row
                            /\ sent[d][k] \in Row /\ seqOf[k] \in Nat
  BY Types
<1>3. CASE ~waiting[d]
  <2>1. UNCHANGED <<have, owed>>
    BY <1>3 DEF Answer
  <2>2. inTurn => \A k \in Records :
          seqOf[k] <= cursor[d] => ~Newer(item[k], have[d][k]) \/ k \in owed[d]
    BY DEF TableInd, InOrder, CursorSound
  <2>3. Takes(d)
    BY <1>1, <1>2, <2>1, <2>2 DEF Takes
  <2> QED BY <1>1, <2>3, EndStep
<1>4. CASE waiting[d]
  <2> DEFINE superseded == {i \in Records : ack[d][i] = "superseded"}
             rows == [i \in Records |->
                        IF i \in superseded THEN Merged(d, i, item[i]) ELSE have[d][i]]
             settled == {i \in Records : ack[d][i] = "accepted"
                                            /\ SameStamp(sent[d][i], have[d][i])}
                          \cup {i \in superseded : Newer(item[i], have[d][i])}
  <2>1. have' = [have EXCEPT ![d] = rows] /\ owed' = [owed EXCEPT ![d] = @ \ settled]
    BY <1>4 DEF Answer
  <2>2. /\ have'[d] = rows /\ owed'[d] = owed[d] \ settled
        /\ \A e \in Devices \ {d} : have'[e] = have[e] /\ owed'[e] = owed[e]
    <3> HIDE DEF rows, settled
    <3> QED BY <2>1 DEF TableTypes
  <2>3. \A k \in Records :
          \/ have'[d][k] = have[d][k]
          \/ have'[d][k] = item[k] /\ Newer(item[k], have[d][k]) /\ k \notin owed'[d]
    BY <2>2 DEF Merged
  <2>4. \A k \in settled :
          \/ have'[d][k] = item[k]
          \/ have'[d][k] = have[d][k] /\ ack[d][k] = "accepted"
               /\ SameStamp(sent[d][k], have[d][k])
    BY <2>2 DEF Merged
  <2>5. settled \subseteq Records
    OBVIOUS
  <2> HIDE DEF settled
  <2>6. ASSUME NEW k \in Records, k \in owed[d] \ owed'[d] PROVE ~Newer(have'[d][k], item[k])
    <3>1. ack[d][k] = "accepted" => ~Newer(sent[d][k], item[k])
      BY DEF TableInd, Request
    <3> QED BY <1>2, <2>2, <2>4, <2>6, <3>1, Order
  <2>7. ASSUME inTurn, NEW k \in Records, seqOf[k] <= cursor[d]
        PROVE  ~Newer(item[k], have'[d][k]) \/ k \in owed'[d]
    <3>1. ~Newer(item[k], have[d][k]) \/ k \in owed[d]
      BY <2>7 DEF TableInd, InOrder, CursorSound
    <3>2. ack[d][k] # "accepted"
      BY <1>2, <1>4, <2>7 DEF TableInd, InOrder
    <3>3. have'[d][k] = item[k] => ~Newer(item[k], have'[d][k])
      BY <1>2, Order
    <3> QED BY <2>2, <2>3, <2>4, <3>1, <3>2, <3>3
  <2>8. cursor' = cursor /\ cursor[d] <= cursor[d] /\ owed'[d] \subseteq owed[d]
    BY <1>1, <1>2, <2>2
  <2> HIDE DEF rows, superseded
  <2>9. Takes(d)
    BY <2>2, <2>3, <2>6, <2>7, <2>8 DEF Takes
  <2> QED BY <1>1, <2>9, EndStep
<1> QED BY <1>3, <1>4

-----------------------------------------------------------------------------
\* The invariant holds at first, and every step keeps it.
LEMMA InitInd == TableInit => TableTypes /\ TableInd
<1> SUFFICES ASSUME TableInit PROVE TableTypes /\ TableInd
  OBVIOUS
<1>1. TableTypes
  BY StampTypes DEF TableInit, TableTypes, Nothing, NoAck
<1>2. \A d \in Devices :
        /\ doing[d] = NoId /\ owed[d] = {} /\ cursor[d] = 0 /\ ~waiting[d]
        /\ \A i \in Records : /\ have[d][i] = NoRow /\ left[d][i] = NoRow /\ sent[d][i] = NoRow
                              /\ ack[d][i] = "none"
  BY DEF TableInit, Nothing, NoAck
<1>3. Snippets \subseteq Records /\ \A i \in Records : item[i] = NoRow /\ seqOf[i] = 0
  BY DEF Records, TableInit, Nothing
<1>4. ~Newer(NoRow, NoRow) /\ NoRow.grp = NoGroup /\ ~Present(NoRow) /\ ctr = 0
  BY Order, StampTypes DEF TableInit
<1>5. Rows /\ Counted
  BY <1>2, <1>3, <1>4 DEF Rows, Counted, NumbersDistinct, Whole
<1>6. \A d \in Devices : Request(d)
  BY <1>2, <1>4 DEF Request
<1>7. Folders
  BY <1>2, <1>3, <1>4 DEF Folders
<1>8. NoLostPush /\ InOrder
  BY <1>2, <1>3, <1>4 DEF NoLostPush, InOrder, CursorSound
<1>9. FolderKnown
  BY <1>2, <1>3, <1>4 DEF FolderKnown
<1> QED BY <1>1, <1>5, <1>6, <1>7, <1>8, <1>9 DEF TableInd

\* Every step keeps the invariant and the types.
LEMMA IndStep == ASSUME TableTypes, TableInd, [TableNext]_dynamoVars PROVE TableTypes' /\ TableInd'
<1>1. TableTypes'
  BY TypeStep
<1>2. CASE UNCHANGED dynamoVars
  <2>1. UNCHANGED <<item, seqOf, ctr, have, owed, cursor, waiting, left, doing, num, ack, sent, inTurn>>
    BY <1>2 DEF dynamoVars, tableVars, deviceVars, requestVars
  <2>2. Rows' /\ (\A e \in Devices : Request(e)') /\ Counted' /\ NoLostPush'
    BY <2>1 DEF TableInd, Rows, Request, IsNext, Counted, NumbersDistinct, NoLostPush
  <2>3. FolderKnown' /\ Folders' /\ (inTurn' => InOrder')
    BY <2>1 DEF TableInd, FolderKnown, Folders, InOrder, CursorSound
  <2> QED BY <1>1, <2>2, <2>3 DEF TableInd
<1>3. ASSUME NEW d \in Devices,
             \/ Edit(d) \/ Read(d) \/ Push(d) \/ GiveUp(d)
             \/ TakeNumber(d) \/ Put(d) \/ Fail(d) \/ Answer(d)
      PROVE  TableInd'
  BY <1>1, <1>3, EditStep, ReadStep, PushStep, GiveUpStep, TakeNumberStep, PutStep, FailStep,
     AnswerStep
<1>4. CASE TableNext
  BY <1>1, <1>3, <1>4 DEF TableNext
<1> QED BY <1>2, <1>4

\* For every set of devices and records: numbers are distinct and within the counter, no push
\* is lost, and without overlaps a snippet's folder is on the device or ahead of its cursor.
THEOREM TableIsSound == TableSpec => []TableSound
<1>1. TableInit => TableTypes /\ TableInd
  BY InitInd
<1>2. TableTypes /\ TableInd /\ [TableNext]_dynamoVars => (TableTypes /\ TableInd)'
  BY IndStep
<1>3. TableTypes /\ TableInd => TableSound
  BY DEF TableInd, Counted, TableSound
<1> QED BY <1>1, <1>2, <1>3, PTL DEF TableSpec

-----------------------------------------------------------------------------
\* ChangeFeed's rows and order are this module's.
LEMMA FeedTerms ==
  /\ Feed!Records = Records /\ Feed!Row = Row /\ Feed!NoRow = NoRow
  /\ \A a, b : Feed!Newer(a, b) <=> Newer(a, b)
BY DEF Feed!Records, Records, Feed!Row, Row, Feed!NoRow, NoRow, Feed!Newer, Newer, Feed!Kinds,
       Kinds, Feed!SnippetKinds, SnippetKinds

\* A put in the counter's order publishes its row, or leaves the feed alone.
LEMMA PutPublishes ==
  ASSUME TableTypes, TableTypes', TableInd, inTurn, NEW d \in Devices, Put(d) PROVE FollowsFeed
<1> DEFINE i == doing[d]
<1>1. /\ i \in Records
      /\ \A j \in Records \ {i} : item'[j] = item[j] /\ seqOf'[j] = seqOf[j]
      /\ PutOne(d, i) \/ (item'[i] = item[i] /\ seqOf'[i] = seqOf[i])
  BY PutEffect
<1>2. /\ item' \in [Records -> Row] /\ seqOf' \in [Records -> Nat] /\ UNCHANGED cursor
      /\ item \in [Records -> Row] /\ seqOf \in [Records -> Nat] /\ doing[d] # NoId
  BY DEF Put, deviceVars, TableTypes
<1>3. /\ \A j \in Records : seqOf[j] < num[d]
      /\ \A e \in Devices : cursor[e] < num[d]
  BY <1>2 DEF TableInd, InOrder
<1>4. \A j \in Records : seqOf[j] \in Nat /\ num[d] \in Nat /\ \A e \in Devices : cursor[e] \in Nat
  BY Types
<1> HIDE DEF i
<1>5. CASE PutOne(d, i)
  <2>1. Newer(item'[i], item[i]) /\ seqOf'[i] = num[d]
    BY <1>5 DEF PutOne
  <2>2. Feed!Publish({i})
    BY <1>1, <1>2, <1>3, <1>4, <2>1, FeedTerms DEF Feed!Publish
  <2>3. {i} \in SUBSET Feed!Records
    BY <1>1, FeedTerms
  <2> QED BY <2>2, <2>3 DEF FollowsFeed, Feed!Next
<1>6. CASE item'[i] = item[i] /\ seqOf'[i] = seqOf[i]
  <2>1. \A j \in Records : item'[j] = item[j] /\ seqOf'[j] = seqOf[j]
    BY <1>1, <1>6
  <2>2. item' = item /\ seqOf' = seqOf
    BY <1>2, <2>1
  <2> QED BY <1>2, <2>2 DEF FollowsFeed, Feed!feedVars
<1> QED BY <1>1, <1>5, <1>6

\* A page advances its reader, to no further than the last number in the table.
LEMMA ReadAdvances == ASSUME TableTypes, NEW d \in Devices, Read(d) PROVE FollowsFeed
<1>1. PICK n \in {seqOf[i] : i \in {j \in Records : seqOf[j] > cursor[d]}} :
        cursor' = [cursor EXCEPT ![d] = n]
  BY DEF Read
<1>2. PICK j \in Records : n = seqOf[j] /\ seqOf[j] > cursor[d]
  OBVIOUS
<1>3. UNCHANGED <<item, seqOf>> /\ cursor'[d] = n /\ seqOf[j] \in Nat /\ cursor[d] \in Nat
  BY <1>1 DEF Read, tableVars, TableTypes
<1>4. \E k \in Feed!Records : cursor'[d] <= seqOf[k]
  BY <1>2, <1>3, FeedTerms
<1>5. Feed!Advance(d)
  BY <1>1, <1>2, <1>3, <1>4 DEF Feed!Advance
<1> QED BY <1>5 DEF FollowsFeed, Feed!Next

\* With the puts in the counter's order the DynamoDB table implements the change feed; the
\* overlap of requests is all that keeps it from doing so.
THEOREM TableImplementsFeed == TableSpec => ImplementsFeed
<1>1. TableInit => TableTypes /\ TableInd
  BY InitInd
<1>2. TableTypes /\ TableInd /\ [TableNext]_dynamoVars => (TableTypes /\ TableInd)'
  BY IndStep
<1>3. TableInit => Feed!Init
  BY FeedTerms DEF TableInit, Nothing, Feed!Init
<1>4. ASSUME TableTypes, TableInd, [TableNext]_dynamoVars PROVE [inTurn => FollowsFeed]_dynamoVars
  <2>1. SUFFICES ASSUME inTurn, TableNext PROVE FollowsFeed
    BY <1>4
  <2>2. TableTypes'
    BY <1>2, <1>4
  <2>3. ASSUME NEW d \in Devices,
               Edit(d) \/ Push(d) \/ GiveUp(d) \/ TakeNumber(d) \/ Fail(d) \/ Answer(d)
        PROVE  FollowsFeed
    BY <2>3 DEF Edit, Push, GiveUp, TakeNumber, Fail, Answer, EndRequest, tableVars, deviceVars,
                FollowsFeed, Feed!feedVars
  <2> QED BY <1>4, <2>1, <2>2, <2>3, PutPublishes, ReadAdvances DEF TableNext
<1> QED BY <1>1, <1>2, <1>3, <1>4, PTL DEF TableSpec, ImplementsFeed

-----------------------------------------------------------------------------
(***************************************************************************)
(* Membership: the inductive invariant.                                    *)
(***************************************************************************)
\* Where a request goes on to; redeem_invite() sets out from "org".
Places == {"resolve", "bootstrap", "crown", "look", "count", "write", "tokens", "consume"}

\* A request is a record of these fields.
Requests ==
  [id : RequestIds, op : Ops, by : Subs, target : Subs, claim : BOOLEAN,
   otherwise : {0} \cup Roles, token : {0} \cup Invites, role : {0} \cup Roles,
   invite : {0} \cup Invites, caller : {0} \cup Roles, at : {"org"} \cup Places]

\* The types of the tables and the histories.
Stored ==
  /\ serial \in BOOLEAN /\ default \in {0} \cup Roles
  /\ row \in [Subs -> {0} \cup Roles]
  /\ invite \in [Invites -> [sub : Subs \cup {"nobody"}, role : {0} \cup Roles, live : BOOLEAN]]
  /\ made \in 0..MaxRequests
  /\ outside \subseteq Subs
  /\ joined \subseteq RequestIds \X Invites

\* Requests are told apart by their numbers.
Numbered ==
  /\ \A q \in open : q.id <= made
  /\ \A p, q \in open : p.id = q.id => p = q

\* No invite makes an owner, and a live one is somebody's.
Minted == \A i \in Invites : invite[i].role # Owner /\ (invite[i].live => invite[i].sub \in Subs)

\* Where a request of each kind can be, and on whose word it gets there.
Sane(q) ==
  /\ q.op = "redeem" => q.at \in {"org", "look", "write", "consume"} /\ q.invite \in Invites
  /\ q.op = "leave" => q.at \in {"resolve", "count", "write", "tokens"}
  /\ q.op \in {"set", "remove"} => q.at \in {"resolve", "bootstrap", "crown", "look", "write"}
  /\ q.op = "revoke" => q.at \in {"resolve", "bootstrap", "crown", "look", "tokens", "write"}
  /\ q.op \in {"touch", "invite"} => q.at \in {"resolve", "bootstrap", "crown", "write"}
  /\ q.op \notin {"set", "remove", "revoke", "invite"} => q.target = q.by
  /\ q.at \in {"bootstrap", "crown"} => q.claim
  /\ q.op = "set" /\ q.at = "write" /\ q.role = Owner => q.caller = Owner

\* A role is redeemed as the invite names it; one that names none is given the default.
OfInvite(q) ==
  q.op = "redeem" =>
    /\ invite[q.invite].sub # "nobody"
    /\ invite[q.invite].role # 0 \/ q.at = "org" => q.role = invite[q.invite].role

\* What a request that is alone knows of the rows it is about to write, and of the default.
Informed(q) ==
  /\ q.op \in {"set", "remove", "revoke"} /\ q.at \in {"write", "tokens"} /\ row[q.target] = Owner
       => q.caller = Owner
  /\ q.op = "leave" /\ q.at = "write" /\ row[q.by] = Owner
       => \E s \in Subs \ {q.by} : row[s] = Owner
  /\ q.op = "redeem" /\ q.at \in {"look", "write"} /\ invite[q.invite].role = 0
       => q.role = EffectiveDefault

\* What it knows of the invites.
Unspent(q) ==
  q.op = "redeem" /\ q.at \in {"org", "look", "write"} => \A j \in joined : j[2] # q.invite

\* What it does for those who were revoked.
Harmless(q) ==
  /\ q.op = "revoke" /\ q.at = "write" =>
       \A i \in Invites : invite[i].sub = q.target => ~invite[i].live
  /\ q.op \in {"set", "invite", "redeem"} => q.target \notin outside
  /\ q.claim /\ q.by \notin Claimed => q.by \notin outside

\* An invite that somebody joined with is used up, or about to be by the request that joined.
Spent ==
  \A j \in joined :
    /\ invite[j[2]].sub # "nobody"
    /\ \/ ~invite[j[2]].live
       \/ \E q \in open : /\ q.at = "consume" /\ q.id = j[1] /\ q.invite = j[2]
                          /\ q.token # q.invite

\* The inductive invariant: Sound and RevokedStaysOut, and what they rest on.
Ind ==
  /\ open \subseteq Requests /\ Stored /\ Numbered /\ Minted
  /\ \A q \in open : Sane(q) /\ OfInvite(q)
  /\ serial => /\ \A p, q \in open : p = q
               /\ \A q \in open : Informed(q) /\ Unspent(q) /\ Harmless(q)
               /\ Spent /\ InviteOnce /\ RevokedStaysOut

-----------------------------------------------------------------------------
(***************************************************************************)
(* How a request goes on.                                                  *)
(***************************************************************************)
Moved(q, c, p) == [q EXCEPT !.caller = c, !.at = p]
Goes(q, c, p) == open' = (open \ {q}) \cup {Moved(q, c, p)}

\* A request that goes on keeps everything but its place and what it knows of its caller.
LEMMA MovedFields ==
  ASSUME NEW q \in Requests, NEW c \in {0} \cup Roles, NEW p \in Places
  PROVE  LET r == Moved(q, c, p)
         IN  /\ r \in Requests /\ r.caller = c /\ r.at = p
             /\ r.id = q.id /\ r.op = q.op /\ r.by = q.by /\ r.target = q.target
             /\ r.claim = q.claim /\ r.otherwise = q.otherwise /\ r.token = q.token
             /\ r.role = q.role /\ r.invite = q.invite
BY DEF Moved, Requests

\* Goto and Knows in these terms.
LEMMA Goings ==
  ASSUME NEW q \in Requests, NEW c, NEW p
  PROVE  (Goto(q, p) <=> Goes(q, q.caller, p)) /\ (Knows(q, c, p) <=> Goes(q, c, p))
<1>1. [q EXCEPT !.at = p] = Moved(q, q.caller, p)
  BY DEF Moved, Requests
<1> QED BY <1>1 DEF Goto, Knows, Goes, Moved

\* q ends, or is somewhere else with a sane record.
Moves(q) ==
  /\ UNCHANGED <<made, serial, default>>
  /\ \/ Close(q)
     \/ \E c \in {0} \cup Roles, p \in Places \ {q.at} : Goes(q, c, p) /\ Sane(Moved(q, c, p))

\* The request that is replaced is the one that Acting names; all others stay.
LEMMA Replaced ==
  ASSUME open \subseteq Requests, Numbered, \A r \in open : Sane(r), UNCHANGED made,
         NEW q \in open, NEW R \in SUBSET Requests, open' = (open \ {q}) \cup R,
         \A r \in R : r # q /\ r.id = q.id /\ Sane(r), \A r, s \in R : r = s
  PROVE  /\ Acting = q
         /\ open' \subseteq Requests /\ Numbered' /\ \A r \in open' : Sane(r)
<1>1. q \notin open' /\ \A r \in open : r \notin open' => r = q
  OBVIOUS
<1>2. Acting = q
  BY <1>1 DEF Acting
<1>3. Numbered'
  BY DEF Numbered
<1> QED BY <1>2, <1>3

\* So it is with a move.
LEMMA MovesKeep ==
  ASSUME open \subseteq Requests, Numbered, \A r \in open : Sane(r), NEW q \in open, Moves(q)
  PROVE  /\ Acting = q
         /\ open' \subseteq Requests /\ Numbered' /\ \A r \in open' : Sane(r)
<1>0. UNCHANGED made
  BY DEF Moves
<1>1. CASE Close(q)
  <2> DEFINE R == {}
  <2>1. R \in SUBSET Requests /\ open' = (open \ {q}) \cup R
    BY <1>1 DEF Close
  <2>2. (\A r \in R : r # q /\ r.id = q.id /\ Sane(r)) /\ \A r, s \in R : r = s
    OBVIOUS
  <2> HIDE DEF R
  <2> QED BY <1>0, <2>1, <2>2, Replaced
<1>2. CASE \E c \in {0} \cup Roles, p \in Places \ {q.at} : Goes(q, c, p) /\ Sane(Moved(q, c, p))
  <2>1. PICK c \in {0} \cup Roles, p \in Places \ {q.at} : Goes(q, c, p) /\ Sane(Moved(q, c, p))
    BY <1>2
  <2>2. Moved(q, c, p) \in Requests /\ Moved(q, c, p).at = p /\ Moved(q, c, p).id = q.id
    BY MovedFields
  <2>3. Moved(q, c, p) # q
    BY <2>2
  <2> DEFINE R == {Moved(q, c, p)}
  <2>4. R \in SUBSET Requests /\ open' = (open \ {q}) \cup R
    BY <2>1, <2>2 DEF Goes
  <2>5. (\A r \in R : r # q /\ r.id = q.id /\ Sane(r)) /\ \A r, s \in R : r = s
    BY <2>1, <2>2, <2>3
  <2> HIDE DEF R
  <2> QED BY <1>0, <2>4, <2>5, Replaced
<1> QED BY <1>1, <1>2 DEF Moves

\* What an invite is for stays, so a redeem still knows its role.
LEMMA MovesOfInvite ==
  ASSUME open \subseteq Requests, \A r \in open : Sane(r) /\ OfInvite(r), NEW q \in open, Moves(q),
         \A i \in Invites : invite[i].sub # "nobody" =>
                              invite'[i].sub = invite[i].sub /\ invite'[i].role = invite[i].role
  PROVE  \A r \in open' : OfInvite(r)'
<1>1. \A r \in open : r.op = "redeem" => r.invite \in Invites
  BY DEF Sane
<1>2. \A r \in open : OfInvite(r)'
  BY <1>1 DEF OfInvite
<1>3. ASSUME NEW c \in {0} \cup Roles, NEW p \in Places, Goes(q, c, p)
      PROVE  OfInvite(Moved(q, c, p))'
  <2> DEFINE m == Moved(q, c, p)
  <2>1. m.op = q.op /\ m.invite = q.invite /\ m.role = q.role /\ m.at # "org"
    <3>1. m.op = q.op /\ m.invite = q.invite /\ m.role = q.role /\ m.at = p
      BY MovedFields
    <3> QED BY <3>1 DEF Places
  <2> HIDE DEF m
  <2>2. OfInvite(m)'
    BY <1>1, <2>1 DEF OfInvite
  <2> QED BY <2>2 DEF m
<1> QED BY <1>2, <1>3 DEF Moves, Close, Goes

\* Every step of a request moves it.
LEMMA RequestMoves ==
  ASSUME open \subseteq Requests, \A r \in open : Sane(r), Stored, NEW q \in open,
         \/ ResolveRole(q) \/ LookForOwner(q) \/ Crown(q) \/ CountOwners(q)
         \/ Look(q) \/ Write(q) \/ Tokens(q) \/ Consume(q) \/ Abandon(q)
  PROVE  Moves(q)
<1>0. /\ q \in Requests /\ Sane(q) /\ q.caller \in {0} \cup Roles
      /\ UNCHANGED <<made, serial, default>>
      /\ Owner \in Roles /\ \A c, p : Goto(q, p) => Goes(q, q.caller, p)
      /\ \A c, p : Knows(q, c, p) => Goes(q, c, p)
  BY Goings DEF Requests, ResolveRole, LookForOwner, Crown, CountOwners, Look, Write, Tokens,
                Consume, Abandon, At, Roles, Owner, Reader
\* A move to c and p is sane if the record that results is.
<1>1. ASSUME NEW c \in {0} \cup Roles, NEW p \in Places \ {q.at}, Goes(q, c, p),
             q.op = "redeem" => p \in {"look", "write", "consume"},
             q.op = "leave" => p \in {"resolve", "count", "write", "tokens"},
             q.op \in {"set", "remove"} => p \in {"resolve", "bootstrap", "crown", "look", "write"},
             q.op = "revoke" =>
               p \in {"resolve", "bootstrap", "crown", "look", "tokens", "write"},
             q.op \in {"touch", "invite"} => p \in {"resolve", "bootstrap", "crown", "write"},
             p \in {"bootstrap", "crown"} => q.claim,
             q.op = "set" /\ p = "write" /\ q.role = Owner => c = Owner
      PROVE  Moves(q)
  <2>1. Sane(Moved(q, c, p))
    BY <1>0, <1>1, MovedFields DEF Sane
  <2> QED BY <1>0, <1>1, <2>1 DEF Moves
<1>2. ASSUME NEW role \in Roles, Pass(q, role), q.at \in {"resolve", "bootstrap", "crown"},
             q.op \in {"touch", "set", "remove", "revoke", "invite"}
      PROVE  Moves(q)
  <2>1. CASE Close(q)
    BY <1>0, <2>1 DEF Moves
  <2>2. CASE q.op # "touch" /\ Knows(q, role, Gate(q))
    <3>1. Goes(q, role, Gate(q))
      BY <1>0, <2>2
    <3>2. Gate(q) = (IF q.op = "invite" THEN "write" ELSE "look")
      BY DEF Gate
    <3> QED BY <1>0, <1>1, <1>2, <2>2, <3>1, <3>2 DEF Places
  <2> QED BY <1>2, <2>1, <2>2 DEF Pass
<1>3. CASE ResolveRole(q)
  <2>1. q.at = "resolve" /\ Resolve(q) \in {0} \cup Roles
    BY <1>0, <1>3 DEF ResolveRole, At, Resolve, Requests, Stored
  <2>2. q.op # "redeem" /\ q.op \in AllOps
    BY <1>0, <2>1, MembershipConstants DEF Sane, Requests
  <2>3. CASE Close(q)
    BY <1>0, <2>3 DEF Moves
  <2>4. CASE q.op = "leave" /\ Goto(q, IF Resolve(q) = Owner THEN "count" ELSE "write")
    BY <1>0, <1>1, <2>1, <2>4 DEF Places
  <2>5. CASE q.op # "leave" /\ Resolve(q) # 0 /\ q.claim /\ Knows(q, Resolve(q), "bootstrap")
    BY <1>0, <1>1, <2>1, <2>2, <2>5 DEF Places
  <2>6. CASE q.op # "leave" /\ Resolve(q) # 0 /\ Pass(q, Resolve(q))
    BY <1>2, <2>1, <2>2, <2>6 DEF AllOps
  <2> QED BY <1>3, <2>3, <2>4, <2>5, <2>6 DEF ResolveRole
<1>4. CASE LookForOwner(q)
  <2>1. q.at = "bootstrap" /\ q.claim /\ q.op \in AllOps \ {"redeem", "leave"}
    BY <1>0, <1>4, MembershipConstants DEF LookForOwner, At, Sane, Requests
  <2>2. CASE Goto(q, "crown")
    BY <1>0, <1>1, <2>1, <2>2 DEF Places
  <2>3. CASE Pass(q, q.caller)
    <3>1. CASE q.caller = 0
      BY <1>0, <2>3, <3>1 DEF Pass, MinRole, Reader, Manager, Moves
    <3> QED BY <1>0, <1>2, <2>1, <2>3, <3>1 DEF AllOps
  <2> QED BY <1>4, <2>2, <2>3 DEF LookForOwner
<1>5. CASE Crown(q)
  <2>1. q.at = "crown" /\ q.claim /\ q.op \in AllOps \ {"redeem", "leave"}
    BY <1>0, <1>5, MembershipConstants DEF Crown, At, Sane, Requests
  <2> QED BY <1>0, <1>2, <1>5, <2>1 DEF Crown, AllOps
<1>6. CASE CountOwners(q)
  <2>1. q.at = "count" /\ q.op = "leave"
    BY <1>0, <1>6, MembershipConstants DEF CountOwners, At, Sane, Requests, AllOps
  <2>2. Close(q) \/ Goto(q, "write")
    BY <1>6 DEF CountOwners
  <2> QED BY <1>0, <1>1, <2>1, <2>2 DEF Moves, Places
<1>7. CASE Look(q)
  <2>1. q.at = "look" /\ q.op \in {"redeem", "set", "remove", "revoke"}
    BY <1>0, <1>7, MembershipConstants DEF Look, At, Sane, Requests, AllOps
  <2>2. CASE q.op = "redeem" /\ (Goto(q, "consume") \/ Goto(q, "write"))
    BY <1>0, <1>1, <2>1, <2>2 DEF Places
  <2>3. CASE /\ q.op # "redeem" /\ Goto(q, IF q.op = "revoke" THEN "tokens" ELSE "write")
             /\ MayAdminister(q.caller, Current(q.target), IF q.op = "set" THEN q.role ELSE Reader)
    <3>1. q.op = "set" /\ q.role = Owner => q.caller = Owner
      BY <2>3 DEF MayAdminister, Owner, Writer, Manager
    <3> QED BY <1>0, <1>1, <2>1, <2>3, <3>1 DEF Places
  <2>4. CASE Close(q)
    BY <1>0, <2>4 DEF Moves
  <2> QED BY <1>7, <2>2, <2>3, <2>4 DEF Look
<1>8. CASE Write(q)
  <2>1. q.at = "write"
    BY <1>8 DEF Write, At
  <2>2. CASE Close(q)
    BY <1>0, <2>2 DEF Moves
  <2>3. CASE q.op = "leave" /\ Goto(q, "tokens")
    BY <1>0, <1>1, <2>1, <2>3 DEF Places
  <2>4. CASE q.op = "redeem" /\ Goto(q, "consume")
    BY <1>0, <1>1, <2>1, <2>4 DEF Places
  <2> QED BY <1>8, <2>2, <2>3, <2>4 DEF Write
<1>9. CASE Tokens(q)
  <2>1. q.at = "tokens" /\ q.op \in {"leave", "revoke"}
    BY <1>0, <1>9, MembershipConstants DEF Tokens, At, Sane, Requests, AllOps
  <2>2. CASE Close(q)
    BY <1>0, <2>2 DEF Moves
  <2>3. CASE q.op = "revoke" /\ Goto(q, "write")
    BY <1>0, <1>1, <2>1, <2>3 DEF Places
  <2> QED BY <1>9, <2>1, <2>2, <2>3 DEF Tokens
<1>10. CASE Consume(q)
  BY <1>0, <1>10 DEF Consume, Moves
<1>11. CASE Abandon(q)
  BY <1>0, <1>11 DEF Abandon, Moves
<1> QED BY <1>3, <1>4, <1>5, <1>6, <1>7, <1>8, <1>9, <1>10, <1>11

\* The steps of a request, but for the one that reads the default.
Steps(q) == \/ ResolveRole(q) \/ LookForOwner(q) \/ Crown(q) \/ CountOwners(q)
            \/ Look(q) \/ Write(q) \/ Tokens(q) \/ Consume(q) \/ Abandon(q)

-----------------------------------------------------------------------------
(***************************************************************************)
(* Rows and invites.                                                       *)
(***************************************************************************)
\* The fields of a request and of the tables.
LEMMA Fields ==
  ASSUME open \subseteq Requests, Stored, NEW q \in open
  PROVE  /\ q \in Requests /\ q.id \in RequestIds /\ q.op \in AllOps /\ q.by \in Subs
         /\ q.target \in Subs /\ q.role \in {0} \cup Roles /\ q.caller \in {0} \cup Roles
         /\ row \in [Subs -> {0} \cup Roles] /\ "nobody" \notin Subs
         /\ invite \in [Invites -> [sub : Subs \cup {"nobody"}, role : {0} \cup Roles, live : BOOLEAN]]
BY MembershipConstants DEF Requests, Stored

\* An invite is stored in a free place, and makes no owner.
LEMMA InviteEffect ==
  ASSUME open \subseteq Requests, Stored, Minted, NEW q \in open, StoreInvite(q)
  PROVE  \E i \in Invites :
           /\ invite[i].sub = "nobody"
           /\ invite' = [invite EXCEPT ![i] = [sub |-> q.target, role |-> q.role, live |-> TRUE]]
           /\ q.role # Owner
<1>1. q.role <= InviteCeiling(q.caller)
  BY DEF StoreInvite
<1>2. InviteCeiling(q.caller) <= 4 /\ InviteCeiling(q.caller) \in Int
  BY DEF InviteCeiling, Admin, Manager, Writer
<1>3. q.role \in Int
  BY Fields DEF Roles, Reader, Owner
<1>4. q.role # Owner
  BY <1>1, <1>2, <1>3 DEF Owner
<1>5. PICK i \in Invites :
        /\ invite[i] = NoInvite
        /\ invite' = [invite EXCEPT ![i] = [sub |-> q.target, role |-> q.role, live |-> TRUE]]
  BY DEF StoreInvite
<1>6. NoInvite.sub = "nobody"
  BY DEF NoInvite
<1> QED BY <1>4, <1>5, <1>6

\* The steps keep the types of the tables, and what invites are good for.
LEMMA StoredStep ==
  ASSUME open \subseteq Requests, \A r \in open : Sane(r), Stored, Minted, NEW q \in open, Steps(q)
  PROVE  /\ Stored' /\ Minted'
         /\ \A i \in Invites : invite[i].sub # "nobody" =>
                                 invite'[i].sub = invite[i].sub /\ invite'[i].role = invite[i].role
<1>0. /\ q.id \in RequestIds /\ q.by \in Subs /\ q.target \in Subs /\ q.role \in {0} \cup Roles
      /\ q.op \in AllOps /\ Sane(q) /\ 0 \in {0} \cup Roles /\ Owner \in {0} \cup Roles
      /\ row \in [Subs -> {0} \cup Roles] /\ outside \subseteq Subs
      /\ invite \in [Invites -> [sub : Subs \cup {"nobody"}, role : {0} \cup Roles, live : BOOLEAN]]
      /\ joined \subseteq RequestIds \X Invites /\ serial \in BOOLEAN /\ made \in 0..MaxRequests
      /\ default \in {0} \cup Roles /\ "nobody" \notin Subs
  BY Fields DEF Roles, Owner, Reader, Stored
<1>1. UNCHANGED <<made, serial, default>>
  BY DEF Steps, ResolveRole, LookForOwner, Crown, CountOwners, Look, Write, Tokens, Consume,
         Abandon, At
<1>2. ASSUME q.op = "redeem" PROVE Joins(q) \subseteq RequestIds \X Invites
  BY <1>0, <1>2 DEF Joins, Sane
<1>3. row' \in [Subs -> {0} \cup Roles]
  BY <1>0 DEF Steps, ResolveRole, LookForOwner, Crown, CountOwners, Look, Write, Tokens, Consume,
              Abandon, Keep, SetRow
<1>4. outside' \subseteq Subs
  BY <1>0 DEF Steps, ResolveRole, LookForOwner, Crown, CountOwners, Look, Write, Tokens, Consume,
              Abandon, Keep
<1>5. joined' \subseteq RequestIds \X Invites
  BY <1>0, <1>2 DEF Steps, ResolveRole, LookForOwner, Crown, CountOwners, Look, Write, Tokens,
              Consume, Abandon, Keep
<1>6. /\ invite' \in [Invites -> [sub : Subs \cup {"nobody"}, role : {0} \cup Roles, live : BOOLEAN]]
      /\ Minted'
      /\ \A i \in Invites : invite[i].sub # "nobody" =>
                              invite'[i].sub = invite[i].sub /\ invite'[i].role = invite[i].role
  <2>1. CASE UNCHANGED invite
    BY <1>0, <2>1 DEF Minted
  <2>2. CASE StoreInvite(q)
    <3>1. PICK i \in Invites :
            /\ invite[i].sub = "nobody" /\ q.role # Owner
            /\ invite' = [invite EXCEPT ![i] = [sub |-> q.target, role |-> q.role, live |-> TRUE]]
      BY <2>2, InviteEffect
    <3> QED BY <1>0, <3>1 DEF Minted
  <2>3. CASE \E gone \in SUBSET Invites :
               invite' = [i \in Invites |-> IF i \in gone THEN [invite[i] EXCEPT !.live = FALSE]
                                                          ELSE invite[i]]
    <3>1. PICK gone \in SUBSET Invites :
               invite' = [i \in Invites |-> IF i \in gone THEN [invite[i] EXCEPT !.live = FALSE]
                                                          ELSE invite[i]]
      BY <2>3
    <3>2. \A x \in [sub : Subs \cup {"nobody"}, role : {0} \cup Roles, live : BOOLEAN] :
            LET y == [x EXCEPT !.live = FALSE]
            IN  /\ y \in [sub : Subs \cup {"nobody"}, role : {0} \cup Roles, live : BOOLEAN]
                /\ y.role = x.role /\ ~y.live /\ y.sub = x.sub
      OBVIOUS
    <3> QED BY <1>0, <3>1, <3>2 DEF Minted
  <2>4. CASE q.op = "redeem" /\ ConsumeInvite(q.invite)
    <3>1. q.invite \in Invites
      BY <1>0, <2>4 DEF Sane
    <3>2. invite' = [invite EXCEPT ![q.invite] = [invite[q.invite] EXCEPT !.live = FALSE]]
      BY <2>4 DEF ConsumeInvite
    <3>3. [invite[q.invite] EXCEPT !.live = FALSE]
            \in [sub : Subs \cup {"nobody"}, role : {0} \cup Roles, live : BOOLEAN]
      BY <1>0, <3>1
    <3>4. \A i \in Invites : /\ invite'[i].role = invite[i].role
                             /\ invite'[i].sub = invite[i].sub
                             /\ invite'[i].live => invite[i].live
      BY <1>0, <3>1, <3>2
    <3> QED BY <1>0, <3>1, <3>2, <3>3, <3>4 DEF Minted
  <2>5. Consume(q) => q.op = "redeem"
    BY <1>0 DEF Consume, At, Sane, AllOps
  <2>6. \/ UNCHANGED invite \/ StoreInvite(q) \/ RevokeTokens(q.target) \/ Abandon(q)
        \/ Consume(q) /\ ConsumeInvite(q.invite)
    BY DEF Steps, ResolveRole, LookForOwner, Crown, CountOwners, Look, Write, Tokens, Consume, Keep
  <2>7. ASSUME RevokeTokens(q.target) \/ Abandon(q)
        PROVE  \E gone \in SUBSET Invites :
                 invite' = [i \in Invites |-> IF i \in gone THEN [invite[i] EXCEPT !.live = FALSE]
                                                            ELSE invite[i]]
    <3>1. CASE Abandon(q)
      BY <3>1 DEF Abandon
    <3>2. CASE RevokeTokens(q.target)
      <4> WITNESS {i \in Invites : invite[i].sub = q.target} \in SUBSET Invites
      <4> QED BY <3>2 DEF RevokeTokens
    <3> QED BY <2>7, <3>1, <3>2
  <2> QED BY <2>1, <2>2, <2>3, <2>4, <2>5, <2>6, <2>7
<1> QED BY <1>0, <1>1, <1>3, <1>4, <1>5, <1>6 DEF Stored

-----------------------------------------------------------------------------
(***************************************************************************)
(* Requests one after the other: nothing moves between two steps of one.   *)
(***************************************************************************)
\* The part of the invariant about such behaviours.
Alone == \A p, q \in open : p = q
InTurn ==
  /\ Alone
  /\ \A q \in open : Informed(q) /\ Unspent(q) /\ Harmless(q)
  /\ Spent /\ InviteOnce /\ RevokedStaysOut

\* The only request ends, or is the only one after the step too.
LEMMA AloneMoves ==
  ASSUME open \subseteq Requests, Alone, NEW q \in open, Moves(q)
  PROVE  \/ open' = {}
         \/ \E c \in {0} \cup Roles, p \in Places \ {q.at} :
              open' = {Moved(q, c, p)} /\ Goes(q, c, p) /\ Sane(Moved(q, c, p))
<1>1. open = {q}
  BY DEF Alone
<1> QED BY <1>1 DEF Moves, Close, Goes

\* What follows from "one request" for a step that leaves it at r or ends it.
LEMMA AloneFacts ==
  ASSUME open \subseteq Requests, Alone, NEW q \in open, Moves(q)
  PROVE  /\ Alone'
         /\ \A r \in open' :
              /\ r.id = q.id /\ r.op = q.op /\ r.by = q.by /\ r.target = q.target
              /\ r.claim = q.claim /\ r.token = q.token /\ r.role = q.role /\ r.invite = q.invite
              /\ r.at # q.at /\ Sane(r)
              /\ \A c, p : Goes(q, c, p) /\ c \in {0} \cup Roles /\ p \in Places
                             => r.caller = c /\ r.at = p
         /\ Close(q) => open' = {}
<1>1. open = {q}
  BY DEF Alone
<1>2. CASE Close(q)
  BY <1>1, <1>2 DEF Close, Alone, Goes
<1>3. CASE \E c \in {0} \cup Roles, p \in Places \ {q.at} : Goes(q, c, p) /\ Sane(Moved(q, c, p))
  <2>1. PICK c \in {0} \cup Roles, p \in Places \ {q.at} : Goes(q, c, p) /\ Sane(Moved(q, c, p))
    BY <1>3
  <2>2. open' = {Moved(q, c, p)}
    BY <1>1, <2>1 DEF Goes
  <2>3. \A e \in {0} \cup Roles, s \in Places : Goes(q, e, s) => Moved(q, e, s) = Moved(q, c, p)
    BY <1>1, <2>2 DEF Goes
  <2>4. \A e \in {0} \cup Roles, s \in Places : Goes(q, e, s) => e = c /\ s = p
    <3>1. \A e \in {0} \cup Roles, s \in Places : Moved(q, e, s).caller = e /\ Moved(q, e, s).at = s
      BY MovedFields
    <3> QED BY <2>3, <3>1
  <2>5. ~Close(q)
    BY <1>1, <2>2 DEF Close
  <2> DEFINE m == Moved(q, c, p)
  <2>6. /\ m.id = q.id /\ m.op = q.op /\ m.by = q.by /\ m.target = q.target /\ m.claim = q.claim
        /\ m.token = q.token /\ m.role = q.role /\ m.invite = q.invite
        /\ m.caller = c /\ m.at = p
    BY MovedFields
  <2> HIDE DEF m
  <2>7. open' = {m} /\ Sane(m) /\ p # q.at
    BY <2>1, <2>2 DEF m
  <2> QED BY <2>4, <2>5, <2>6, <2>7 DEF Alone
<1> QED BY <1>2, <1>3 DEF Moves

\* A step that touches no table but may learn something.
LEMMA QuietStep ==
  ASSUME open \subseteq Requests, \A r \in open : Sane(r), Stored, InTurn,
         NEW q \in open, Moves(q), UNCHANGED <<row, invite, joined, outside>>,
         q.at # "consume", q.op = "redeem" => q.at = "look",
         \A r \in open' : /\ r.op \in {"set", "remove", "revoke"} /\ r.at \in {"write", "tokens"}
                               /\ row[r.target] = Owner => r.caller = Owner
                          /\ r.op = "leave" /\ r.at = "write" /\ row[r.by] = Owner
                               => \E s \in Subs \ {r.by} : row[s] = Owner
                          /\ r.op = "revoke" => r.at # "write"
  PROVE  InTurn'
<1>1. open = {q} /\ Informed(q) /\ Unspent(q) /\ Harmless(q)
  BY DEF InTurn, Alone
<1>2. /\ Alone'
      /\ \A r \in open' : /\ r.op = q.op /\ r.by = q.by /\ r.target = q.target /\ r.claim = q.claim
                          /\ r.invite = q.invite /\ r.role = q.role
  BY AloneFacts DEF InTurn
<1>3. \A r \in open' : Informed(r)' /\ Unspent(r)' /\ Harmless(r)'
  BY <1>1, <1>2 DEF Informed, Unspent, Harmless, Moves, EffectiveDefault
<1>4. Spent'
  BY <1>1 DEF InTurn, Spent
<1>5. InviteOnce' /\ RevokedStaysOut'
  BY DEF InTurn, InviteOnce, RevokedStaysOut, Moves
<1> QED BY <1>2, <1>3, <1>4, <1>5 DEF InTurn

\* What the proofs below use of the request that moves.
LEMMA Mover ==
  ASSUME Ind, serial, NEW q \in open, Steps(q)
  PROVE  /\ open = {q} /\ q \in Requests /\ Sane(q) /\ Moves(q) /\ InTurn /\ serial'
         /\ q.op \in AllOps /\ q.by \in Subs /\ q.target \in Subs
         /\ Informed(q) /\ Unspent(q) /\ Harmless(q) /\ OfInvite(q)
         /\ \A p : Goto(q, p) => Goes(q, q.caller, p)
         /\ \A c, p : Knows(q, c, p) => Goes(q, c, p)
<1>1. InTurn /\ open \subseteq Requests /\ Stored /\ \A r \in open : Sane(r)
  BY DEF Ind, InTurn, Alone
<1>2. Moves(q)
  BY <1>1, RequestMoves DEF Steps
<1>3. q \in Requests /\ q.op \in AllOps /\ q.by \in Subs /\ q.target \in Subs
  BY <1>1, Fields
<1> QED BY <1>1, <1>2, <1>3, Goings DEF Ind, InTurn, Alone, Moves

\* Resolving the caller's role.
LEMMA ResolveInTurn == ASSUME Ind, serial, NEW q \in open, ResolveRole(q) PROVE InTurn'
<1>0. Steps(q)
  BY DEF Steps
<1>1. q.at = "resolve" /\ q.op # "redeem" /\ UNCHANGED <<row, invite, joined, outside>>
  BY <1>0, Mover DEF ResolveRole, At, Keep, Sane
<1>2. ASSUME NEW r \in open'
      PROVE  /\ r.op \in {"set", "remove", "revoke"} => r.at \in {"bootstrap", "look"}
             /\ r.op = "leave" /\ r.at = "write" => row[r.by] # Owner
  <2>1. r.op = q.op /\ r.by = q.by /\ open' # {}
    BY <1>0, <1>2, Mover, AloneFacts DEF InTurn
  <2>2. ~Close(q)
    BY <1>0, <1>2, Mover, AloneFacts DEF InTurn
  <2>3. CASE q.op = "leave"
    <3>1. Goto(q, IF Resolve(q) = Owner THEN "count" ELSE "write")
      BY <2>2, <2>3 DEF ResolveRole
    <3>2. r.at = (IF Resolve(q) = Owner THEN "count" ELSE "write")
      BY <1>0, <1>2, <3>1, Mover, AloneFacts DEF InTurn, Requests, Places
    <3>3. row[q.by] = Owner => Resolve(q) = Owner
      BY DEF Resolve, Owner
    <3> QED BY <2>1, <2>3, <3>2, <3>3
  <2>4. CASE q.op # "leave" /\ Knows(q, Resolve(q), "bootstrap")
    <3>1. Resolve(q) \in {0} \cup Roles
      BY <1>0, Mover DEF Resolve, Requests, Ind, Stored
    <3>2. r.at = "bootstrap"
      BY <1>0, <1>2, <2>4, <3>1, Mover, AloneFacts DEF InTurn, Places
    <3> QED BY <2>1, <2>4, <3>2
  <2>5. CASE q.op # "leave" /\ Pass(q, Resolve(q))
    <3>1. Resolve(q) \in {0} \cup Roles
      BY <1>0, Mover DEF Resolve, Requests, Ind, Stored
    <3>2. Knows(q, Resolve(q), Gate(q))
      BY <2>2, <2>5 DEF Pass
    <3>3. Gate(q) \in Places /\ (q.op # "invite" => Gate(q) = "look")
      BY DEF Gate, Places
    <3>4. r.at = Gate(q)
      BY <1>0, <1>2, <3>1, <3>2, <3>3, Mover, AloneFacts DEF InTurn
    <3> QED BY <2>1, <2>5, <3>3, <3>4
  <2> QED BY <2>2, <2>3, <2>4, <2>5 DEF ResolveRole
<1> QED BY <1>0, <1>1, <1>2, Mover, QuietStep DEF Ind

\* Looking for an owner: a request that goes on is at its gate, and has not looked yet.
LEMMA LookForOwnerInTurn == ASSUME Ind, serial, NEW q \in open, LookForOwner(q) PROVE InTurn'
<1>0. Steps(q)
  BY DEF Steps
<1>1. q.at = "bootstrap" /\ q.op \notin {"redeem", "leave"}
      /\ UNCHANGED <<row, invite, joined, outside>>
  BY <1>0, Mover DEF LookForOwner, At, Keep, Sane
<1>2. ASSUME NEW r \in open'
      PROVE  r.op # "leave" /\ (r.op \in {"set", "remove", "revoke"} => r.at \in {"crown", "look"})
  <2>1. r.op = q.op /\ ~Close(q)
    BY <1>0, <1>2, Mover, AloneFacts DEF InTurn
  <2>2. CASE Goto(q, "crown")
    BY <1>0, <1>1, <1>2, <2>1, <2>2, Mover, AloneFacts DEF InTurn, Requests, Places
  <2>3. CASE Knows(q, q.caller, Gate(q))
    <3>1. Gate(q) \in Places /\ (q.op # "invite" => Gate(q) = "look")
      BY DEF Gate, Places
    <3>2. r.at = Gate(q)
      BY <1>0, <1>2, <2>3, <3>1, Mover, AloneFacts DEF InTurn, Requests
    <3> QED BY <1>1, <2>1, <3>1, <3>2
  <2> QED BY <2>1, <2>2, <2>3 DEF LookForOwner, Pass
<1> QED BY <1>0, <1>1, <1>2, Mover, QuietStep DEF Ind

\* An owner who may leave is not the only one.
LEMMA CountInTurn == ASSUME Ind, serial, NEW q \in open, CountOwners(q) PROVE InTurn'
<1>0. Steps(q)
  BY DEF Steps
<1>1. q.at = "count" /\ q.op = "leave" /\ UNCHANGED <<row, invite, joined, outside>>
  BY <1>0, Mover DEF CountOwners, At, Keep, Sane, AllOps
<1>2. ASSUME ~LastOwner, row[q.by] = Owner PROVE \E s \in Subs \ {q.by} : row[s] = Owner
  <2>1. SUFFICES ASSUME \A s \in Subs \ {q.by} : row[s] # Owner PROVE FALSE
    OBVIOUS
  <2>2. {s \in Subs : row[s] = Owner} = {q.by}
    BY <1>0, <1>2, <2>1, Mover
  <2>3. Cardinality({q.by}) = 1
    BY FS_Singleton
  <2> QED BY <1>2, <2>2, <2>3 DEF LastOwner
<1>3. ASSUME NEW r \in open'
      PROVE  r.op = "leave" /\ r.by = q.by /\ ~LastOwner
  BY <1>0, <1>1, <1>3, Mover, AloneFacts DEF InTurn, CountOwners
<1> QED BY <1>0, <1>1, <1>2, <1>3, Mover, QuietStep DEF Ind

\* Ownership is bootstrapped for somebody with the claim, whom nobody keeps out.
LEMMA CrownInTurn == ASSUME Ind, serial, NEW q \in open, Crown(q) PROVE InTurn'
<1>0. Steps(q)
  BY DEF Steps
<1>1. /\ q.at = "crown" /\ q.claim /\ q.op \notin {"redeem", "leave"}
      /\ row' = [row EXCEPT ![q.by] = Owner] /\ UNCHANGED <<invite, joined, outside>>
  BY <1>0, Mover DEF Crown, At, Sane
<1>2. ASSUME NEW r \in open'
      PROVE  /\ r.op = q.op /\ r.target = q.target /\ r.by = q.by /\ r.claim = q.claim
             /\ r.op \in {"set", "remove", "revoke"} => r.at = "look"
  <2>1. /\ r.op = q.op /\ r.target = q.target /\ r.by = q.by /\ r.claim = q.claim
        /\ ~Close(q) /\ Owner \in {0} \cup Roles
    BY <1>0, <1>2, Mover, AloneFacts DEF InTurn, Roles, Owner, Reader
  <2>2. Knows(q, Owner, Gate(q))
    BY <2>1 DEF Crown, Pass
  <2>3. Gate(q) \in Places /\ (q.op # "invite" => Gate(q) = "look")
    BY DEF Gate, Places
  <2>4. r.at = Gate(q)
    BY <1>0, <1>2, <2>1, <2>2, <2>3, Mover, AloneFacts DEF InTurn
  <2> QED BY <2>1, <2>3, <2>4
<1>3. \A r \in open' : Informed(r)' /\ Unspent(r)' /\ Harmless(r)'
  BY <1>0, <1>1, <1>2, Mover DEF Informed, Unspent, Harmless
<1>4. Spent'
  BY <1>0, <1>1, Mover DEF InTurn, Spent
<1>5. RevokedStaysOut'
  <2>1. \A s \in Subs : s # q.by => row'[s] = row[s]
    BY <1>1 DEF Ind, Stored
  <2>2. q.by \notin outside \ Claimed
    BY <1>0, <1>1, Mover DEF Harmless
  <2>3. outside \subseteq Subs
    BY DEF Ind, Stored
  <2> QED BY <1>1, <2>1, <2>2, <2>3 DEF Ind, RevokedStaysOut
<1>6. Alone' /\ InviteOnce'
  BY <1>0, <1>1, Mover, AloneFacts DEF Ind, InTurn, InviteOnce
<1> QED BY <1>3, <1>4, <1>5, <1>6 DEF InTurn

\* A redeem that joins: nobody has joined with this invite before, and it is about to be
\* used up.
LEMMA Joining ==
  ASSUME Ind, serial, NEW q \in open, Steps(q), q.op = "redeem", q.at \in {"look", "write"},
         joined' = Joins(q), UNCHANGED invite, \A r \in open' : r.at = "consume", open' # {}
  PROVE  Spent' /\ InviteOnce'
<1>1. /\ \A j \in joined : j[2] # q.invite /\ invite[j[2]].sub # "nobody"
      /\ invite[q.invite].sub # "nobody"
  BY Mover DEF Unspent, OfInvite, InTurn, Spent
<1>2. \A j \in joined' : j \in joined \/ (j = <<q.id, q.invite>> /\ q.token # q.invite)
  BY DEF Joins
<1>3. \A j \in joined : ~invite[j[2]].live
  BY Mover DEF InTurn, Spent
<1>4. \E r \in open' : /\ r.at = "consume" /\ r.id = q.id /\ r.invite = q.invite
                        /\ r.token = q.token
  <2>1. PICK r \in open' : TRUE
    OBVIOUS
  <2>2. r.id = q.id /\ r.invite = q.invite /\ r.token = q.token
    BY Mover, AloneFacts DEF InTurn
  <2> QED BY <2>2
<1>5. Spent'
  BY <1>1, <1>2, <1>3, <1>4 DEF Spent
<1>6. InviteOnce'
  BY <1>1, <1>2, Mover DEF InTurn, InviteOnce
<1> QED BY <1>5, <1>6

\* Looking at a row: whoever goes on to write may administer what is there.
LEMMA LookInTurn == ASSUME Ind, serial, NEW q \in open, Look(q) PROVE InTurn'
<1>0. Steps(q)
  BY DEF Steps
<1>1. /\ q.at = "look" /\ q.op \in {"redeem", "set", "remove", "revoke"}
      /\ UNCHANGED <<row, invite, outside>>
  BY <1>0, Mover DEF Look, At, Sane, AllOps
<1>2. CASE q.op = "redeem" /\ IsEnough(q)
  <2>1. joined' = Joins(q) /\ Goes(q, q.caller, "consume")
    BY <1>0, <1>2, Mover DEF Look
  <2>2. \A r \in open' : r.at = "consume" /\ r.op = q.op /\ r.invite = q.invite
                         /\ r.target = q.target /\ r.by = q.by /\ r.claim = q.claim
    BY <1>0, <2>1, Mover, AloneFacts DEF InTurn, Requests, Places
  <2>3. open' # {}
    BY <2>1 DEF Goes
  <2>4. Spent' /\ InviteOnce'
    BY <1>0, <1>1, <1>2, <2>1, <2>2, <2>3, Joining
  <2>5. \A r \in open' : Informed(r)' /\ Unspent(r)' /\ Harmless(r)'
    BY <1>0, <1>1, <1>2, <2>2, Mover DEF Informed, Unspent, Harmless
  <2> QED BY <1>0, <1>1, <2>4, <2>5, Mover, AloneFacts DEF InTurn, RevokedStaysOut
<1>3. CASE q.op = "redeem" /\ ~IsEnough(q)
  <2>1. joined' = joined /\ Goes(q, q.caller, "write")
    BY <1>0, <1>3, Mover DEF Look
  <2>2. \A r \in open' : r.op = "redeem"
    BY <1>0, <1>3, Mover, AloneFacts DEF InTurn
  <2> QED BY <1>0, <1>1, <2>1, <2>2, Mover, QuietStep DEF Ind
<1>4. CASE q.op # "redeem"
  <2>1. joined' = joined
    BY <1>4 DEF Look
  <2>2. ASSUME NEW r \in open'
        PROVE  /\ row[r.target] = Owner => r.caller = Owner
               /\ r.op = q.op /\ (r.op = "revoke" => r.at = "tokens")
    <3>1. ~Close(q) /\ r.op = q.op /\ r.target = q.target
      BY <1>0, <2>2, Mover, AloneFacts DEF InTurn
    <3>2. /\ MayAdminister(q.caller, Current(q.target), IF q.op = "set" THEN q.role ELSE Reader)
          /\ Goto(q, IF q.op = "revoke" THEN "tokens" ELSE "write")
      BY <1>4, <3>1 DEF Look
    <3>3. r.caller = q.caller /\ r.at = (IF q.op = "revoke" THEN "tokens" ELSE "write")
      BY <1>0, <2>2, <3>2, Mover, AloneFacts DEF InTurn, Requests, Places
    <3>4. row[q.target] = Owner => Current(q.target) = Owner
      BY DEF Current, Owner
    <3>5. row[q.target] = Owner => q.caller = Owner
      BY <3>2, <3>4 DEF MayAdminister, Owner, Manager, Writer
    <3> QED BY <3>1, <3>3, <3>5
  <2> QED BY <1>0, <1>1, <1>4, <2>1, <2>2, Mover, QuietStep DEF Ind
<1> QED BY <1>2, <1>3, <1>4

\* The tokens of whoever leaves or is revoked are dead.
LEMMA TokensInTurn == ASSUME Ind, serial, NEW q \in open, Tokens(q) PROVE InTurn'
<1>0. Steps(q)
  BY DEF Steps
<1>1. /\ q.at = "tokens" /\ q.op \in {"revoke", "leave"} /\ UNCHANGED <<row, joined, outside>>
      /\ q.target \in Subs
  BY <1>0, Mover DEF Tokens, At, Sane, AllOps
<1>2. \A i \in Invites : /\ invite'[i].sub = invite[i].sub
                         /\ invite'[i].live => invite[i].live /\ invite[i].sub # q.target
  <2>1. \A i \in Invites :
          invite'[i] = IF invite[i].sub = q.target THEN [invite[i] EXCEPT !.live = FALSE]
                                                   ELSE invite[i]
    BY DEF Tokens, RevokeTokens
  <2>2. \A x \in [sub : Subs \cup {"nobody"}, role : {0} \cup Roles, live : BOOLEAN] :
          ~[x EXCEPT !.live = FALSE].live /\ [x EXCEPT !.live = FALSE].sub = x.sub
    OBVIOUS
  <2>3. \A i \in Invites :
          invite[i] \in [sub : Subs \cup {"nobody"}, role : {0} \cup Roles, live : BOOLEAN]
    BY DEF Ind, Stored
  <2> QED BY <2>1, <2>2, <2>3
<1>3. \A j \in joined : j[2] \in Invites
  BY DEF Ind, Stored
<1>4. \A r \in open' : /\ r.op = q.op /\ r.target = q.target /\ r.by = q.by /\ r.claim = q.claim
                       /\ r.op = "leave" => r.at # "write"
                       /\ r.at = "write" => r.caller = q.caller
  <2>1. ASSUME NEW r \in open'
        PROVE  (r.op = "leave" => r.at # "write") /\ (r.at = "write" => r.caller = q.caller)
    <3>1. r.op = q.op /\ ~Close(q)
      BY <1>0, <2>1, Mover, AloneFacts DEF InTurn
    <3>2. q.op # "leave" /\ Goto(q, "write")
      BY <3>1 DEF Tokens
    <3>3. r.caller = q.caller
      BY <1>0, <2>1, <3>2, Mover, AloneFacts DEF InTurn, Requests, Places
    <3> QED BY <3>1, <3>2, <3>3
  <2> QED BY <1>0, <2>1, Mover, AloneFacts DEF InTurn
<1>5. \A r \in open' : Informed(r)' /\ Unspent(r)' /\ Harmless(r)'
  <2>1. ASSUME NEW r \in open' PROVE Informed(r)'
    <3>1. q.op \in {"set", "remove", "revoke"} /\ row[q.target] = Owner => q.caller = Owner
      BY <1>0, <1>1, Mover DEF Informed
    <3> QED BY <1>0, <1>1, <1>4, <2>1, <3>1, Mover, AloneFacts DEF Informed, InTurn
  <2>2. \A r \in open' : Unspent(r)' /\ Harmless(r)'
    BY <1>0, <1>1, <1>2, <1>4, Mover DEF Unspent, Harmless
  <2> QED BY <2>1, <2>2
<1>6. Spent'
  BY <1>0, <1>1, <1>2, <1>3, Mover DEF InTurn, Spent
<1>7. RevokedStaysOut'
  BY <1>0, <1>1, <1>2, Mover DEF InTurn, RevokedStaysOut
<1> QED BY <1>0, <1>1, <1>5, <1>6, <1>7, Mover, AloneFacts DEF InTurn, InviteOnce

\* An invite that a request joined with, other than its own, is used up.
LEMMA ConsumeInTurn == ASSUME Ind, serial, NEW q \in open, Consume(q) PROVE InTurn'
<1>0. Steps(q)
  BY DEF Steps
<1>1. /\ q.at = "consume" /\ q.op = "redeem" /\ UNCHANGED <<row, joined, outside>> /\ open' = {}
      /\ q.invite \in Invites
  BY <1>0, Mover, AloneFacts DEF Consume, At, Sane, AllOps, InTurn
<1>2. /\ \A i \in Invites : /\ invite'[i].sub = invite[i].sub
                            /\ invite'[i].live => invite[i].live
      /\ q.token # q.invite => ~invite'[q.invite].live
  <2>1. CASE UNCHANGED invite /\ q.token = q.invite
    BY <2>1
  <2>2. CASE ConsumeInvite(q.invite)
    <3>1. invite' = [invite EXCEPT ![q.invite] = [invite[q.invite] EXCEPT !.live = FALSE]]
      BY <2>2 DEF ConsumeInvite
    <3> QED BY <1>1, <3>1 DEF Ind, Stored
  <2> QED BY <2>1, <2>2 DEF Consume
<1>3. \A j \in joined : j[2] \in Invites
  BY DEF Ind, Stored
<1>4. Spent'
  BY <1>0, <1>1, <1>2, <1>3, Mover DEF InTurn, Spent
<1>5. RevokedStaysOut'
  BY <1>0, <1>1, <1>2, Mover DEF InTurn, RevokedStaysOut
<1> QED BY <1>0, <1>1, <1>4, <1>5, Mover, AloneFacts DEF InTurn, InviteOnce

\* A request that is cut short takes back what it did not account for: who joined without
\* using the invite up.
LEMMA AbandonInTurn == ASSUME Ind, serial, NEW q \in open, Abandon(q) PROVE InTurn'
<1>0. Steps(q)
  BY DEF Steps
<1>1. /\ open' = {} /\ UNCHANGED <<row, outside>> /\ joined' = {j \in joined : j[1] # q.id}
      /\ open = {q}
  BY <1>0, Mover, AloneFacts DEF Abandon, InTurn
<1>2. \A i \in Invites : invite'[i].sub = invite[i].sub /\ (invite'[i].live => invite[i].live)
  <2>1. PICK gone \in SUBSET Invites :
               invite' = [i \in Invites |-> IF i \in gone THEN [invite[i] EXCEPT !.live = FALSE]
                                                          ELSE invite[i]]
    BY DEF Abandon
  <2>2. \A x \in [sub : Subs \cup {"nobody"}, role : {0} \cup Roles, live : BOOLEAN] :
          ~[x EXCEPT !.live = FALSE].live /\ [x EXCEPT !.live = FALSE].sub = x.sub
    OBVIOUS
  <2>3. \A i \in Invites :
          invite[i] \in [sub : Subs \cup {"nobody"}, role : {0} \cup Roles, live : BOOLEAN]
    BY DEF Ind, Stored
  <2> QED BY <2>1, <2>2, <2>3
<1>3. \A j \in joined : j[2] \in Invites
  BY DEF Ind, Stored
<1>4. \A j \in joined' : j \in joined /\ invite[j[2]].sub # "nobody" /\ ~invite[j[2]].live
  BY <1>0, <1>1, Mover DEF InTurn, Spent
<1>5. Spent' /\ InviteOnce'
  BY <1>0, <1>2, <1>3, <1>4, Mover DEF InTurn, Spent, InviteOnce
<1>6. RevokedStaysOut'
  BY <1>0, <1>1, <1>2, Mover DEF InTurn, RevokedStaysOut
<1> QED BY <1>1, <1>5, <1>6 DEF InTurn, Alone

\* The row is written: of somebody who was let in meanwhile, or who is shut out.
LEMMA WriteInTurn == ASSUME Ind, serial, NEW q \in open, Write(q) PROVE InTurn'
<1>0. Steps(q)
  BY DEF Steps
<1>1. /\ q.at = "write" /\ q.op \in AllOps /\ q.target \in Subs /\ q.by \in Subs
      /\ row \in [Subs -> {0} \cup Roles]
      /\ q.op \in {"redeem", "leave"} => q.target = q.by
      /\ outside \subseteq Subs /\ outside' \subseteq Subs
  <2>1. outside' \subseteq Subs
    BY <1>0, StoredStep DEF Ind, Stored
  <2> QED BY <1>0, <2>1, Mover DEF Write, At, Sane, Ind, Stored
<1>2. outside' = (IF q.op = "revoke" THEN outside \cup {q.target} ELSE outside)
  BY DEF Write
<1>3. RevokedStaysOut'
  <2>1. CASE q.op \in {"set", "redeem"}
    <3>1. /\ UNCHANGED <<invite, outside>> /\ q.target \notin outside
          /\ \A s \in Subs : s # q.target => row'[s] = row[s]
      BY <1>0, <1>1, <2>1, Mover DEF Write, SetRow, Harmless
    <3> QED BY <1>0, <1>1, <3>1, Mover DEF InTurn, RevokedStaysOut
  <2>2. CASE q.op \in {"remove", "revoke", "leave"}
    <3>1. /\ UNCHANGED invite /\ outside' \subseteq outside \cup {q.target}
          /\ row'[q.target] = 0 /\ \A s \in Subs : s # q.target => row'[s] = row[s]
          /\ q.op # "revoke" => UNCHANGED outside
      BY <1>1, <1>2, <2>2 DEF Write, SetRow
    <3>2. q.op = "revoke" => \A i \in Invites : invite[i].sub = q.target => ~invite[i].live
      BY <1>0, <1>1, Mover DEF Harmless
    <3> QED BY <1>0, <1>1, <3>1, <3>2, Mover DEF InTurn, RevokedStaysOut
  <2>3. CASE q.op \in {"invite", "touch"}
    <3>1. /\ UNCHANGED <<row, outside>>
          /\ UNCHANGED invite \/ (q.op = "invite" /\ StoreInvite(q))
      BY <2>3 DEF Write
    <3>2. CASE UNCHANGED invite
      BY <1>0, <3>1, <3>2, Mover DEF InTurn, RevokedStaysOut
    <3>3. CASE q.op = "invite" /\ StoreInvite(q)
      <4>1. PICK i \in Invites :
              invite' = [invite EXCEPT ![i] = [sub |-> q.target, role |-> q.role, live |-> TRUE]]
        BY <3>3, InviteEffect DEF Ind
      <4>2. \A k \in Invites : invite'[k] = invite[k] \/ invite'[k].sub = q.target
        BY <4>1 DEF Ind, Stored
      <4>3. q.target \notin outside
        BY <1>0, <3>3, Mover DEF Harmless
      <4> QED BY <1>0, <3>1, <4>2, <4>3, Mover DEF InTurn, RevokedStaysOut
    <3> QED BY <3>1, <3>2, <3>3
  <2> QED BY <1>1, <2>1, <2>2, <2>3 DEF AllOps
<1>4. CASE q.op = "redeem"
  <2>1. joined' = Joins(q) /\ Goes(q, q.caller, "consume") /\ UNCHANGED invite
    BY <1>0, <1>4, Mover DEF Write
  <2>2. \A r \in open' : r.at = "consume" /\ r.op = q.op /\ r.invite = q.invite
                         /\ r.target = q.target /\ r.by = q.by /\ r.claim = q.claim
    BY <1>0, <2>1, Mover, AloneFacts DEF InTurn, Requests, Places
  <2>3. open' # {}
    BY <2>1 DEF Goes
  <2>4. Spent' /\ InviteOnce'
    BY <1>0, <1>1, <1>4, <2>1, <2>2, <2>3, Joining
  <2>5. \A r \in open' : Informed(r)' /\ Unspent(r)' /\ Harmless(r)'
    BY <1>0, <1>1, <1>2, <1>4, <2>1, <2>2, Mover DEF Informed, Unspent, Harmless
  <2> QED BY <1>0, <1>3, <2>4, <2>5, Mover, AloneFacts DEF InTurn
<1>5. CASE q.op # "redeem"
  <2>1. joined' = joined
    BY <1>5 DEF Write
  <2>2. \A j \in joined : j[2] \in Invites /\ invite[j[2]].sub # "nobody" /\ ~invite[j[2]].live
    BY <1>0, <1>1, Mover DEF InTurn, Spent, Ind, Stored
  <2>3. \A j \in joined : invite'[j[2]] = invite[j[2]]
    <3>1. CASE UNCHANGED invite
      BY <3>1
    <3>2. CASE StoreInvite(q)
      <4>1. PICK i \in Invites :
              /\ invite' = [invite EXCEPT ![i] = [sub |-> q.target, role |-> q.role, live |-> TRUE]]
              /\ invite[i].sub = "nobody"
        BY <3>2, InviteEffect DEF Ind
      <4> QED BY <2>2, <4>1 DEF Ind, Stored
    <3> QED BY <3>1, <3>2 DEF Write
  <2>4. Spent' /\ InviteOnce'
    BY <1>0, <2>1, <2>2, <2>3, Mover DEF InTurn, Spent, InviteOnce
  <2>5. ASSUME NEW r \in open' PROVE Informed(r)' /\ Unspent(r)' /\ Harmless(r)'
    <3>1. /\ r.op = q.op /\ r.target = q.target /\ r.by = q.by /\ r.claim = q.claim
          /\ ~Close(q) /\ r.at # "write"
      BY <1>0, <1>1, <2>5, Mover, AloneFacts DEF InTurn
    <3>2. q.op = "leave" /\ UNCHANGED outside
      BY <1>1, <1>2, <1>5, <3>1 DEF Write, AllOps
    <3> QED BY <1>0, <3>1, <3>2, Mover DEF Informed, Unspent, Harmless
  <2> QED BY <1>0, <1>3, <2>4, <2>5, Mover, AloneFacts DEF InTurn
<1> QED BY <1>4, <1>5

-----------------------------------------------------------------------------
(***************************************************************************)
(* The invariant.                                                          *)
(***************************************************************************)
\* A request that may be made is within the bounds.
LEMMA AskedFacts ==
  ASSUME Ind, Asked
  PROVE  /\ made' = made + 1 /\ made \in 0..MaxRequests /\ made' \in 0..MaxRequests
         /\ made' \in RequestIds /\ (serial => open = {})
<1>1. IF serial THEN made < MaxRequests /\ open = {} ELSE made < MaxTogether
  BY DEF Asked
<1>2. made \in 0..MaxRequests /\ serial \in BOOLEAN
  BY DEF Ind, Stored
<1> QED BY <1>1, <1>2, MembershipConstants DEF Asked, RequestIds

\* A request sets out: with a live invite nobody has joined with, or a claim that nobody has
\* taken away.
LEMMA StartStep == ASSUME Ind, NEW op \in Ops, NEW by \in Subs, Start(op, by) PROVE Ind'
<1>1. PICK id \in Identities(by), target \in Subs, role \in {0} \cup Granted,
           i \in {0} \cup Invites :
        /\ op \notin {"set", "remove", "revoke", "invite"} => target = by
        /\ op = "redeem" => i # 0 /\ invite[i].live
        /\ open' = open \cup {[id |-> made', op |-> op, by |-> by, claim |-> id.claim,
                              otherwise |-> Otherwise(id), token |-> id.token,
                              target |-> target, invite |-> i, caller |-> 0,
                              role |-> IF op = "redeem" THEN invite[i].role ELSE role,
                              at |-> IF op = "redeem" THEN "org" ELSE "resolve"]}
        /\ outside' = outside \ {s \in {target} : LetsIn(op, s) \/ op = "redeem"}
  BY DEF Start
<1>2. /\ UNCHANGED <<row, invite, joined, serial, default>> /\ made' = made + 1
      /\ made \in 0..MaxRequests /\ made' \in 0..MaxRequests /\ made' \in RequestIds
      /\ serial => open = {}
  BY AskedFacts DEF Start
<1>3. /\ invite \in [Invites -> [sub : Subs \cup {"nobody"}, role : {0} \cup Roles, live : BOOLEAN]]
      /\ op \in AllOps /\ "nobody" \notin Subs /\ role \in {0} \cup Roles
      /\ op = "redeem" => i \in Invites
      /\ EffectiveDefault \in {0} \cup Roles /\ outside \subseteq Subs
  BY <1>1, MembershipConstants DEF Ind, Stored, EffectiveDefault
<1>4. /\ id.claim \in BOOLEAN /\ id.pinned \in {0} \cup Roles /\ id.token \in {0} \cup Invites
      /\ id.claim => by \in Claimed \/ \E j \in Invites : invite[j].live /\ invite[j].sub = by
  <2>1. CASE id = [token |-> 0, claim |-> by \in Claimed, pinned |-> 0]
    <3>1. CASE by \in Claimed
      <4>1. id = [token |-> 0, claim |-> TRUE, pinned |-> 0]
        BY <2>1, <3>1
      <4> QED BY <3>1, <4>1
    <3>2. CASE by \notin Claimed
      <4>1. (by \in Claimed) = FALSE
        BY <3>2
      <4>2. id = [token |-> 0, claim |-> FALSE, pinned |-> 0]
        BY <2>1, <4>1, Zenon
      <4> QED BY <4>2
    <3> QED BY <3>1, <3>2
  <2>2. CASE \E j \in Invites : invite[j].live /\ invite[j].sub = by /\ id = TokenOf(j)
    <3>1. PICK j \in Invites : invite[j].live /\ invite[j].sub = by /\ id = TokenOf(j)
      BY <2>2
    <3>2. id.token = j /\ id.claim = TRUE /\ id.pinned = invite[j].role
      BY <3>1 DEF TokenOf
    <3> QED BY <1>3, <3>1, <3>2
  <2> QED BY <2>1, <2>2 DEF Identities
<1> DEFINE otherwise == Otherwise(id)
           actual == IF op = "redeem" THEN invite[i].role ELSE role
           place == IF op = "redeem" THEN "org" ELSE "resolve"
           new == [id |-> made', op |-> op, by |-> by, claim |-> id.claim,
                   otherwise |-> otherwise, token |-> id.token, target |-> target, invite |-> i,
                   caller |-> 0, role |-> actual, at |-> place]
<1>5. /\ actual \in {0} \cup Roles /\ place \in {"org"} \cup Places
      /\ otherwise \in {0} \cup Roles
  BY <1>1, <1>3, <1>4 DEF Places, Otherwise
<1>6. open' = open \cup {new}
  BY <1>1
<1> HIDE DEF otherwise
<1> HIDE DEF actual
<1>7. /\ new.id = made' /\ new.op = op /\ new.by = by /\ new.target = target /\ new.invite = i
      /\ new.claim = id.claim /\ new.role = actual /\ new.at = place /\ new.token = id.token
  OBVIOUS
<1>8. PICK r \in Requests : r = new
  BY <1>2, <1>4, <1>5 DEF Requests
<1> HIDE DEF new
<1>9. /\ r.id = made' /\ r.op = op /\ r.by = by /\ r.target = target /\ r.invite = i
      /\ r.claim = id.claim /\ r.role = actual /\ r.at = place /\ r.token = id.token
      /\ open' = open \cup {r}
  BY <1>6, <1>7, <1>8
<1>9a. Sane(r)
  BY <1>1, <1>3, <1>5, <1>9 DEF Sane
<1>9b. OfInvite(r)'
  BY <1>1, <1>2, <1>3, <1>9 DEF OfInvite, Ind, Minted, actual
<1>10. open' \subseteq Requests /\ \A q \in open' : Sane(q) /\ OfInvite(q)'
  BY <1>2, <1>9, <1>9a, <1>9b DEF Ind, OfInvite
<1>11. outside' \subseteq outside
  BY <1>1
<1>12. Stored' /\ Minted'
  BY <1>2, <1>11 DEF Ind, Stored, Minted
<1>13. Numbered'
  <2>1. \A q \in open : q.id <= made /\ q.id \in Int
    BY DEF Ind, Numbered, Requests, RequestIds
  <2>2. \A q \in open : q.id < made'
    BY <1>2, <2>1
  <2>3. \A q \in open' : q.id <= made'
    BY <1>2, <1>9, <2>1, <2>2
  <2>4. \A p, q \in open' : p.id = q.id => p = q
    BY <1>2, <1>9, <2>2 DEF Ind, Numbered
  <2> QED BY <2>3, <2>4 DEF Numbered
<1>14. ASSUME serial PROVE InTurn'
  <2>1. open' = {r} /\ InTurn
    BY <1>2, <1>9, <1>14 DEF Ind, InTurn, Alone
  <2>2. \A j \in joined : ~invite[j[2]].live
    BY <1>2, <1>14, <2>1 DEF InTurn, Spent
  <2>3. Informed(r)'
    BY <1>9 DEF Informed
  <2>4. Unspent(r)'
    <3>1. op = "redeem" => invite[i].live
      BY <1>1
    <3> QED BY <1>2, <1>9, <2>2, <3>1 DEF Unspent
  <2>5. Harmless(r)'
    <3>1. op \in {"set", "invite", "redeem"} => target \notin outside'
      BY <1>1 DEF LetsIn
    <3>2. id.claim /\ by \notin Claimed => by \notin outside'
      BY <1>4, <1>11, <1>14, <2>1 DEF InTurn, RevokedStaysOut
    <3>3. r.at # "write"
      BY <1>9
    <3> QED BY <1>9, <3>1, <3>2, <3>3 DEF Harmless
  <2>6. Spent'
    BY <1>2, <2>1, <2>2 DEF InTurn, Spent
  <2>7. InviteOnce' /\ RevokedStaysOut'
    BY <1>2, <1>11, <2>1 DEF InTurn, InviteOnce, RevokedStaysOut
  <2> QED BY <2>1, <2>3, <2>4, <2>5, <2>6, <2>7 DEF InTurn, Alone
<1> QED BY <1>2, <1>10, <1>12, <1>13, <1>14 DEF Ind, InTurn, Alone

\* The default is changed between two requests, or while some are on their way.
LEMMA PutOrgStep == ASSUME Ind, PutOrg PROVE Ind'
<1>1. /\ UNCHANGED <<row, invite, open, joined, outside, serial>>
      /\ made' = made + 1 /\ made \in 0..MaxRequests /\ made' \in 0..MaxRequests
      /\ serial => open = {}
  BY AskedFacts DEF PutOrg
<1>2. default' \in {0} \cup Roles
  BY MembershipConstants DEF PutOrg
<1>3. Numbered'
  <2>1. \A q \in open : q.id <= made /\ q.id \in Int
    BY DEF Ind, Numbered, Requests, RequestIds
  <2>2. \A q \in open : q.id <= made'
    BY <1>1, <2>1
  <2> QED BY <1>1, <2>2 DEF Ind, Numbered
<1>4. Stored' /\ Minted' /\ \A q \in open' : Sane(q) /\ OfInvite(q)'
  BY <1>1, <1>2 DEF Ind, Stored, Minted, OfInvite
<1>5. serial => Spent' /\ InviteOnce' /\ RevokedStaysOut'
  BY <1>1 DEF Ind, Spent, InviteOnce, RevokedStaysOut
<1> QED BY <1>1, <1>3, <1>4, <1>5 DEF Ind

\* The role of an invite that names none is the default of now.
LEMMA ReadOrgStep == ASSUME Ind, NEW q \in open, ReadOrg(q) PROVE Ind'
<1> DEFINE role == IF q.role = 0 THEN EffectiveDefault ELSE q.role
           next == [q EXCEPT !.role = role, !.at = "look"]
<1>1. /\ q.at = "org" /\ UNCHANGED <<made, serial, default, row, invite, joined, outside>>
      /\ open' = (open \ {q}) \cup {next}
  BY DEF ReadOrg, At, Keep
<1>2. q \in Requests /\ Sane(q) /\ OfInvite(q) /\ q.op = "redeem" /\ role \in {0} \cup Roles
  <2>1. q \in Requests /\ Sane(q) /\ OfInvite(q) /\ q.op \in AllOps
    BY Fields DEF Ind
  <2>2. q.op = "redeem"
    BY <1>1, <2>1 DEF Sane, AllOps
  <2>3. role \in {0} \cup Roles
    BY <2>1, MembershipConstants DEF EffectiveDefault, Ind, Stored, Requests
  <2> QED BY <2>1, <2>2, <2>3
<1>3. q.invite \in Invites /\ q.role = invite[q.invite].role /\ invite[q.invite].sub # "nobody"
  BY <1>1, <1>2 DEF Sane, OfInvite
<1> HIDE DEF role
<1>3a. /\ next \in Requests /\ next.id = q.id /\ next.op = q.op /\ next.by = q.by
       /\ next.target = q.target /\ next.claim = q.claim /\ next.invite = q.invite
       /\ next.role = role /\ next.at = "look"
  BY <1>2 DEF Requests, Places
<1> HIDE DEF next
<1>4. PICK m \in Requests :
        /\ open' = (open \ {q}) \cup {m}
        /\ m.id = q.id /\ m.op = q.op /\ m.by = q.by /\ m.target = q.target
        /\ m.claim = q.claim /\ m.invite = q.invite /\ m.role = role /\ m.at = "look"
  BY <1>1, <1>3a
<1>5. Sane(m) /\ m # q
  BY <1>1, <1>2, <1>4 DEF Sane
<1>6. OfInvite(m)'
  BY <1>1, <1>2, <1>3, <1>4 DEF OfInvite, role
<1>7. open' \subseteq Requests /\ Numbered' /\ \A r \in open' : Sane(r)
  <2> DEFINE R == {m}
  <2>1. /\ R \in SUBSET Requests /\ open' = (open \ {q}) \cup R
        /\ \A r \in R : r # q /\ r.id = q.id /\ Sane(r)
        /\ \A r, s \in R : r = s
    BY <1>4, <1>5
  <2> HIDE DEF R
  <2> QED BY <1>1, <2>1, Replaced DEF Ind
<1>8. (\A r \in open' : OfInvite(r)') /\ Stored' /\ Minted'
  BY <1>1, <1>4, <1>6 DEF Ind, OfInvite, Stored, Minted
<1>9. ASSUME serial PROVE InTurn'
  <2>1. open = {q} /\ open' = {m} /\ InTurn
    BY <1>4, <1>9 DEF Ind, InTurn, Alone
  <2>2. Informed(m)'
    BY <1>1, <1>2, <1>3, <1>4 DEF Informed, EffectiveDefault, role
  <2>3. Unspent(m)' /\ Harmless(m)'
    BY <1>1, <1>2, <1>4, <2>1 DEF InTurn, Unspent, Harmless
  <2>4. Spent' /\ InviteOnce' /\ RevokedStaysOut'
    BY <1>1, <2>1 DEF InTurn, Spent, InviteOnce, RevokedStaysOut
  <2> QED BY <2>1, <2>2, <2>3, <2>4 DEF InTurn, Alone
<1> QED BY <1>1, <1>7, <1>8, <1>9 DEF Ind, InTurn, Alone

\* A step of a request keeps the invariant, and the request is the one Acting names.
LEMMA RequestStep == ASSUME Ind, NEW q \in open, Steps(q) PROVE Ind' /\ Acting = q
<1>1. Moves(q)
  BY RequestMoves DEF Ind, Steps
<1>2. Acting = q /\ open' \subseteq Requests /\ Numbered' /\ \A r \in open' : Sane(r)
  BY <1>1, MovesKeep DEF Ind
<1>3. /\ Stored' /\ Minted'
      /\ \A i \in Invites : invite[i].sub # "nobody" =>
                              invite'[i].sub = invite[i].sub /\ invite'[i].role = invite[i].role
  BY StoredStep DEF Ind
<1>4. \A r \in open' : OfInvite(r)'
  BY <1>1, <1>3, MovesOfInvite DEF Ind
<1>5. serial => InTurn'
  BY ResolveInTurn, LookForOwnerInTurn, CrownInTurn, CountInTurn, LookInTurn, WriteInTurn,
     TokensInTurn, ConsumeInTurn, AbandonInTurn DEF Steps
<1> QED BY <1>1, <1>2, <1>3, <1>4, <1>5 DEF Ind, InTurn, Alone, Moves

\* Every step is the start of a request, a change of the default, or a step of a request.
LEMMA NextStep == Next <=> \/ \E op \in Ops, by \in Subs : Start(op, by)
                           \/ PutOrg
                           \/ \E q \in open : ReadOrg(q) \/ Steps(q)
BY DEF Next, Steps

\* The invariant holds at first.
LEMMA IndInit == Init => Ind
<1> SUFFICES ASSUME Init PROVE Ind
  OBVIOUS
<1>1. Stored
  <2>1. row \in [Subs -> {0} \cup Roles]
    BY MembershipConstants DEF Init, Roles, Owner, Reader
  <2> QED BY <2>1, MembershipConstants DEF Init, Stored, NoInvite
<1>2. open = {} /\ joined = {} /\ outside = {}
  BY DEF Init
<1>3. \A i \in Invites : invite[i].role = 0 /\ ~invite[i].live
  BY DEF Init, NoInvite
<1>4. open \subseteq Requests /\ Numbered /\ (\A p, q \in open : p = q)
      /\ \A q \in open : Sane(q) /\ OfInvite(q) /\ Informed(q) /\ Unspent(q) /\ Harmless(q)
  BY <1>2 DEF Numbered
<1>5. Minted
  BY <1>3 DEF Minted, Owner
<1>6. Spent /\ InviteOnce /\ RevokedStaysOut
  BY <1>2 DEF Spent, InviteOnce, RevokedStaysOut
<1> QED BY <1>1, <1>4, <1>5, <1>6 DEF Ind

\* Every step keeps it.
LEMMA IndNext == ASSUME Ind, [Next]_vars PROVE Ind'
<1>1. CASE UNCHANGED vars
  <2>1. UNCHANGED <<serial, default, row, invite, open, made, joined, outside>>
    BY <1>1 DEF vars
  <2> QED BY <2>1 DEF Ind, Stored, Numbered, Minted, OfInvite, Informed, EffectiveDefault, Unspent,
                      Harmless, Spent, InviteOnce, RevokedStaysOut
<1>2. CASE Next
  BY <1>2, NextStep, StartStep, PutOrgStep, ReadOrgStep, RequestStep
<1> QED BY <1>1, <1>2

\* For every set of people, invites and requests, and whatever the default role: the types,
\* and of requests that come one after the other and end by themselves, one invite lets one
\* of them join.  A request that is cut short behind the row has joined and left the invite
\* live: nothing is promised of it.
THEOREM MembershipSound == Spec => []Sound
<1>1. ASSUME Ind PROVE Sound
  <2>1. TypeOK
    BY <1>1 DEF Ind, Stored, Numbered, Requests, Places, TypeOK
  <2> QED BY <1>1, <2>1 DEF Ind, InviteOnce, Sound
<1> QED BY <1>1, IndInit, IndNext, PTL DEF Spec

\* Whoever was revoked stays out until a request made after the revocation lets them in.
THEOREM RevokedStayOut == Spec => []RevokedStaysOut
<1>1. Ind => RevokedStaysOut
  BY DEF Ind, RevokedStaysOut
<1> QED BY <1>1, IndInit, IndNext, PTL DEF Spec

\* Whatever overlaps or is cut short, an owner row is written by bootstrap for somebody with
\* the claim, at the word of an owner, or for an invite that names no role - and, of requests
\* that come one after the other, only while the default is to own; of these, only an owner,
\* or the one who leaves, ends an ownership.
THEOREM OwnershipIsTraced == Spec => OwnershipTraced
<1>1. ASSUME Ind, [Next]_vars PROVE [ChangedByOwners /\ MadeByOwners]_vars
  <2>1. ASSUME UNCHANGED row PROVE ChangedByOwners /\ MadeByOwners
    BY <2>1 DEF ChangedByOwners, MadeByOwners
  <2>2. ASSUME NEW q \in open, Steps(q) PROVE ChangedByOwners /\ MadeByOwners
    <3>1. /\ Acting = q /\ Sane(q) /\ OfInvite(q) /\ row \in [Subs -> {0} \cup Roles]
          /\ q.op \in AllOps
      BY <1>1, <2>2, RequestStep, Fields DEF Ind, Stored
    <3>2. serial => Informed(q)
      BY <1>1 DEF Ind
    <3>3. CASE Crown(q)
      <4>1. q.at = "crown" /\ q.claim /\ row' = [row EXCEPT ![q.by] = Owner]
        BY <3>1, <3>3 DEF Crown, At, Sane
      <4> QED BY <3>1, <4>1 DEF ChangedByOwners, MadeByOwners
    <3>4. CASE Write(q)
      <4>1. CASE q.op = "set"
        <5>1. q.at = "write" /\ row' = [row EXCEPT ![q.target] = q.role]
          BY <3>4, <4>1 DEF Write, At, SetRow
        <5> QED BY <3>1, <3>2, <4>1, <5>1 DEF ChangedByOwners, MadeByOwners, Sane, Informed
      <4>2. CASE q.op \in {"remove", "revoke"}
        <5>1. q.at = "write" /\ row' = [row EXCEPT ![q.target] = 0] /\ 0 # Owner
          BY <3>4, <4>2 DEF Write, At, SetRow, Owner
        <5> QED BY <3>1, <3>2, <4>2, <5>1 DEF ChangedByOwners, MadeByOwners, Informed
      <4>3. CASE q.op \in {"leave", "redeem"}
        <5>1. /\ row' = [row EXCEPT ![q.by] = IF q.op = "leave" THEN 0 ELSE q.role] /\ 0 # Owner
              /\ q.at = "write"
          BY <3>1, <3>4, <4>3 DEF Write, At, SetRow, Owner
        <5>2. /\ q.op = "redeem" /\ q.role = Owner => invite[q.invite].role = 0
              /\ serial /\ q.op = "redeem" /\ q.role = Owner => EffectiveDefault = Owner
          <6>1. q.op = "redeem" /\ q.role = Owner => invite[q.invite].role = 0
            BY <1>1, <3>1 DEF OfInvite, Sane, Ind, Minted
          <6> QED BY <3>2, <5>1, <6>1 DEF Informed
        <5> QED BY <3>1, <4>3, <5>1, <5>2 DEF ChangedByOwners, MadeByOwners
      <4>4. CASE q.op \in {"invite", "touch"}
        BY <2>1, <3>4, <4>4 DEF Write
      <4> QED BY <3>1, <4>1, <4>2, <4>3, <4>4 DEF AllOps
    <3>5. UNCHANGED row \/ Crown(q) \/ Write(q)
      BY <2>2 DEF Steps, ResolveRole, LookForOwner, CountOwners, Look, Tokens, Consume, Abandon, Keep
    <3> QED BY <2>1, <3>3, <3>4, <3>5
  <2>3. Next => UNCHANGED row \/ \E q \in open : Steps(q)
    BY NextStep DEF Start, PutOrg, ReadOrg, Keep
  <2>4. UNCHANGED vars \/ UNCHANGED row \/ \E q \in open : Steps(q)
    BY <1>1, <2>3
  <2> QED BY <2>1, <2>2, <2>4
<1> QED BY <1>1, IndInit, IndNext, PTL DEF Spec, OwnershipTraced

\* Of requests that come one after the other, none that leaves takes the last owner away.
THEOREM NobodyIsStranded == Spec => LeaveStrandsNobody
<1> DEFINE Stranding == serial /\ HasOwner /\ ~HasOwner' => Acting.op # "leave"
<1>1. ASSUME Ind, [Next]_vars PROVE [Stranding]_vars
  <2>1. ASSUME UNCHANGED row PROVE Stranding
    BY <2>1 DEF HasOwner
  <2>2. ASSUME NEW q \in open, Steps(q) PROVE Stranding
    <3>1. SUFFICES ASSUME serial, q.op = "leave", Write(q), HasOwner PROVE HasOwner'
      <4>1. q.op = "leave" => UNCHANGED row \/ Write(q)
        <5>1. Sane(q)
          BY <1>1 DEF Ind
        <5> QED BY <2>2, <5>1 DEF Steps, ResolveRole, LookForOwner, Crown, CountOwners, Look, Tokens,
                    Consume, Abandon, Keep, At, Sane
      <4>2. Acting = q
        BY <1>1, <2>2, RequestStep
      <4> QED BY <2>1, <4>1, <4>2
    <3>2. /\ q.at = "write" /\ row' = [row EXCEPT ![q.by] = 0] /\ Informed(q)
          /\ row \in [Subs -> {0} \cup Roles]
      BY <1>1, <3>1 DEF Write, At, SetRow, Ind, Stored
    <3>3. \E s \in Subs \ {q.by} : row[s] = Owner
      BY <3>1, <3>2 DEF Informed, HasOwner
    <3> QED BY <3>2, <3>3 DEF HasOwner
  <2>3. Next => UNCHANGED row \/ \E q \in open : Steps(q)
    BY NextStep DEF Start, PutOrg, ReadOrg, Keep
  <2>4. UNCHANGED vars \/ UNCHANGED row \/ \E q \in open : Steps(q)
    BY <1>1, <2>3
  <2> QED BY <2>1, <2>2, <2>4
<1> QED BY <1>1, IndInit, IndNext, PTL DEF Spec, LeaveStrandsNobody
=============================================================================
