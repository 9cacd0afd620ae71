----------------------------- MODULE DynamoFeed -----------------------------
(***************************************************************************)
(* The change feed on the server's other storage, DynamoDB, where a push   *)
(* is no transaction: for each record of the batch one call takes a number *)
(* from the team's counter and a later call puts the record, if it is      *)
(* newer than the stored one.  Requests run concurrently, fail between any *)
(* two calls, and go on when the client has given up on them.              *)
(*                                                                         *)
(* The devices are kept simple: they edit, push what they owe, and read    *)
(* what follows their cursor.  How a device goes through a cycle is        *)
(* TeamSync's subject.                                                     *)
(***************************************************************************)
EXTENDS SyncProto, FiniteSets

CONSTANTS
  Stamps,  \* [Devices -> SUBSET Nat]: the instants each device's clock shows to an edit
  NoId,    \* no record
  MaxSeq   \* bound: numbers the counter gives out

ASSUME DynamoConstants ==
  /\ Stamps \in [Devices -> SUBSET (Nat \ {0})]
  /\ NoId \notin Records
  /\ MaxSeq \in Nat
  /\ IsFiniteSet(Records)

VARIABLES
  item,     \* the record item of each id
  seqOf,    \* its seq attribute, 0 if there is no item
  ctr,      \* the counter item
  have,     \* have[d][i]: the row of i on device d
  owed,     \* owed[d]: the records d has to push
  cursor,   \* cursor[d]: what d has read up to
  left,     \* left[d][i]: rows of d's request that are still to be merged
  doing,    \* doing[d]: the record d's request has a number for, NoId if none
  num,      \* num[d]: that number
  ack,      \* ack[d][i]: the outcome so far, "none" if i is not in the request
  sent,     \* sent[d][i]: the row of i the request carries
  waiting,  \* waiting[d]: whether d still waits for the answer
  inTurn    \* whether, in this behaviour, the next number always waits for the put of the
            \* last.  The code does not wait: these are the behaviours without the overlap.

tableVars == <<item, seqOf, ctr>>
deviceVars == <<have, owed, cursor, waiting>>
requestVars == <<left, doing, num, ack, sent>>
dynamoVars == <<tableVars, deviceVars, requestVars, inTurn>>

Nothing == [i \in Records |-> NoRow]
NoAck == [i \in Records |-> "none"]

TableTypes ==
  /\ item \in [Records -> Row]
  /\ seqOf \in [Records -> Nat]
  /\ ctr \in Nat
  /\ have \in [Devices -> [Records -> Row]]
  /\ owed \in [Devices -> SUBSET Records]
  /\ cursor \in [Devices -> Nat]
  /\ waiting \in [Devices -> BOOLEAN] /\ inTurn \in BOOLEAN
  /\ left \in [Devices -> [Records -> Row]]
  /\ doing \in [Devices -> Records \cup {NoId}]
  /\ num \in [Devices -> Nat]
  /\ ack \in [Devices -> [Records -> {"none", "accepted", "superseded"}]]
  /\ sent \in [Devices -> [Records -> Row]]


TableInit ==
  /\ item = Nothing
  /\ seqOf = [i \in Records |-> 0]
  /\ ctr = 0 /\ inTurn \in BOOLEAN
  /\ have = [d \in Devices |-> Nothing]
  /\ owed = [d \in Devices |-> {}]
  /\ cursor = [d \in Devices |-> 0]
  /\ waiting = [d \in Devices |-> FALSE]
  /\ left = [d \in Devices |-> Nothing]
  /\ doing = [d \in Devices |-> NoId]
  /\ num = [d \in Devices |-> 0]
  /\ ack = [d \in Devices |-> NoAck]
  /\ sent = [d \in Devices |-> Nothing]

-----------------------------------------------------------------------------
(***************************************************************************)
(* The devices.                                                            *)
(***************************************************************************)
\* An instant of d's clock that none of its rows carries.
Now(d) == {t \in Stamps[d] : \A i \in Records : t # have[d][i].ts /\ t # item[i].ts
                                                /\ t # sent[d][i].ts}

\* Ids are fresh uuids: no device has a row for the id yet.
Fresh(i) == \A e \in Devices : ~Present(have[e][i])

\* A new row or a new version of one; a snippet may lie in a folder d knows.
Edit(d) ==
  /\ \E i \in Records, t \in Now(d), x \in Texts,
        g \in {h \in Groups : Present(have[d][h])} \cup {NoGroup} :
       /\ Fresh(i) \/ Present(have[d][i])
       /\ t > have[d][i].ts
       /\ have' = [have EXCEPT ![d][i] =
                     [ts |-> t, ver |-> @.ver + 1, del |-> FALSE, team |-> TRUE,
                      grp |-> IF i \in Snippets THEN g ELSE NoGroup,
                      kind |-> IF i \in Snippets THEN "text" ELSE "group", text |-> x]]
       /\ owed' = [owed EXCEPT ![d] = @ \cup {i}]
  /\ UNCHANGED <<tableVars, cursor, waiting, requestVars, inTurn>>

\* What a device keeps of a row that comes from the server.
Merged(d, i, r) == IF Newer(r, have[d][i]) THEN r ELSE have[d][i]

\* One page of what follows the cursor.  Where a page ends is up to DynamoDB.
Read(d) ==
  /\ ~waiting[d]
  /\ \E n \in {seqOf[i] : i \in {j \in Records : seqOf[j] > cursor[d]}} :
       LET shown == {i \in Records : cursor[d] < seqOf[i] /\ seqOf[i] <= n}
       IN  /\ have' = [have EXCEPT ![d] = [i \in Records |->
                         IF i \in shown THEN Merged(d, i, item[i]) ELSE have[d][i]]]
           /\ owed' = [owed EXCEPT ![d] = @ \ {i \in shown : Newer(item[i], have[d][i])}]
           /\ cursor' = [cursor EXCEPT ![d] = n]
  /\ UNCHANGED <<tableVars, waiting, requestVars, inTurn>>

InFlight(d) == ack[d] # NoAck \/ left[d] # Nothing

Push(d) ==
  /\ ~waiting[d] /\ ~InFlight(d)
  /\ owed[d] # {}
  /\ ctr + Cardinality(owed[d]) <= MaxSeq
  /\ left' = [left EXCEPT ![d] = [i \in Records |->
                IF i \in owed[d] THEN have[d][i] ELSE NoRow]]
  /\ sent' = [sent EXCEPT ![d] = left'[d]]
  /\ waiting' = [waiting EXCEPT ![d] = TRUE]
  /\ UNCHANGED <<tableVars, have, owed, cursor, doing, num, ack, inTurn>>

\* The client's timeout: it no longer waits, the request goes on.
GiveUp(d) ==
  /\ waiting[d]
  /\ waiting' = [waiting EXCEPT ![d] = FALSE]
  /\ UNCHANGED <<tableVars, have, owed, cursor, requestVars, inTurn>>

-----------------------------------------------------------------------------
(***************************************************************************)
(* merge: merge_one for every record of the batch, groups first.           *)
(***************************************************************************)

IsNext(d, i) ==
  Present(left[d][i]) /\ (i \in Snippets => \A g \in Groups : ~Present(left[d][g]))

\* next_seq
TakeNumber(d) ==
  /\ doing[d] = NoId
  /\ inTurn => \A e \in Devices : doing[e] = NoId
  /\ ctr < MaxSeq
  /\ \E i \in Records :
       /\ IsNext(d, i)
       /\ doing' = [doing EXCEPT ![d] = i]
  /\ ctr' = ctr + 1
  /\ num' = [num EXCEPT ![d] = ctr + 1]
  /\ UNCHANGED <<item, seqOf, deviceVars, left, ack, sent, inTurn>>

\* Mutant: the put carries no condition.
WinsAlways(r, i) == TRUE
\* Mutant: a tie wins.
WinsTies(r, i) == ~Newer(item[i], r)
\* The condition of the put.
Wins(r, i) == ~Present(item[i]) \/ Newer(r, item[i])

\* What a push that does not win is told.
LoserOutcome == "superseded"

\* The conditional put, and what merge_one makes of its result.
Put(d) ==
  /\ doing[d] # NoId
  /\ LET i == doing[d]
     IN  /\ IF Wins(left[d][i], i)
            THEN /\ item' = [item EXCEPT ![i] = left[d][i]]
                 /\ seqOf' = [seqOf EXCEPT ![i] = num[d]]
                 /\ ack' = [ack EXCEPT ![d][i] = "accepted"]
            ELSE /\ ack' = [ack EXCEPT ![d][i] = LoserOutcome]
                 /\ UNCHANGED <<item, seqOf>>
         /\ left' = [left EXCEPT ![d][i] = NoRow]
  /\ doing' = [doing EXCEPT ![d] = NoId]
  /\ UNCHANGED <<ctr, deviceVars, num, sent, inTurn>>

EndRequest(d) ==
  /\ left' = [left EXCEPT ![d] = Nothing]
  /\ doing' = [doing EXCEPT ![d] = NoId]
  /\ ack' = [ack EXCEPT ![d] = NoAck]
  /\ sent' = [sent EXCEPT ![d] = Nothing]
  /\ UNCHANGED <<tableVars, cursor, num, inTurn>>

\* A call fails and with it the request: what has been put stays, a number taken is burned.
Fail(d) ==
  /\ InFlight(d)
  /\ EndRequest(d)
  /\ waiting' = [waiting EXCEPT ![d] = FALSE]
  /\ UNCHANGED <<have, owed>>

\* The answer, to a device that may have given up.  A record stays owed if it was
\* edited since; a superseded one if the server's copy does not beat the device's.
Answer(d) ==
  /\ InFlight(d) /\ left[d] = Nothing
  /\ EndRequest(d)
  /\ waiting' = [waiting EXCEPT ![d] = FALSE]
  /\ IF waiting[d]
     THEN LET superseded == {i \in Records : ack[d][i] = "superseded"}
              settled == {i \in Records : ack[d][i] = "accepted" /\ SameStamp(sent[d][i], have[d][i])}
                           \cup {i \in superseded : Newer(item[i], have[d][i])}
          IN  /\ have' = [have EXCEPT ![d] = [i \in Records |->
                            IF i \in superseded THEN Merged(d, i, item[i]) ELSE have[d][i]]]
              /\ owed' = [owed EXCEPT ![d] = @ \ settled]
     ELSE UNCHANGED <<have, owed>>

-----------------------------------------------------------------------------
TableNext ==
  \E d \in Devices :
    \/ Edit(d) \/ Read(d) \/ Push(d) \/ GiveUp(d)
    \/ TakeNumber(d) \/ Put(d) \/ Fail(d) \/ Answer(d)

TableSpec == TableInit /\ [][TableNext]_dynamoVars
-----------------------------------------------------------------------------
\* No push is lost: what a device does not owe, the table holds or has outgrown,
\* whichever requests overlap, fail or outlive their client.
NoLostPush ==
  \A d \in Devices, i \in Records : i \notin owed[d] => ~Newer(have[d][i], item[i])

\* No two items share a number and none is past the counter: a page boundary
\* never splits a number.
NumbersDistinct ==
  \A i, j \in Records :
    /\ seqOf[i] <= ctr
    /\ i # j /\ seqOf[i] > 0 => seqOf[i] # seqOf[j]

\* "Everything after `since`" (SYNC-PROTOCOL, GET changes): what a cursor has
\* passed the device has.
CursorSound ==
  \A d \in Devices, i \in Records :
    seqOf[i] <= cursor[d] => ~Newer(item[i], have[d][i]) \/ i \in owed[d]

\* Groups go first (merge, pull_team): without overlaps the folder that a device's snippet
\* lies in is on the device, or it was put again since and is still ahead of its cursor.
FolderKnown ==
  \A d \in Devices, i \in Snippets :
    LET g == have[d][i].grp
    IN  inTurn /\ g # NoGroup => Present(have[d][g]) \/ cursor[d] < seqOf[g]

\* The type invariant, with the numbers that the atomic ADD of next_seq() gives out, the
\* pushes that are kept or owed, and the folders that readers know or will read.
TableSound == TableTypes /\ NumbersDistinct /\ NoLostPush /\ FolderKnown

\* With the puts in the counter's order the table implements the change feed: the
\* overlap is all that stands between the two.
Feed == INSTANCE ChangeFeed WITH latest <- item
FollowsFeed == [Feed!Next]_Feed!feedVars
ImplementsFeed == Feed!Init /\ [][inTurn => FollowsFeed]_dynamoVars
=============================================================================
