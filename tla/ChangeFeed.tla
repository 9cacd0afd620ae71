----------------------------- MODULE ChangeFeed -----------------------------
(***************************************************************************)
(* What GET /v1/teams/{team}/changes promises (SYNC-PROTOCOL, Ordering and *)
(* server obligations 3 and 4), without saying how: one numbered slot per  *)
(* record, and readers that each remember the number they have read up to. *)
(* A record only gives way to a newer one, and whatever is published is    *)
(* numbered past everything published and past every reader, so that a     *)
(* reader who asks for what follows its cursor misses nothing.             *)
(***************************************************************************)
EXTENDS SyncProto

VARIABLES latest, seqOf, cursor

feedVars == <<latest, seqOf, cursor>>

Init ==
  /\ latest = [i \in Records |-> NoRow]
  /\ seqOf = [i \in Records |-> 0]
  /\ cursor = [d \in Devices |-> 0]

\* The records of S are replaced, in one step.
Publish(S) ==
  /\ latest' \in [Records -> Row] /\ seqOf' \in [Records -> Nat]
  /\ \A i \in S :
       /\ Newer(latest'[i], latest[i])
       /\ \A j \in Records : seqOf'[i] > seqOf[j]
       /\ \A d \in Devices : seqOf'[i] > cursor[d]
       /\ \A j \in S : i # j => seqOf'[i] # seqOf'[j]
  /\ \A i \in Records \ S : latest'[i] = latest[i] /\ seqOf'[i] = seqOf[i]
  /\ UNCHANGED cursor

\* A reader moves up, to no further than what has been published.
Advance(d) ==
  /\ cursor' = [cursor EXCEPT ![d] = cursor'[d]]
  /\ cursor'[d] > cursor[d]
  /\ \E i \in Records : cursor'[d] <= seqOf[i]
  /\ UNCHANGED <<latest, seqOf>>

Next ==
  \/ \E S \in SUBSET Records : Publish(S)
  \/ \E d \in Devices : Advance(d)

Spec == Init /\ [][Next]_feedVars
=============================================================================
