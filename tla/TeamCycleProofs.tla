-------------------------- MODULE TeamCycleProofs ---------------------------
(***************************************************************************)
(* Theorems about TeamCycle, for any number of teams and records, any      *)
(* number of events, and every point at which a cycle may be cut short.    *)
(***************************************************************************)
EXTENDS TeamCycle, FiniteSetTheorems, TLAPS

(***************************************************************************)
(* The inductive invariant.                                                *)
(***************************************************************************)
\* The teams that are left of the cycle
Left == {todo[i] : i \in DOMAIN todo}
Sent(r) == row[r].team => srv[r].stamp >= row[r].stamp

\* What the loop holds where.
Stations ==
  /\ (pc \in {"filter", "apply", "push", "sent", "ack"} \/ again) => todo # << >>
  /\ pc \in {"wait", "debounce", "me", "backoff"} => todo = << >>
  /\ pc \in {"filter", "apply"} \/ page = NoPage
  /\ pc \in {"sent", "ack"} \/ batch = NoBatch
  /\ pc = "ack" \/ (won = {} /\ ack = NoPage)

\* The feeds' numbers, and the cursors in them.
Feed ==
  /\ \A r \in Records : srv[r].seq <= top[TeamOf[r]]
  /\ \A t \in TeamSet : cursor[t] <= top[t]
  /\ \A q, r \in Records : (srv[q].seq > 0 /\ TeamOf[q] = TeamOf[r] /\ srv[q].seq = srv[r].seq) => q = r

\* Every copy of a record is one that the device or the server has or had.
Copies == \A r \in Records :
  /\ pushed[r] <= row[r].stamp /\ pushed[r] <= srv[r].stamp
  /\ page[r].stamp <= srv[r].stamp /\ ack[r].stamp <= srv[r].stamp
  /\ batch[r] <= row[r].stamp
  /\ r \in won => batch[r] <= srv[r].stamp
  /\ (page[r].stamp > 0 \/ batch[r] > 0) => TeamOf[r] = Team

\* A page that is on its way holds what lies between the cursor and its end, unless something
\* newer, which then lies beyond the end, has taken its place.
Ahead == pc \in {"filter", "apply"} =>
  /\ upto <= top[Team]
  /\ \A r \in Of(Team) : (cursor[Team] < srv[r].seq /\ srv[r].seq <= upto) => page[r] = srv[r]
  /\ \A r \in Records : page[r].stamp > 0 => cursor[Team] < page[r].seq /\ page[r].seq <= srv[r].seq
  /\ pc = "apply" => \A r \in hidden : page[r].stamp > 0

\* The cycle has pushed for team t.
Settled(t) == t \notin Left \/ (todo # << >> /\ t = Team /\ (again \/ pc = "ack"))

\* What is not sent of a team that the cycle has pushed for has a kick behind it; what is not
\* sent of the team whose batch is out is in the batch, or has a kick.
Owes ==
  /\ (pc # "me" /\ ~kick) =>
       \A r \in Records \ Theirs : (TeamOf[r] \in me /\ Settled(TeamOf[r])) => Sent(r)
  /\ (pc = "sent" /\ ~kick) =>
       \A r \in Of(Team) \ Theirs : Sent(r) \/ batch[r] = row[r].stamp

Ind == TypeOK /\ Stations /\ Feed /\ Copies /\ Ahead /\ CursorCovers /\ Owes

\* What becomes of the loop's variables in the steps that are not a call of its own: the
\* cycle is given up, or it is left where it stands.
Drops ==
  /\ Rest /\ pc' \in {"wait", "backoff"}
  /\ UNCHANGED <<srv, top, clk, store, withheld>>
Stays ==
  /\ UNCHANGED <<srv, top, clk, store, todo, me, again, manager, page, hidden, upto, batch, won, ack,
                 withheld>>
  /\ \/ pc' = pc /\ (kick' = kick \/ kick')
     \/ /\ pc' \in {"wait", "debounce"} /\ pc \in {"wait", "pull", "backoff"}
        /\ todo = << >> /\ kick' = kick
     \/ pc = "debounce" /\ pc' = "me"

-----------------------------------------------------------------------------
(***************************************************************************)
(* Ranks and the order of the teams.                                       *)
(***************************************************************************)
\* The ranks of the members of a finite set of numbers are distinct and end with its size:
\* the numbers that a batch is given.
LEMMA RankFits ==
  ASSUME NEW S \in SUBSET Nat, IsFiniteSet(S)
  PROVE  /\ Cardinality(S) \in Nat
         /\ \A r \in S : Rank(S, r) \in 1..Cardinality(S)
         /\ \A q, r \in S : q < r => Rank(S, q) < Rank(S, r)
<1> DEFINE Below(r) == {q \in S : q <= r}
<1>1. Cardinality(S) \in Nat
  BY FS_CardinalityType
<1>2. ASSUME NEW r \in S
      PROVE  IsFiniteSet(Below(r)) /\ Cardinality(Below(r)) \in 1..Cardinality(S)
  <2>1. Below(r) \in SUBSET S /\ r \in Below(r)
    OBVIOUS
  <2>2. IsFiniteSet(Below(r)) /\ Cardinality(Below(r)) <= Cardinality(S)
    BY <2>1, FS_Subset
  <2>3. Cardinality(Below(r)) \in Nat /\ Cardinality(Below(r)) # 0
    BY <2>1, <2>2, FS_CardinalityType, FS_EmptySet
  <2> QED BY <1>1, <2>2, <2>3
<1>3. ASSUME NEW q \in S, NEW r \in S, q < r
      PROVE  Cardinality(Below(q)) < Cardinality(Below(r))
  <2>0. q \in Nat /\ r \in Nat /\ \A p \in S : p \in Nat
    OBVIOUS
  <2>1. Below(q) \in SUBSET Below(r)
    <3> SUFFICES ASSUME NEW p \in S, p <= q PROVE p <= r
      OBVIOUS
    <3> QED BY <1>3, <2>0
  <2>4. r \in Below(r) /\ r \notin Below(q)
    BY <1>3, <2>0
  <2>2. Cardinality(Below(q)) <= Cardinality(Below(r)) /\ Cardinality(Below(q)) # Cardinality(Below(r))
    BY <2>1, <2>4, <1>2, FS_Subset
  <2>3. Cardinality(Below(q)) \in Nat /\ Cardinality(Below(r)) \in Nat
    BY <1>1, <1>2
  <2> QED BY <2>2, <2>3
<1> QED BY <1>1, <1>2, <1>3 DEF Rank

\* The teams in order are all the teams: no team that /v1/me names is left out of the cycle.
LEMMA InOrderServes ==
  ASSUME NEW S \in SUBSET Nat, IsFiniteSet(S)
  PROVE  /\ InOrder(S) \in [1..Cardinality(S) -> S]
         /\ {InOrder(S)[i] : i \in 1..Cardinality(S)} = S
<1> DEFINE N == 1..Cardinality(S)
           rank == [r \in S |-> Rank(S, r)]
           Sorted(s) == \A i, j \in N : i < j => s[i] < s[j]
<1>1. Cardinality(S) \in Nat /\ IsFiniteSet(N) /\ Cardinality(N) = Cardinality(S)
  BY RankFits, FS_Interval
<1>2. rank \in [S -> N] /\ \A q, r \in S : q < r => rank[q] < rank[r]
  BY RankFits
<1>3. \A q, r \in S : rank[q] = rank[r] => q = r
  <2> TAKE q, r \in S
  <2>1. q \in Nat /\ r \in Nat /\ rank[q] \in N /\ rank[r] \in N
    BY <1>2
  <2>2. q = r \/ q < r \/ r < q
    BY <2>1
  <2> QED BY <1>2, <2>1, <2>2
<1>4. \A i \in N : \E r \in S : rank[r] = i
  <2>1. rank \in Injection(S, N)
    BY <1>2, <1>3 DEF Injection, IsInjective
  <2>2. rank \in Surjection(S, N)
    BY <2>1, <1>1, FS_Injection
  <2> QED BY <2>2 DEF Surjection
<1> DEFINE by == [i \in N |-> CHOOSE r \in S : rank[r] = i]
<1>5. \A i \in N : by[i] \in S /\ rank[by[i]] = i
  BY <1>4
<1>6. by \in [N -> S] /\ Sorted(by)
  <2>1. by \in [N -> S]
    BY <1>5
  <2>2. ASSUME NEW i \in N, NEW j \in N, i < j PROVE by[i] < by[j]
    <3>1. by[i] \in S /\ by[j] \in S /\ rank[by[i]] = i /\ rank[by[j]] = j
      BY <1>5
    <3> HIDE DEF by, rank
    <3>2. by[i] \in Nat /\ by[j] \in Nat
      BY <3>1
    <3>3. by[i] < by[j] \/ by[i] = by[j] \/ by[j] < by[i]
      BY <3>2
    <3>4. ~(j < i) /\ i # j
      BY <2>2, <1>1
    <3> QED BY <1>2, <3>1, <3>3, <3>4
  <2> QED BY <2>1, <2>2
<1>7. InOrder(S) \in [N -> S] /\ \A i, j \in DOMAIN InOrder(S) : i < j => InOrder(S)[i] < InOrder(S)[j]
  <2>1. DOMAIN by = N
    OBVIOUS
  <2>2. \E s \in [1..Cardinality(S) -> S] : \A i, j \in DOMAIN s : i < j => s[i] < s[j]
    <3> HIDE DEF by
    <3> QED BY <1>6, <2>1
  <2> QED BY <2>2 DEF InOrder
<1> DEFINE s == InOrder(S)
<1>8. s \in [N -> S] /\ Sorted(s)
  BY <1>7
<1> HIDE DEF s
<1>9. \A i, j \in N : s[i] = s[j] => i = j
  <2> TAKE i, j \in N
  <2>0. s[i] \in S /\ s[j] \in S
    BY <1>8
  <2>1. s[i] \in Nat /\ s[j] \in Nat /\ i \in Nat /\ j \in Nat
    <3>1. S \subseteq Nat /\ \A k \in N : k \in Nat
      BY <1>1
    <3> HIDE DEF N
    <3> QED BY <2>0, <3>1
  <2>2. i = j \/ i < j \/ j < i
    BY <2>1
  <2> QED BY <1>8, <2>1, <2>2
<1>10. s \in Surjection(N, S)
  <2>1. s \in Injection(N, S)
    BY <1>8, <1>9 DEF Injection, IsInjective
  <2> QED BY <2>1, <1>1, FS_Injection
<1>11. {s[i] : i \in N} = S
  <2>1. \A r \in S : \E i \in N : s[i] = r
    BY <1>10 DEF Surjection
  <2> QED BY <1>8, <2>1
<1> QED BY <1>8, <1>11 DEF s

\* The teams that are listed, in order.
LEMMA ListedInOrder ==
  /\ InOrder(Listed) \in Seq(TeamSet)
  /\ {InOrder(Listed)[i] : i \in DOMAIN InOrder(Listed)} = Listed
<1>1. Listed \in SUBSET TeamSet /\ TeamSet \in SUBSET Nat /\ IsFiniteSet(TeamSet)
  BY CycleConstants, FS_Interval DEF Listed, TeamSet
<1>2. Listed \in SUBSET Nat /\ IsFiniteSet(Listed)
  BY <1>1, FS_Subset
<1>3. Cardinality(Listed) \in Nat /\ InOrder(Listed) \in [1..Cardinality(Listed) -> Listed]
  BY <1>2, InOrderServes, FS_CardinalityType
<1>4. DOMAIN InOrder(Listed) = 1..Cardinality(Listed)
  BY <1>3
<1>5. InOrder(Listed) \in [1..Cardinality(Listed) -> TeamSet]
  BY <1>1, <1>3
<1>6. InOrder(Listed) \in Seq(TeamSet)
  BY <1>3, <1>5
<1> QED BY <1>2, <1>4, <1>6, InOrderServes

\* The numbers that accepted records get are above the feed's last one, and distinct.
LEMMA NumbersAreNew ==
  ASSUME NEW S \in SUBSET Records, top[Team] \in Nat
  PROVE  /\ Cardinality(S) \in Nat
         /\ \A r \in S : /\ Number(S, r) \in Nat
                         /\ top[Team] < Number(S, r) /\ Number(S, r) <= top[Team] + Cardinality(S)
         /\ \A q, r \in S : Number(S, q) = Number(S, r) => q = r
<1>1. S \in SUBSET Nat /\ IsFiniteSet(S)
  BY CycleConstants, FS_Subset
<1>2. /\ Cardinality(S) \in Nat
      /\ \A r \in S : Rank(S, r) \in 1..Cardinality(S)
      /\ \A q, r \in S : q < r => Rank(S, q) < Rank(S, r)
  BY <1>1, RankFits
<1>3. ASSUME NEW r \in S
      PROVE  /\ Number(S, r) \in Nat
             /\ top[Team] < Number(S, r) /\ Number(S, r) <= top[Team] + Cardinality(S)
  <2>1. Rank(S, r) \in 1..Cardinality(S)
    BY <1>2
  <2> QED BY <1>2, <2>1 DEF Number
<1>4. ASSUME NEW q \in S, NEW r \in S, Number(S, q) = Number(S, r) PROVE q = r
  <2>1. Rank(S, q) \in Nat /\ Rank(S, r) \in Nat
    BY <1>2
  <2>2. Rank(S, q) = Rank(S, r)
    BY <1>4, <2>1 DEF Number
  <2>3. q \in Nat /\ r \in Nat
    BY <1>1
  <2>4. q = r \/ q < r \/ r < q
    BY <2>3
  <2> QED BY <1>2, <2>1, <2>2, <2>4
<1> QED BY <1>2, <1>3, <1>4

-----------------------------------------------------------------------------
(***************************************************************************)
(* Types.                                                                  *)
(***************************************************************************)
\* The types at the start: every record of somebody else's has its place in its team's feed.
LEMMA TypeInit == Init => TypeOK
<1> SUFFICES ASSUME Init PROVE TypeOK
  OBVIOUS
<1>1. \A t \in TeamSet : Cardinality(Of(t) \cap Theirs) \in Nat
  <2> TAKE t \in TeamSet
  <2>1. Of(t) \cap Theirs \in SUBSET Records
    BY DEF Of
  <2> QED BY <2>1, CycleConstants, FS_Subset, FS_CardinalityType
<1>2. \A r \in Records : Rank(Of(TeamOf[r]) \cap Theirs, r) \in Nat
  <2> TAKE r \in Records
  <2>1. {q \in Of(TeamOf[r]) \cap Theirs : q <= r} \in SUBSET Records
    BY DEF Of
  <2> QED BY <2>1, CycleConstants, FS_Subset, FS_CardinalityType DEF Rank
<1>3. clk = 1 /\ Teams \in Nat
  BY CycleConstants DEF Init
<1>4. srv \in [Records -> [stamp : 0..clk, seq : Nat, exec : BOOLEAN]]
  BY <1>2, <1>3 DEF Init, Absent
<1>5. page \in [Records -> [stamp : 0..clk, seq : Nat, exec : BOOLEAN]] /\ ack = page
  BY <1>3 DEF Init, NoPage, Absent
<1>6. pushed \in [Records -> 0..clk] /\ batch = pushed /\ withheld \in [Records -> Nat]
  BY <1>3 DEF Init, NoBatch
<1>7. row \in [Records -> [stamp : 0..clk, team : BOOLEAN, on : BOOLEAN]]
  BY <1>3 DEF Init
<1>8. top \in [TeamSet -> Nat] /\ cursor \in [TeamSet -> Nat] /\ grant \in [TeamSet -> {"none"}]
  BY <1>1 DEF Init
<1>9. \E role \in {"writer", "manager"} : standing = [t \in TeamSet |-> role]
  BY DEF Init
<1>10. standing \in [TeamSet -> {"out", "archived", "reader", "writer", "manager"}]
  BY <1>9
<1>11. todo \in Seq(TeamSet)
  BY DEF Init
<1>12. /\ restricted = {} /\ pc = "wait" /\ me = {} /\ again = FALSE /\ manager = FALSE
       /\ hidden = {} /\ upto = 0 /\ won = {} /\ kick = TRUE /\ state = "idle" /\ ident = {}
       /\ leaving = 0 /\ events = 0
  BY DEF Init
<1>13. grant \in [TeamSet -> {"none", "read", "write"}] /\ 0 \in 0..Teams
  BY <1>3, <1>8
<1> QED BY <1>3, <1>4, <1>5, <1>6, <1>7, <1>8, <1>10, <1>11, <1>12, <1>13 DEF TypeOK

\* Applying records to the device's keeps the types.
LEMMA CopyType ==
  ASSUME NEW c \in Nat, NEW rec \in [stamp : 0..c, seq : Nat, exec : BOOLEAN]
  PROVE  /\ Copy(rec) \in [stamp : 0..c, team : BOOLEAN, on : BOOLEAN]
         /\ Copy(rec).stamp = rec.stamp /\ Copy(rec).team
BY DEF Copy

\* Every step keeps the types.
LEMMA TypeStep == ASSUME TypeOK, Stations, [Next]_vars PROVE TypeOK'
<1> DEFINE Rec(c) == [stamp : 0..c, seq : Nat, exec : BOOLEAN]
           Row(c) == [stamp : 0..c, team : BOOLEAN, on : BOOLEAN]
<1>0. Absent \in Rec(clk) /\ clk \in Nat /\ Teams \in Nat /\ \A r \in Records : TeamOf[r] \in TeamSet
  BY CycleConstants DEF TypeOK, Absent, TeamSet
<1>n. NoPage \in [Records -> Rec(clk)] /\ NoBatch \in [Records -> 0..clk]
  BY <1>0 DEF NoPage, NoBatch
<1>t. todo # << >> => Team \in TeamSet /\ Tail(todo) \in Seq(TeamSet)
  BY DEF TypeOK, Team
<1>1. CASE UNCHANGED vars
  BY <1>1 DEF vars, TypeOK, server, store, engine, status
<1>2. CASE Wake \/ StartCycle \/ Finish \/ BackoffOver
  BY <1>2 DEF Wake, StartCycle, Finish, BackoffOver, TypeOK, server, store, status
<1>3. CASE AskMe
  <2>1. me' \subseteq TeamSet
    BY <1>3 DEF AskMe, Listed
  <2> QED BY <1>3, <2>1, ListedInOrder DEF AskMe, TypeOK, server, store, status
<1>4. CASE Fetch
  <2>1. page' \in [Records -> Rec(clk)]
    BY <1>4, <1>0 DEF Fetch, TypeOK
  <2>2. upto' \in Nat /\ manager' \in BOOLEAN
    BY <1>4, <1>t DEF Fetch, TypeOK
  <2> QED BY <1>4, <2>1, <2>2 DEF Fetch, TypeOK, server, store, status
<1>5. CASE Filter
  <2>1. hidden' \subseteq Records
    BY <1>5, CycleConstants DEF Filter
  <2> QED BY <1>5, <2>1 DEF Filter, TypeOK, server, store, status
<1>6. CASE ApplyPage /\ todo # << >>
  <2>1. row' \in [Records -> Row(clk)] /\ pushed' \in [Records -> 0..clk]
    <3>1. \A r \in Records : page[r] \in Rec(clk) /\ row[r] \in Row(clk) /\ pushed[r] \in 0..clk
      BY DEF TypeOK
    <3>2. \A r \in Records : Copy(page[r]) \in Row(clk) /\ page[r].stamp \in 0..clk
      BY <3>1, <1>0, CopyType
    <3> QED BY <1>6, <3>1, <3>2 DEF ApplyPage, Apply
  <2>2. cursor' \in [TeamSet -> Nat]
    BY <1>6, <1>t DEF ApplyPage, StoreCursor, TypeOK
  <2>3. withheld' \in [Records -> Nat]
    BY <1>6 DEF ApplyPage, TypeOK
  <2>4. todo' \in Seq(TeamSet) /\ again' \in BOOLEAN /\ pc' \in {"pull", "push"}
    BY <1>6, <1>t DEF ApplyPage, TypeOK
  <2> QED BY <1>6, <1>n, <2>1, <2>2, <2>3, <2>4 DEF ApplyPage, TypeOK, server, status
<1>7. CASE Collect
  <2>1. batch' \in [Records -> 0..clk]
    <3>1. \A r \in Records : row[r].stamp \in 0..clk /\ 0 \in 0..clk
      BY <1>0 DEF TypeOK
    <3>2. \/ batch' = batch
          \/ batch' = [r \in Records |-> IF r \in Dirty(Team) THEN row[r].stamp ELSE 0]
      BY <1>7 DEF Collect
    <3> QED BY <3>1, <3>2 DEF TypeOK
  <2>2. pc' \in {"pull", "sent"} /\ again' \in BOOLEAN
    BY <1>7 DEF Collect, TypeOK
  <2> QED BY <1>7, <2>1, <2>2 DEF Collect, TypeOK, server, store, status
<1>8. CASE Merge /\ todo # << >>
  <2>1. won' \in SUBSET Records
    BY <1>8 DEF Merge, Accepted
  <2>2. top[Team] \in Nat
    BY <1>8, <1>t DEF TypeOK
  <2>3. Cardinality(won') \in Nat /\ \A r \in won' : Number(won', r) \in Nat
    BY <2>1, <2>2, NumbersAreNew
  <2>4. srv' \in [Records -> Rec(clk)]
    <3>1. \A r \in Records : batch[r] \in 0..clk /\ srv[r] \in Rec(clk)
      BY DEF TypeOK
    <3> QED BY <1>8, <2>3, <3>1 DEF Merge
  <2>5. ack' \in [Records -> Rec(clk)]
    BY <1>8, <1>0 DEF Merge, TypeOK
  <2>6. top' \in [TeamSet -> Nat]
    BY <1>8, <1>t, <2>3 DEF Merge, TypeOK
  <2> QED BY <1>8, <2>1, <2>4, <2>5, <2>6 DEF Merge, TypeOK, store, status
<1>9. CASE HandleAck
  <2>1. row' \in [Records -> Row(clk)] /\ pushed' \in [Records -> 0..clk]
    <3>1. \A r \in Records : /\ ack[r] \in Rec(clk) /\ row[r] \in Row(clk)
                             /\ pushed[r] \in 0..clk /\ batch[r] \in 0..clk
      BY DEF TypeOK
    <3>2. \A r \in Records : Copy(ack[r]) \in Row(clk) /\ ack[r].stamp \in 0..clk
      BY <3>1, <1>0, CopyType
    <3> QED BY <1>9, <3>1, <3>2 DEF HandleAck
  <2> QED BY <1>9, <1>n, <2>1 DEF HandleAck, TypeOK, server, status
<1>10. CASE Refused \/ Lose \/ Unauthorized \/ Rebuild
  <2>1. Rest
    BY <1>10 DEF Refused, Lose, Unauthorized, Rebuild, CycleFails
  <2>2. todo' \in Seq(TeamSet)
    BY <2>1 DEF Rest
  <2>3. /\ UNCHANGED <<server, clk, store, leaving, withheld>>
        /\ pc' \in {"wait", "backoff"} /\ state' \in {"error", "signedOut", "idle"}
        /\ kick' \in BOOLEAN /\ ident' \subseteq TeamSet
    BY <1>10 DEF Refused, Lose, Unauthorized, Rebuild, CycleFails, TypeOK
  <2>4. events' \in Nat
    BY <1>10 DEF Refused, Lose, Unauthorized, Rebuild, CycleFails, Event, TypeOK
  <2> QED BY <1>n, <2>1, <2>2, <2>3, <2>4 DEF Rest, TypeOK, server, store
<1>w. /\ clk + 1 \in Nat
      /\ srv \in [Records -> Rec(clk + 1)] /\ row \in [Records -> Row(clk + 1)]
      /\ pushed \in [Records -> 0..clk + 1] /\ batch \in [Records -> 0..clk + 1]
      /\ page \in [Records -> Rec(clk + 1)] /\ ack \in [Records -> Rec(clk + 1)]
  <2>1. 0..clk \subseteq 0..clk + 1
    BY <1>0
  <2>2. Rec(clk) \subseteq Rec(clk + 1) /\ Row(clk) \subseteq Row(clk + 1)
    BY <2>1
  <2>3. /\ srv \in [Records -> Rec(clk)] /\ row \in [Records -> Row(clk)]
        /\ pushed \in [Records -> 0..clk] /\ batch \in [Records -> 0..clk]
        /\ page \in [Records -> Rec(clk)] /\ ack \in [Records -> Rec(clk)]
    BY DEF TypeOK
  <2> HIDE DEF Rec, Row
  <2> QED BY <1>0, <2>1, <2>2, <2>3
<1>11. ASSUME NEW r \in Records, NEW on \in BOOLEAN, Edit(r, on) PROVE TypeOK'
  <2>1. row' \in [Records -> Row(clk + 1)]
    <3>1. [stamp |-> clk + 1, team |-> row[r].stamp = 0 \/ row[r].team, on |-> on] \in Row(clk + 1)
      BY <1>0 DEF TypeOK
    <3> QED BY <1>11, <1>w, <3>1 DEF Edit
  <2>2. clk' = clk + 1 /\ events' \in Nat
    BY <1>11 DEF Edit, Tick, Event, TypeOK
  <2> QED BY <1>11, <1>w, <2>1, <2>2 DEF Edit, TypeOK, server, engine, status
<1>12. ASSUME NEW r \in Records, Teammate(r) PROVE TypeOK'
  <2>0. TeamOf[r] \in TeamSet /\ top[TeamOf[r]] + 1 \in Nat
    BY <1>0 DEF TypeOK
  <2>1. srv' \in [Records -> Rec(clk + 1)]
    <3>1. [stamp |-> clk + 1, seq |-> top[TeamOf[r]] + 1, exec |-> FALSE] \in Rec(clk + 1)
      BY <1>0, <2>0
    <3> QED BY <1>12, <1>w, <3>1 DEF Teammate
  <2>2. clk' = clk + 1 /\ events' \in Nat
    BY <1>12 DEF Teammate, Tick, Event, TypeOK
  <2>3. top' \in [TeamSet -> Nat]
    BY <1>12, <2>0 DEF Teammate, TypeOK
  <2> QED BY <1>12, <1>w, <2>1, <2>2, <2>3 DEF Teammate, TypeOK, store, engine, status
<1>13. CASE Unshare
  <2> DEFINE mine == {r \in Kept \cap Of(leaving) : row[r].team}
  <2>0. leaving' = 0
    BY <1>13 DEF Unshare
  <2>1. leaving' \in 0..Teams
    BY <2>0, <1>0
  <2>2. CASE mine = {}
    <3>1. UNCHANGED <<row, clk, kick>>
      BY <1>13, <2>2 DEF Unshare
    <3> QED BY <1>13, <2>1, <3>1 DEF Unshare, TypeOK, server, engine, status
  <2>3. CASE mine # {}
    <3>1. /\ clk' = clk + 1 /\ kick' = TRUE
          /\ row' = [r \in Records |->
                       IF r \in mine THEN [row[r] EXCEPT !.stamp = clk + 1, !.team = FALSE] ELSE row[r]]
      BY <1>13, <2>3 DEF Unshare
    <3>2. row' \in [Records -> Row(clk + 1)]
      <4>1. \A r \in Records : row[r] \in Row(clk + 1) /\ clk + 1 \in 0..clk + 1
        BY <1>0, <1>w
      <4>2. \A r \in Records : [row[r] EXCEPT !.stamp = clk + 1, !.team = FALSE] \in Row(clk + 1)
        BY <4>1
      <4> HIDE DEF mine, Row
      <4> QED BY <3>1, <4>1, <4>2
    <3> QED BY <1>13, <1>w, <2>1, <3>1, <3>2 DEF Unshare, TypeOK, server, engine, status
  <2> QED BY <2>2, <2>3
<1>14. ASSUME NEW t \in TeamSet, Leave(t) \/ Join(t) PROVE TypeOK'
  <2>1. Listed \subseteq TeamSet
    BY DEF Listed
  <2>2. standing' \in [TeamSet -> {"out", "archived", "reader", "writer", "manager"}] /\ events' \in Nat
    <3>1. \E v \in {"out", "writer"} : standing' = [standing EXCEPT ![t] = v]
      BY <1>14 DEF Leave, Join
    <3>2. events' \in Nat
      BY <1>14 DEF Leave, Join, Event, TypeOK
    <3> QED BY <3>1, <3>2 DEF TypeOK
  <2>3. ident' \subseteq TeamSet /\ kick' \in BOOLEAN
    BY <1>14, <2>1 DEF Leave, Join, TypeOK
  <2>4. t \in 0..Teams
    BY <1>0 DEF TeamSet
  <2>5. leaving' \in 0..Teams
    BY <1>14, <2>4 DEF Leave, Join, TypeOK
  <2> QED BY <1>14, <2>2, <2>3, <2>5 DEF Leave, Join, TypeOK, store, engine
<1>15. ASSUME NEW t \in TeamSet, SetRestricted(t) PROVE TypeOK'
  <2>1. restricted' \subseteq TeamSet
    BY <1>15 DEF SetRestricted, TypeOK
  <2>2. events' \in Nat
    BY <1>15 DEF SetRestricted, Event, TypeOK
  <2> QED BY <1>15, <2>1, <2>2 DEF SetRestricted, TypeOK, store, engine, status
<1>18. ASSUME NEW t \in TeamSet, NEW g \in {"none", "read", "write"}, SetGrant(t, g) PROVE TypeOK'
  <2>1. grant' \in [TeamSet -> {"none", "read", "write"}] /\ events' \in Nat
    BY <1>18 DEF SetGrant, Event, TypeOK
  <2> QED BY <1>18, <2>1 DEF SetGrant, TypeOK, store, engine, status
<1>16. ASSUME NEW t \in TeamSet, NEW s \in {"archived", "reader", "writer", "manager"}, SetStanding(t, s)
       PROVE  TypeOK'
  <2>1. standing' \in [TeamSet -> {"out", "archived", "reader", "writer", "manager"}] /\ events' \in Nat
    BY <1>16 DEF SetStanding, Event, TypeOK
  <2> QED BY <1>16, <2>1 DEF SetStanding, TypeOK, store, engine, status
<1>17. (ApplyPage \/ Merge) => todo # << >>
  BY DEF Stations, ApplyPage, Merge
<1> QED BY <1>1, <1>2, <1>3, <1>4, <1>5, <1>6, <1>7, <1>8, <1>9, <1>10, <1>11, <1>12, <1>13, <1>14,
           <1>15, <1>16, <1>17, <1>18 DEF Next, Loop, Others

-----------------------------------------------------------------------------
(***************************************************************************)
(* What a step does to the copies.                                         *)
(***************************************************************************)
\* Steps by what they do to the loop.
LEMMA StepKinds ==
  ASSUME TypeOK, Stations, [Next]_vars
  PROVE  \/ AskMe \/ Fetch \/ Filter \/ ApplyPage \/ Collect \/ Merge \/ HandleAck
         \/ Unshare \/ (\E r \in Records, on \in BOOLEAN : Edit(r, on))
         \/ (\E r \in Records : Teammate(r)) \/ Drops \/ Stays
<1>1. UNCHANGED vars => Stays
  BY DEF vars, Stays, server, store, engine, status
<1>2. (Wake \/ StartCycle \/ Finish \/ BackoffOver) => Stays
  BY DEF Wake, StartCycle, Finish, BackoffOver, Stays, Stations, server, store, status
<1>3. (Refused \/ Lose \/ Unauthorized \/ Rebuild) => Drops
  BY DEF Refused, Lose, Unauthorized, Rebuild, CycleFails, Drops, server, store
<1>4. ASSUME NEW t \in TeamSet
      PROVE  /\ (SetRestricted(t) \/ Leave(t) \/ Join(t)) => Stays
             /\ \A u \in {"archived", "reader", "writer", "manager"} : SetStanding(t, u) => Stays
             /\ \A g \in {"none", "read", "write"} : SetGrant(t, g) => Stays
  BY DEF SetRestricted, SetStanding, SetGrant, Leave, Join, Stays, store, engine, status
<1> QED BY <1>1, <1>2, <1>3, <1>4 DEF Next, Loop, Others

\* The server's copy is replaced by a newer one only, under a number that is new to the feed.
LEMMA ServerGrows ==
  ASSUME TypeOK, Stations, Copies, [Next]_vars
  PROVE  /\ \A r \in Records :
              \/ srv'[r] = srv[r]
              \/ /\ srv'[r].stamp > srv[r].stamp
                 /\ srv'[r].seq > top[TeamOf[r]] /\ srv'[r].seq <= top'[TeamOf[r]]
         /\ \A t \in TeamSet : top'[t] >= top[t]
         /\ \A q, r \in Records :
              (srv'[q] # srv[q] /\ srv'[r] # srv[r] /\ srv'[q].seq = srv'[r].seq) => q = r
<1>t. /\ \A r \in Records : /\ srv[r].stamp \in Nat /\ srv[r].seq \in Nat /\ TeamOf[r] \in TeamSet
                            /\ batch[r] \in Nat /\ srv[r].stamp <= clk
      /\ \A t \in TeamSet : top[t] \in Nat
      /\ clk \in Nat
  <2>1. \A r \in Records : TeamOf[r] \in TeamSet
    BY CycleConstants DEF TeamSet
  <2>2. /\ srv \in [Records -> [stamp : 0..clk, seq : Nat, exec : BOOLEAN]]
        /\ batch \in [Records -> 0..clk] /\ clk \in Nat /\ top \in [TeamSet -> Nat]
    BY DEF TypeOK
  <2>3. \A r \in Records : srv[r].stamp \in 0..clk /\ srv[r].seq \in Nat /\ batch[r] \in 0..clk
    BY <2>2
  <2> QED BY <2>1, <2>2, <2>3
<1>1. CASE Merge
  <2>0. todo # << >> /\ Team \in TeamSet
    BY <1>1 DEF Merge, Stations, TypeOK, Team
  <2>1. won' \in SUBSET Records /\ won' = Accepted(Team) /\ top[Team] \in Nat
    BY <1>1, <2>0, <1>t DEF Merge, Accepted
  <2>2. /\ Cardinality(won') \in Nat
        /\ \A r \in won' : /\ Number(won', r) \in Nat
                           /\ top[Team] < Number(won', r)
                           /\ Number(won', r) <= top[Team] + Cardinality(won')
        /\ \A q, r \in won' : Number(won', q) = Number(won', r) => q = r
    BY <2>1, NumbersAreNew
  <2>3. \A r \in won' : batch[r] > srv[r].stamp /\ TeamOf[r] = Team
    BY <2>1, <1>t DEF Accepted, Copies
  <2>4. \A r \in Records :
          IF r \in won' THEN srv'[r].stamp = batch[r] /\ srv'[r].seq = Number(won', r) ELSE srv'[r] = srv[r]
    BY <1>1 DEF Merge
  <2>5. top' = [top EXCEPT ![Team] = @ + Cardinality(won')]
    BY <1>1 DEF Merge
  <2>6. \A t \in TeamSet : top'[t] = IF t = Team THEN top[t] + Cardinality(won') ELSE top[t]
    BY <2>5 DEF TypeOK
  <2>7. ASSUME NEW r \in Records
        PROVE  \/ srv'[r] = srv[r]
               \/ /\ srv'[r].stamp > srv[r].stamp
                  /\ srv'[r].seq > top[TeamOf[r]] /\ srv'[r].seq <= top'[TeamOf[r]]
    <3>1. CASE r \in won'
      <4>1. srv'[r].stamp = batch[r] /\ srv'[r].seq = Number(won', r)
        BY <3>1, <2>4
      <4>2. top'[TeamOf[r]] = top[Team] + Cardinality(won') /\ top[TeamOf[r]] = top[Team]
        BY <3>1, <2>0, <2>3, <2>6
      <4> QED BY <3>1, <4>1, <4>2, <2>1, <2>2, <2>3, <1>t
    <3>2. CASE r \notin won'
      BY <3>2, <2>4
    <3> QED BY <3>1, <3>2
  <2>8. \A t \in TeamSet : top'[t] >= top[t]
    BY <2>2, <2>6, <1>t
  <2>9. ASSUME NEW q \in Records, NEW r \in Records,
               srv'[q] # srv[q], srv'[r] # srv[r], srv'[q].seq = srv'[r].seq
        PROVE  q = r
    BY <2>9, <2>2, <2>4
  <2> QED BY <2>7, <2>8, <2>9
<1>2. ASSUME NEW p \in Records, Teammate(p)
      PROVE  /\ \A r \in Records :
                  \/ srv'[r] = srv[r]
                  \/ /\ srv'[r].stamp > srv[r].stamp
                     /\ srv'[r].seq > top[TeamOf[r]] /\ srv'[r].seq <= top'[TeamOf[r]]
             /\ \A t \in TeamSet : top'[t] >= top[t]
             /\ \A q, r \in Records :
                  (srv'[q] # srv[q] /\ srv'[r] # srv[r] /\ srv'[q].seq = srv'[r].seq) => q = r
  <2>1. \A r \in Records : IF r = p THEN srv'[r].stamp = clk + 1 /\ srv'[r].seq = top[TeamOf[p]] + 1
                                    ELSE srv'[r] = srv[r]
    BY <1>2 DEF Teammate, TypeOK
  <2>2. \A t \in TeamSet : top'[t] = IF t = TeamOf[p] THEN top[t] + 1 ELSE top[t]
    BY <1>2 DEF Teammate, TypeOK
  <2> QED BY <2>1, <2>2, <1>t
<1>3. CASE srv' = srv /\ top' = top
  BY <1>3, <1>t
<1>4. ~Merge /\ (\A p \in Records : ~Teammate(p)) => srv' = srv /\ top' = top
  BY StepKinds DEF AskMe, Fetch, Filter, ApplyPage, Collect, HandleAck, Unshare, Edit, Drops, Stays, server
<1> QED BY <1>1, <1>2, <1>3, <1>4

\* The device's copy is replaced by a newer one only, whether the user edits or a page or an
\* answer is applied.
LEMMA DeviceGrows ==
  ASSUME TypeOK, Stations, [Next]_vars
  PROVE  \A r \in Records : row'[r] = row[r] \/ row'[r].stamp > row[r].stamp
<1>t. clk \in Nat /\ \A r \in Records : row[r].stamp \in Nat /\ row[r].stamp <= clk
  BY DEF TypeOK
<1>1. CASE ApplyPage
  <2>1. \A r \in Records : row'[r] = row[r] \/ (page[r].stamp > row[r].stamp /\ row'[r] = Copy(page[r]))
    BY <1>1 DEF ApplyPage, Apply
  <2>2. \A r \in Records : Copy(page[r]).stamp = page[r].stamp
    BY DEF Copy
  <2> QED BY <2>1, <2>2
<1>2. CASE HandleAck
  <2>1. \A r \in Records : row'[r] = row[r] \/ (ack[r].stamp > row[r].stamp /\ row'[r] = Copy(ack[r]))
    BY <1>2 DEF HandleAck
  <2>2. \A r \in Records : Copy(ack[r]).stamp = ack[r].stamp
    BY DEF Copy
  <2> QED BY <2>1, <2>2
<1>3. CASE Unshare
  <2> DEFINE new(r) == [row[r] EXCEPT !.stamp = clk + 1, !.team = FALSE]
  <2>1. \A r \in Records : row'[r] = row[r] \/ row'[r] = new(r)
    BY <1>3 DEF Unshare
  <2>2. \A r \in Records : new(r).stamp = clk + 1
    BY DEF TypeOK
  <2> HIDE DEF new
  <2> QED BY <2>1, <2>2, <1>t
<1>4. ASSUME NEW p \in Records, NEW on \in BOOLEAN, Edit(p, on)
      PROVE  \A r \in Records : row'[r] = row[r] \/ row'[r].stamp > row[r].stamp
  <2>1. \A r \in Records : row'[r] = row[r] \/ row'[r].stamp = clk + 1
    BY <1>4 DEF Edit, TypeOK
  <2> QED BY <2>1, <1>t
<1>5. ~ApplyPage /\ ~HandleAck /\ ~Unshare /\ (\A p \in Records, on \in BOOLEAN : ~Edit(p, on)) => row' = row
  BY StepKinds DEF AskMe, Fetch, Filter, Collect, Merge, Teammate, Drops, Stays, store
<1> QED BY <1>1, <1>2, <1>3, <1>4, <1>5

-----------------------------------------------------------------------------
(***************************************************************************)
(* The other parts of the invariant, step by step.                         *)
(***************************************************************************)
\* The loop holds a page, a batch or an answer only where it is about to use it.
LEMMA StationsStep == ASSUME TypeOK, Stations, [Next]_vars PROVE Stations'
<1>1. CASE AskMe
  BY <1>1 DEF AskMe, Stations
<1>2. CASE Fetch
  BY <1>2 DEF Fetch, Stations
<1>3. CASE Filter
  BY <1>3 DEF Filter, Stations
<1>4. CASE ApplyPage
  BY <1>4 DEF ApplyPage, Stations
<1>5. CASE Collect
  <2>1. /\ pc = "push" /\ UNCHANGED <<todo, page, won, ack>>
        /\ (pc' = "pull" /\ batch' = batch) \/ pc' = "sent"
    BY <1>5 DEF Collect
  <2>2. todo # << >> /\ page = NoPage /\ won = {} /\ ack = NoPage /\ batch = NoBatch
    BY <2>1 DEF Stations
  <2>3. todo' # << >> /\ page' = NoPage' /\ won' = {} /\ ack' = NoPage'
    BY <2>1, <2>2 DEF NoPage
  <2>4. CASE pc' = "pull" /\ batch' = batch
    BY <2>2, <2>3, <2>4 DEF Stations, NoBatch
  <2>5. CASE pc' = "sent"
    BY <2>3, <2>5 DEF Stations
  <2> QED BY <2>1, <2>4, <2>5
<1>6. CASE Merge
  BY <1>6 DEF Merge, Stations
<1>7. CASE HandleAck
  BY <1>7 DEF HandleAck, Stations
<1>8. CASE Unshare \/ (\E r \in Records, on \in BOOLEAN : Edit(r, on)) \/ (\E r \in Records : Teammate(r))
  <2>1. UNCHANGED engine
    BY <1>8 DEF Unshare, Edit, Teammate
  <2> QED BY <2>1 DEF Stations, engine
<1>9. CASE Drops
  BY <1>9 DEF Drops, Rest, Stations
<1>10. CASE Stays
  <2>1. UNCHANGED <<todo, again, page, batch, won, ack>>
    BY <1>10 DEF Stays
  <2>2. CASE pc' = pc
    BY <2>1, <2>2 DEF Stations
  <2>3. CASE pc' \in {"wait", "debounce"} /\ pc \in {"wait", "pull", "backoff"} /\ todo = << >>
    BY <2>1, <2>3 DEF Stations
  <2>4. CASE pc = "debounce" /\ pc' = "me"
    BY <2>1, <2>4 DEF Stations
  <2> QED BY <1>10, <2>2, <2>3, <2>4 DEF Stays
<1> QED BY <1>1, <1>2, <1>3, <1>4, <1>5, <1>6, <1>7, <1>8, <1>9, <1>10, StepKinds

\* The cursor stays within the feed, and the feed's numbers are distinct.
LEMMA FeedStep == ASSUME TypeOK, Stations, Feed, Copies, Ahead, [Next]_vars PROVE Feed'
<1>t. /\ \A r \in Records : srv[r].seq \in Nat /\ TeamOf[r] \in TeamSet /\ srv'[r].seq \in Nat
      /\ \A t \in TeamSet : top[t] \in Nat /\ top'[t] \in Nat /\ cursor[t] \in Nat
  BY TypeStep, CycleConstants DEF TypeOK, TeamSet
<1>g. /\ \A r \in Records :
           \/ srv'[r] = srv[r]
           \/ srv'[r].seq > top[TeamOf[r]] /\ srv'[r].seq <= top'[TeamOf[r]]
      /\ \A t \in TeamSet : top'[t] >= top[t]
      /\ \A q, r \in Records :
           (srv'[q] # srv[q] /\ srv'[r] # srv[r] /\ srv'[q].seq = srv'[r].seq) => q = r
  BY ServerGrows
<1>1. ASSUME NEW r \in Records PROVE srv'[r].seq <= top'[TeamOf[r]]
  BY <1>t, <1>g DEF Feed
<1>2. ASSUME NEW t \in TeamSet PROVE cursor'[t] <= top'[t]
  <2>1. cursor'[t] = cursor[t] \/ (ApplyPage /\ t = Team /\ cursor'[t] = upto)
    <3>1. CASE ApplyPage
      <4>1. cursor' = [cursor EXCEPT ![Team] = upto]
        BY <3>1 DEF ApplyPage, StoreCursor
      <4> QED BY <3>1, <4>1 DEF TypeOK
    <3>2. CASE cursor' = cursor
      BY <3>2
    <3>3. ~ApplyPage => cursor' = cursor
      BY StepKinds DEF AskMe, Fetch, Filter, Collect, Merge, HandleAck, Unshare, Edit, Teammate, Drops,
                       Stays, store
    <3> QED BY <3>1, <3>2, <3>3
  <2>2. ApplyPage => upto <= top[Team] /\ upto \in Nat
    BY DEF ApplyPage, Ahead, TypeOK
  <2>3. cursor[t] <= top[t]
    BY DEF Feed
  <2> QED BY <1>t, <1>g, <2>1, <2>2, <2>3
<1>3. ASSUME NEW q \in Records, NEW r \in Records,
             srv'[q].seq > 0, TeamOf[q] = TeamOf[r], srv'[q].seq = srv'[r].seq
      PROVE  q = r
  <2>1. CASE srv'[q] = srv[q] /\ srv'[r] = srv[r]
    BY <1>3, <2>1 DEF Feed
  <2>2. CASE srv'[q] # srv[q] /\ srv'[r] = srv[r]
    <3>1. srv[r].seq <= top[TeamOf[r]] /\ srv'[q].seq > top[TeamOf[r]]
      BY <1>3, <1>g, <2>2 DEF Feed
    <3>2. srv[r].seq \in Nat /\ srv'[q].seq \in Nat /\ top[TeamOf[r]] \in Nat /\ srv[r].seq = srv'[q].seq
      BY <1>t, <1>3, <2>2
    <3> QED BY <3>1, <3>2
  <2>3. CASE srv'[q] = srv[q] /\ srv'[r] # srv[r]
    <3>1. srv[q].seq <= top[TeamOf[r]] /\ srv'[r].seq > top[TeamOf[r]]
      BY <1>3, <1>g, <2>3 DEF Feed
    <3>2. srv[q].seq \in Nat /\ srv'[r].seq \in Nat /\ top[TeamOf[r]] \in Nat /\ srv[q].seq = srv'[r].seq
      BY <1>t, <1>3, <2>3
    <3> QED BY <3>1, <3>2
  <2>4. CASE srv'[q] # srv[q] /\ srv'[r] # srv[r]
    BY <1>3, <1>g, <2>4
  <2> QED BY <2>1, <2>2, <2>3, <2>4
<1> QED BY <1>1, <1>2, <1>3 DEF Feed

\* No copy that travels is newer than the one it was taken from, and what the loop holds
\* belongs to the team that it is at.
LEMMA CopiesStep == ASSUME TypeOK, Stations, Copies, [Next]_vars PROVE Copies'
<1> DEFINE Old(r) == /\ pushed[r] <= row[r].stamp /\ pushed[r] <= srv[r].stamp
                     /\ page[r].stamp <= srv[r].stamp /\ ack[r].stamp <= srv[r].stamp
                     /\ batch[r] <= row[r].stamp
                     /\ r \in won => batch[r] <= srv[r].stamp
                     /\ (page[r].stamp > 0 \/ batch[r] > 0) => TeamOf[r] = Team
           Nats(r) == /\ row[r].stamp \in Nat /\ srv[r].stamp \in Nat /\ page[r].stamp \in Nat
                      /\ ack[r].stamp \in Nat /\ batch[r] \in Nat /\ pushed[r] \in Nat
<1>o. \A r \in Records : Old(r)
  BY DEF Copies
<1>t. \A r \in Records : Nats(r)
  <2>1. /\ srv \in [Records -> [stamp : 0..clk, seq : Nat, exec : BOOLEAN]]
        /\ page \in [Records -> [stamp : 0..clk, seq : Nat, exec : BOOLEAN]]
        /\ ack \in [Records -> [stamp : 0..clk, seq : Nat, exec : BOOLEAN]]
        /\ row \in [Records -> [stamp : 0..clk, team : BOOLEAN, on : BOOLEAN]]
        /\ batch \in [Records -> 0..clk] /\ pushed \in [Records -> 0..clk] /\ clk \in Nat
    BY DEF TypeOK
  <2>2. \A r \in Records : /\ srv[r].stamp \in 0..clk /\ page[r].stamp \in 0..clk /\ ack[r].stamp \in 0..clk
                           /\ row[r].stamp \in 0..clk /\ batch[r] \in 0..clk /\ pushed[r] \in 0..clk
    BY <2>1
  <2> QED BY <2>1, <2>2
<1>u. \A r \in Records : (Nats(r))'
  <2>1. /\ srv' \in [Records -> [stamp : 0..clk', seq : Nat, exec : BOOLEAN]]
        /\ page' \in [Records -> [stamp : 0..clk', seq : Nat, exec : BOOLEAN]]
        /\ ack' \in [Records -> [stamp : 0..clk', seq : Nat, exec : BOOLEAN]]
        /\ row' \in [Records -> [stamp : 0..clk', team : BOOLEAN, on : BOOLEAN]]
        /\ batch' \in [Records -> 0..clk'] /\ pushed' \in [Records -> 0..clk'] /\ clk' \in Nat
    BY TypeStep DEF TypeOK
  <2>2. \A r \in Records : /\ srv'[r].stamp \in 0..clk' /\ page'[r].stamp \in 0..clk'
                           /\ ack'[r].stamp \in 0..clk' /\ row'[r].stamp \in 0..clk'
                           /\ batch'[r] \in 0..clk' /\ pushed'[r] \in 0..clk'
    BY <2>1
  <2> QED BY <2>1, <2>2
<1>g. \A r \in Records : srv'[r].stamp >= srv[r].stamp /\ row'[r].stamp >= row[r].stamp
  <2> TAKE r \in Records
  <2>1. srv'[r] = srv[r] \/ srv'[r].stamp > srv[r].stamp
    BY ServerGrows
  <2>2. row'[r] = row[r] \/ row'[r].stamp > row[r].stamp
    BY DeviceGrows
  <2> QED BY <1>t, <1>u, <2>1, <2>2
<1> SUFFICES ASSUME NEW r \in Records PROVE (Old(r))'
  BY DEF Copies
<1>c. Old(r) /\ Nats(r) /\ (Nats(r))' /\ srv'[r].stamp >= srv[r].stamp /\ row'[r].stamp >= row[r].stamp
  BY <1>o, <1>t, <1>u, <1>g
<1>z. NoPage[r].stamp = 0 /\ NoBatch[r] = 0 /\ Absent.stamp = 0
  BY DEF NoPage, NoBatch, Absent
\* Steps that leave alone what the loop holds
<1>1. CASE UNCHANGED <<pushed, page, ack, batch, won, todo>>
  BY <1>1, <1>c DEF Team
<1>2. CASE Drops
  <2>1. pushed' = pushed /\ page' = NoPage /\ ack' = NoPage /\ batch' = NoBatch /\ won' = {}
    BY <1>2 DEF Drops, Rest, store
  <2> QED BY <2>1, <1>c, <1>z
<1>3. CASE AskMe
  <2>1. UNCHANGED <<pushed, page, ack, batch, won>> /\ page = NoPage /\ batch = NoBatch
    BY <1>3 DEF AskMe, Stations, store
  <2> QED BY <2>1, <1>c, <1>z
<1>4. CASE Fetch
  <2>1. /\ UNCHANGED <<pushed, ack, batch, won, todo, srv>>
        /\ page'[r] = IF TeamOf[r] = Team /\ srv[r].seq > cursor[Team] THEN srv[r] ELSE Absent
    BY <1>4 DEF Fetch, store, server
  <2> QED BY <2>1, <1>c, <1>z DEF Team
<1>5. CASE ApplyPage
  <2>1. UNCHANGED <<ack, batch, won, srv>> /\ batch = NoBatch /\ page' = NoPage
    BY <1>5 DEF ApplyPage, Stations, server
  <2>2. \/ pushed'[r] = pushed[r]
        \/ pushed'[r] = page[r].stamp /\ row'[r] = Copy(page[r])
    BY <1>5 DEF ApplyPage, Apply
  <2>3. Copy(page[r]).stamp = page[r].stamp
    BY DEF Copy
  <2> QED BY <2>1, <2>2, <2>3, <1>c, <1>z
<1>6. CASE Collect
  <2>1. UNCHANGED <<pushed, page, ack, won, todo, row, srv>> /\ won = {} /\ page = NoPage
    BY <1>6 DEF Collect, Stations, store, server
  <2>2. \/ batch'[r] = batch[r]
        \/ batch'[r] = IF r \in Dirty(Team) THEN row[r].stamp ELSE 0
    BY <1>6 DEF Collect
  <2>3. r \in Dirty(Team) => TeamOf[r] = Team
    BY DEF Dirty, Of
  <2> QED BY <2>1, <2>2, <2>3, <1>c, <1>z DEF Team
<1>7. CASE Merge
  <2>1. UNCHANGED <<pushed, page, batch, todo>>
    BY <1>7 DEF Merge, store
  <2>2. /\ r \in won' => srv'[r].stamp = batch[r]
        /\ r \notin won' => srv'[r] = srv[r]
        /\ ack'[r] = IF batch[r] > 0 /\ r \notin won' THEN srv[r] ELSE Absent
    BY <1>7 DEF Merge
  <2> QED BY <2>1, <2>2, <1>c, <1>z DEF Team
<1>8. CASE HandleAck
  <2>1. /\ UNCHANGED <<page, todo, srv>> /\ batch' = NoBatch /\ won' = {} /\ ack' = NoPage
        /\ page = NoPage
    BY <1>8 DEF HandleAck, Stations, server
  <2>2. \/ pushed'[r] = ack[r].stamp /\ row'[r] = Copy(ack[r])
        \/ pushed'[r] = batch[r] /\ r \in won
        \/ pushed'[r] = pushed[r]
    BY <1>8 DEF HandleAck
  <2>3. Copy(ack[r]).stamp = ack[r].stamp
    BY DEF Copy
  <2> QED BY <2>1, <2>2, <2>3, <1>c, <1>z
<1>9. Filter \/ Unshare \/ (\E q \in Records, on \in BOOLEAN : Edit(q, on)) \/ (\E q \in Records : Teammate(q))
        \/ Stays
      => UNCHANGED <<pushed, page, ack, batch, won, todo>>
  BY DEF Filter, Unshare, Edit, Teammate, Stays, store, engine
<1> QED BY <1>1, <1>2, <1>3, <1>4, <1>5, <1>6, <1>7, <1>8, <1>9, StepKinds

\* A page that is on its way holds what the feed has between the cursor and the page's end,
\* or something newer has taken its place there.
LEMMA AheadStep == ASSUME TypeOK, Stations, Feed, Copies, Ahead, [Next]_vars PROVE Ahead'
<1>t. /\ \A r \in Records : /\ srv[r].seq \in Nat /\ TeamOf[r] \in TeamSet /\ srv'[r].seq \in Nat
                            /\ page[r].seq \in Nat
      /\ \A t \in TeamSet : top[t] \in Nat /\ top'[t] \in Nat /\ cursor[t] \in Nat
      /\ upto \in Nat
  BY TypeStep, CycleConstants DEF TypeOK, TeamSet
<1>g. /\ \A r \in Records : srv'[r] = srv[r] \/ srv'[r].seq > top[TeamOf[r]]
      /\ \A t \in TeamSet : top'[t] >= top[t]
  BY ServerGrows
<1>h. pc \in {"pull", "filter", "apply"} /\ todo # << >> => Team \in TeamSet
  BY DEF TypeOK, Team
<1>f. \A r \in Records : srv[r].seq <= top[TeamOf[r]]
  BY DEF Feed
<1>1. CASE Fetch
  <2>1. /\ UNCHANGED <<cursor, todo, srv, top>> /\ todo # << >> /\ pc' = "filter"
        /\ upto' = (IF top[Team] > cursor[Team] THEN top[Team] ELSE cursor[Team])
        /\ \A r \in Records :
             page'[r] = IF TeamOf[r] = Team /\ srv[r].seq > cursor[Team] THEN srv[r] ELSE Absent
    BY <1>1 DEF Fetch, store, server
  <2>2. Team \in TeamSet /\ Team' = Team /\ cursor[Team] <= top[Team]
    BY <1>1, <1>h, <2>1 DEF Fetch, Feed, Team
  <2>3. upto' <= top'[Team']
    BY <1>t, <2>1, <2>2
  <2>4. ASSUME NEW r \in (Of(Team))', cursor'[Team'] < srv'[r].seq PROVE page'[r] = srv'[r]
    BY <1>t, <2>1, <2>2, <2>4 DEF Of
  <2>5. ASSUME NEW r \in Records, page'[r].stamp > 0
        PROVE  cursor'[Team'] < page'[r].seq /\ page'[r].seq <= srv'[r].seq
    BY <1>t, <2>1, <2>2, <2>5 DEF Absent
  <2> QED BY <2>1, <2>3, <2>4, <2>5 DEF Ahead
<1>2. CASE Filter
  <2>1. /\ UNCHANGED <<cursor, todo, srv, top, page, upto>> /\ pc = "filter" /\ pc' = "apply"
        /\ \A r \in hidden' : page[r].stamp > 0
    BY <1>2 DEF Filter, store, server
  <2>2. Team' = Team /\ (Of(Team))' = Of(Team)
    BY <2>1 DEF Team, Of
  <2> QED BY <2>1, <2>2 DEF Ahead
<1>3. CASE UNCHANGED <<cursor, todo, page, upto, hidden>> /\ pc' = pc /\ pc \in {"filter", "apply"}
  <2>0. todo # << >>
    BY <1>3 DEF Stations
  <2>1. Team' = Team /\ (Of(Team))' = Of(Team) /\ Team \in TeamSet
    BY <1>3, <1>h, <2>0 DEF Team, Of
  <2>2. upto <= top[Team] /\ upto' <= top'[Team']
    BY <1>3, <1>t, <1>g, <2>1 DEF Ahead
  <2>3. ASSUME NEW r \in Of(Team), cursor[Team] < srv'[r].seq, srv'[r].seq <= upto PROVE page[r] = srv'[r]
    <3>1. r \in Records /\ TeamOf[r] = Team
      BY DEF Of
    <3>2. srv'[r] = srv[r]
      BY <1>t, <1>g, <2>1, <2>2, <2>3, <3>1
    <3> QED BY <1>3, <2>3, <3>1, <3>2 DEF Ahead
  <2>4. ASSUME NEW r \in Records, page[r].stamp > 0
        PROVE  cursor[Team] < page[r].seq /\ page[r].seq <= srv'[r].seq
    <3>1. cursor[Team] < page[r].seq /\ page[r].seq <= srv[r].seq
      BY <1>3, <2>4 DEF Ahead
    <3>2. srv[r].seq <= srv'[r].seq
      BY <1>t, <1>g, <1>f
    <3> QED BY <1>t, <3>1, <3>2
  <2> QED BY <1>3, <2>1, <2>2, <2>3, <2>4 DEF Ahead
<1>4. CASE pc' \notin {"filter", "apply"}
  BY <1>4 DEF Ahead
<1>5. AskMe \/ ApplyPage \/ Collect \/ Merge \/ HandleAck \/ Drops => pc' \notin {"filter", "apply"}
  BY DEF AskMe, ApplyPage, Collect, Merge, HandleAck, Drops
<1>6. Unshare \/ (\E r \in Records, on \in BOOLEAN : Edit(r, on)) \/ (\E r \in Records : Teammate(r)) \/ Stays
        => \/ pc' \notin {"filter", "apply"}
           \/ UNCHANGED <<cursor, todo, page, upto, hidden>> /\ pc' = pc /\ pc \in {"filter", "apply"}
  BY DEF Unshare, Edit, Teammate, Stays, store, engine
<1> QED BY <1>1, <1>2, <1>3, <1>4, <1>5, <1>6, StepKinds

\* Nothing that the cursor has passed goes missing.
LEMMA CoversStep ==
  ASSUME TypeOK, Stations, Feed, Copies, Ahead, CursorCovers, [Next]_vars PROVE CursorCovers'
<1>t. /\ \A r \in Records : /\ srv[r].seq \in Nat /\ TeamOf[r] \in TeamSet /\ srv'[r].seq \in Nat
                            /\ page[r].seq \in Nat /\ page[r].stamp \in Nat
                            /\ row[r].stamp \in Nat /\ row'[r].stamp \in Nat /\ srv[r].stamp \in Nat
      /\ \A t \in TeamSet : top[t] \in Nat /\ cursor[t] \in Nat
      /\ upto \in Nat
  <2>1. /\ srv \in [Records -> [stamp : 0..clk, seq : Nat, exec : BOOLEAN]]
        /\ page \in [Records -> [stamp : 0..clk, seq : Nat, exec : BOOLEAN]]
        /\ row \in [Records -> [stamp : 0..clk, team : BOOLEAN, on : BOOLEAN]] /\ clk \in Nat
        /\ top \in [TeamSet -> Nat] /\ cursor \in [TeamSet -> Nat] /\ upto \in Nat
    BY DEF TypeOK
  <2>2. /\ srv' \in [Records -> [stamp : 0..clk', seq : Nat, exec : BOOLEAN]]
        /\ row' \in [Records -> [stamp : 0..clk', team : BOOLEAN, on : BOOLEAN]] /\ clk' \in Nat
    BY TypeStep DEF TypeOK
  <2>3. \A r \in Records : TeamOf[r] \in TeamSet
    BY CycleConstants DEF TeamSet
  <2>4. \A r \in Records : /\ srv[r].seq \in Nat /\ page[r].seq \in Nat /\ page[r].stamp \in 0..clk
                           /\ row[r].stamp \in 0..clk /\ srv[r].stamp \in 0..clk
    BY <2>1
  <2>5. \A r \in Records : srv'[r].seq \in Nat /\ row'[r].stamp \in 0..clk'
    BY <2>2
  <2> QED BY <2>1, <2>2, <2>3, <2>4, <2>5
<1> SUFFICES ASSUME NEW r \in Records, 0 < srv'[r].seq, srv'[r].seq <= cursor'[TeamOf[r]]
             PROVE  row'[r].stamp >= srv'[r].stamp \/ withheld'[r] = srv'[r].seq
  BY DEF CursorCovers
<1>r. row'[r].stamp >= row[r].stamp
  <2>1. row'[r] = row[r] \/ row'[r].stamp > row[r].stamp
    BY DeviceGrows
  <2> QED BY <1>t, <2>1
<1>s. srv'[r] = srv[r] \/ srv'[r].seq > top[TeamOf[r]]
  BY ServerGrows
<1>c. cursor[TeamOf[r]] <= top[TeamOf[r]]
  BY <1>t DEF Feed
<1>1. CASE ApplyPage
  <2>0. /\ pc = "apply" /\ srv' = srv /\ cursor' = [cursor EXCEPT ![Team] = upto]
        /\ withheld'[r] = (IF r \in hidden THEN page[r].seq ELSE withheld[r])
        /\ \/ r \in hidden
           \/ page[r].stamp > row[r].stamp /\ row'[r] = Copy(page[r])
           \/ ~(page[r].stamp > row[r].stamp) /\ row'[r] = row[r]
    BY <1>1 DEF ApplyPage, Apply, StoreCursor, server
  <2>1. row'[r].stamp >= page[r].stamp \/ r \in hidden
    <3>1. Copy(page[r]).stamp = page[r].stamp
      BY DEF Copy
    <3> QED BY <2>0, <3>1, <1>t
  <2>2. CASE srv[r].seq <= cursor[TeamOf[r]]
    <3>1. row[r].stamp >= srv[r].stamp \/ withheld[r] = srv[r].seq
      BY <2>0, <2>2 DEF CursorCovers
    <3>2. r \notin hidden \/ row[r].stamp >= srv[r].stamp
      <4>1. ASSUME r \in hidden PROVE FALSE
        <5>1. page[r].stamp > 0 /\ cursor[Team] < page[r].seq /\ page[r].seq <= srv[r].seq
          BY <2>0, <4>1 DEF Ahead
        <5>2. TeamOf[r] = Team
          BY <5>1 DEF Copies
        <5> QED BY <1>t, <2>2, <5>1, <5>2
      <4> QED BY <4>1
    <3> QED BY <1>t, <1>r, <2>0, <3>1, <3>2
  <2>3. CASE ~(srv[r].seq <= cursor[TeamOf[r]])
    <3>1. TeamOf[r] = Team /\ cursor'[TeamOf[r]] = upto
      BY <1>t, <2>0, <2>3 DEF TypeOK
    <3>2. page[r] = srv[r]
      BY <1>t, <2>0, <2>3, <3>1 DEF Ahead, Of
    <3> QED BY <2>0, <2>1, <3>2
  <2> QED BY <2>2, <2>3
<1>2. CASE cursor' = cursor /\ withheld' = withheld
  <2>1. srv'[r] = srv[r]
    BY <1>2, <1>s, <1>c, <1>t
  <2>2. row[r].stamp >= srv[r].stamp \/ withheld[r] = srv[r].seq
    BY <1>2, <2>1 DEF CursorCovers
  <2> QED BY <1>2, <1>t, <1>r, <2>1, <2>2
<1>3. ~ApplyPage => cursor' = cursor /\ withheld' = withheld
  BY StepKinds DEF AskMe, Fetch, Filter, Collect, Merge, HandleAck, Unshare, Edit, Teammate, Drops, Stays,
                   store
<1> QED BY <1>1, <1>2, <1>3

\* Unless a kick is queued, the loop's owner has sent what is shared with the teams that the
\* cycle has done with.
LEMMA OwesStep == ASSUME TypeOK, Stations, Feed, Copies, Ahead, Owes, [Next]_vars PROVE Owes'
<1>t. \A r \in Records : /\ row[r].stamp \in Nat /\ srv[r].stamp \in Nat /\ srv'[r].stamp \in Nat
                         /\ pushed[r] \in Nat /\ batch[r] \in Nat /\ page[r].stamp \in Nat
                         /\ ack[r].stamp \in Nat
  <2>1. /\ srv \in [Records -> [stamp : 0..clk, seq : Nat, exec : BOOLEAN]]
        /\ page \in [Records -> [stamp : 0..clk, seq : Nat, exec : BOOLEAN]]
        /\ ack \in [Records -> [stamp : 0..clk, seq : Nat, exec : BOOLEAN]]
        /\ row \in [Records -> [stamp : 0..clk, team : BOOLEAN, on : BOOLEAN]] /\ clk \in Nat
        /\ pushed \in [Records -> 0..clk] /\ batch \in [Records -> 0..clk]
    BY DEF TypeOK
  <2>2. srv' \in [Records -> [stamp : 0..clk', seq : Nat, exec : BOOLEAN]] /\ clk' \in Nat
    BY TypeStep DEF TypeOK
  <2>3. \A r \in Records : /\ srv[r].stamp \in 0..clk /\ page[r].stamp \in 0..clk /\ ack[r].stamp \in 0..clk
                           /\ row[r].stamp \in 0..clk /\ pushed[r] \in 0..clk /\ batch[r] \in 0..clk
                           /\ srv'[r].stamp \in 0..clk'
    BY <2>1, <2>2
  <2> QED BY <2>1, <2>2, <2>3
<1>s. \A r \in Records : srv'[r].stamp >= srv[r].stamp
  <2> TAKE r \in Records
  <2>1. srv'[r] = srv[r] \/ srv'[r].stamp > srv[r].stamp
    BY ServerGrows
  <2> QED BY <1>t, <2>1
<1>k. todo' = todo => Team' = Team /\ Left' = Left
  BY DEF Team, Left
\* What stays on the device stays sent, and so does what is replaced by the server's copy.
<1>p. ASSUME NEW r \in Records, Sent(r), row'[r] = row[r] PROVE (Sent(r))'
  BY <1>t, <1>s, <1>p DEF Sent
<1>1. CASE AskMe
  <2>1. pc' = "pull" /\ again' = FALSE /\ me' = Listed /\ Left' = Listed
    BY <1>1, ListedInOrder DEF AskMe, Left
  <2> QED BY <2>1 DEF Owes, Settled
<1>2. CASE Drops
  BY <1>2 DEF Drops, Rest, Owes
<1>3. CASE Stays
  <2>1. UNCHANGED <<srv, row, batch, todo, me, again>>
    BY <1>3 DEF Stays, store
  <2>2. Team' = Team /\ Left' = Left
    BY <1>k, <2>1
  <2>3. CASE pc' = pc /\ (kick' = kick \/ kick')
    BY <2>1, <2>2, <2>3 DEF Owes, Settled, Sent, Of
  <2>4. CASE pc' \in {"wait", "debounce"} /\ pc \in {"wait", "pull", "backoff"} /\ kick' = kick
    BY <2>1, <2>2, <2>4 DEF Owes, Settled, Sent, Of
  <2>5. CASE pc' = "me"
    BY <2>5 DEF Owes
  <2> QED BY <1>3, <2>3, <2>4, <2>5 DEF Stays
<1>4. CASE Fetch \/ Filter
  <2>1. UNCHANGED <<row, todo, me, again, kick>> /\ pc \in {"pull", "filter"} /\ pc' \in {"filter", "apply"}
    BY <1>4 DEF Fetch, Filter, store
  <2>2. \A t : (Settled(t))' => Settled(t)
    BY <1>k, <2>1 DEF Settled
  <2> QED BY <1>p, <2>1, <2>2 DEF Owes
<1>5. CASE ApplyPage
  <2>1. /\ UNCHANGED <<me, kick, srv>> /\ pc = "apply" /\ pc' \in {"push", "pull"} /\ todo # << >>
        /\ \/ todo' = todo /\ again' = again
           \/ again /\ todo' = Tail(todo) /\ again' = FALSE
    BY <1>5 DEF ApplyPage, Stations, server
  <2>2. \A t : (Settled(t))' => Settled(t)
    <3>1. CASE todo' = todo /\ again' = again
      BY <1>k, <2>1, <3>1 DEF Settled
    <3>2. CASE again /\ todo' = Tail(todo) /\ again' = FALSE
      <4>1. todo \in Seq(TeamSet) /\ Len(todo) \in Nat /\ Len(todo) > 0
        BY <2>1 DEF TypeOK
      <4>2. ASSUME NEW i \in DOMAIN todo PROVE todo[i] = Team \/ todo[i] \in Left'
        <5>1. i \in 1..Len(todo)
          BY <4>1
        <5>2. i = 1 \/ (i - 1 \in 1..Len(todo) - 1 /\ todo[i] = Tail(todo)[i - 1])
          BY <4>1, <5>1
        <5>3. DOMAIN Tail(todo) = 1..Len(todo) - 1
          BY <4>1
        <5> QED BY <3>2, <5>2, <5>3 DEF Team, Left
      <4>3. ASSUME NEW t, t \notin Left' PROVE t \notin Left \/ t = Team
        BY <4>2, <4>3 DEF Left
      <4> QED BY <2>1, <3>2, <4>3 DEF Settled
    <3> QED BY <2>1, <3>1, <3>2
  <2>3. ASSUME NEW r \in Records, Sent(r) PROVE (Sent(r))'
    <3>1. row'[r] = row[r] \/ row'[r] = Copy(page[r])
      BY <1>5 DEF ApplyPage, Apply
    <3>2. Copy(page[r]).stamp = page[r].stamp /\ page[r].stamp <= srv[r].stamp
      BY DEF Copy, Copies
    <3> QED BY <1>t, <2>1, <2>3, <3>1, <3>2 DEF Sent
  <2> QED BY <2>1, <2>2, <2>3 DEF Owes
<1>6. CASE Collect
  <2>1. /\ UNCHANGED <<me, kick, srv, row, todo>> /\ pc = "push" /\ todo # << >>
        /\ \/ pc' = "pull" /\ again' = TRUE /\ Dirty(Team) = {}
           \/ /\ pc' = "sent" /\ again' = again
              /\ batch' = [r \in Records |-> IF r \in Dirty(Team) THEN row[r].stamp ELSE 0]
    BY <1>6 DEF Collect, Stations, server, store
  <2>2. Team' = Team /\ Left' = Left /\ (Of(Team))' = Of(Team)
    BY <1>k, <2>1 DEF Of
  <2>3. ASSUME NEW r \in Of(Team), r \notin Dirty(Team) PROVE Sent(r)
    <3>1. r \in Records /\ (row[r].team => ~(row[r].stamp > pushed[r]))
      BY <2>3 DEF Dirty, Of
    <3>2. pushed[r] <= srv[r].stamp
      BY <3>1 DEF Copies
    <3> QED BY <1>t, <3>1, <3>2 DEF Sent
  <2>4. \A r \in Records : (Sent(r))' <=> Sent(r)
    BY <2>1 DEF Sent
  <2>5. CASE pc' = "pull" /\ again' = TRUE /\ Dirty(Team) = {}
    <3>1. ASSUME NEW r \in Records, (Settled(TeamOf[r]))', ~Settled(TeamOf[r]) PROVE Sent(r)
      BY <2>2, <2>3, <2>5, <3>1 DEF Settled, Of
    <3> QED BY <2>1, <2>4, <2>5, <3>1 DEF Owes
  <2>6. CASE /\ pc' = "sent" /\ again' = again
             /\ batch' = [r \in Records |-> IF r \in Dirty(Team) THEN row[r].stamp ELSE 0]
    <3>1. \A t : (Settled(t))' => Settled(t)
      BY <2>1, <2>2, <2>6 DEF Settled
    <3>2. ASSUME NEW r \in Of(Team) PROVE Sent(r) \/ batch'[r] = row'[r].stamp
      BY <2>1, <2>3, <2>6 DEF Of
    <3>3. Of(Team) \subseteq Records
      BY DEF Of
    <3> QED BY <2>1, <2>2, <2>4, <2>6, <3>1, <3>2, <3>3 DEF Owes
  <2> QED BY <2>1, <2>5, <2>6
<1>7. CASE Merge
  <2>1. /\ UNCHANGED <<me, kick, row, todo, again, batch>> /\ pc = "sent" /\ pc' = "ack" /\ todo # << >>
        /\ \A r \in Records : r \in Accepted(Team) => srv'[r].stamp = batch[r]
    BY <1>7 DEF Merge, Stations, store
  <2>2. Team' = Team /\ Left' = Left
    BY <1>k, <2>1
  <2>3. ASSUME NEW r \in Of(Team) \ Theirs, ~kick PROVE (Sent(r))'
    <3>0. r \in Records
      BY DEF Of
    <3>1. CASE Sent(r)
      BY <1>p, <2>1, <3>0, <3>1
    <3>2. CASE batch[r] = row[r].stamp
      <4>1. batch[r] <= srv'[r].stamp
        BY <1>t, <1>s, <2>1, <2>3, <3>0 DEF Accepted
      <4> QED BY <1>t, <2>1, <3>0, <3>2, <4>1 DEF Sent
    <3> QED BY <2>1, <2>3, <3>1, <3>2 DEF Owes
  <2>4. ASSUME NEW r \in Records \ Theirs, ~kick, TeamOf[r] \in me, (Settled(TeamOf[r]))'
        PROVE  (Sent(r))'
    <3>1. CASE TeamOf[r] = Team
      BY <2>3, <2>4, <3>1 DEF Of
    <3>2. CASE TeamOf[r] # Team
      <4>1. Settled(TeamOf[r])
        BY <2>2, <2>4, <3>2 DEF Settled
      <4>2. Sent(r)
        BY <2>1, <2>4, <4>1 DEF Owes
      <4> QED BY <1>p, <2>1, <4>2
    <3> QED BY <3>1, <3>2
  <2> QED BY <2>1, <2>4 DEF Owes
<1>8. CASE HandleAck
  <2>1. /\ UNCHANGED <<me, kick, srv, todo>> /\ pc = "ack" /\ pc' = "pull" /\ todo # << >>
    BY <1>8 DEF HandleAck, Stations, server
  <2>2. \A t : (Settled(t))' => Settled(t)
    BY <1>k, <2>1 DEF Settled
  <2>3. ASSUME NEW r \in Records, Sent(r) PROVE (Sent(r))'
    <3>1. row'[r] = row[r] \/ row'[r] = Copy(ack[r])
      BY <1>8 DEF HandleAck
    <3>2. Copy(ack[r]).stamp = ack[r].stamp /\ ack[r].stamp <= srv[r].stamp
      BY DEF Copy, Copies
    <3> QED BY <1>t, <2>1, <2>3, <3>1, <3>2 DEF Sent
  <2> QED BY <2>1, <2>2, <2>3 DEF Owes
<1>9. CASE kick'
  BY <1>9 DEF Owes
<1>10. CASE UNCHANGED <<row, engine, kick>>
  <2>1. UNCHANGED <<row, todo, me, again, kick, pc, batch>>
    BY <1>10 DEF engine
  <2>2. Team' = Team /\ Left' = Left /\ (Of(Team))' = Of(Team) /\ Of(Team) \subseteq Records
    BY <1>k, <2>1 DEF Of
  <2>3. \A t : (Settled(t))' => Settled(t)
    BY <2>1, <2>2 DEF Settled
  <2> QED BY <1>p, <2>1, <2>2, <2>3 DEF Owes
<1>11. Unshare \/ (\E r \in Records, on \in BOOLEAN : Edit(r, on)) \/ (\E r \in Records : Teammate(r))
         => kick' \/ UNCHANGED <<row, engine, kick>>
  BY DEF Unshare, Edit, Teammate, store
<1> QED BY <1>1, <1>2, <1>3, <1>4, <1>5, <1>6, <1>7, <1>8, <1>9, <1>10, <1>11, StepKinds

-----------------------------------------------------------------------------
(***************************************************************************)
(* The theorems.                                                           *)
(***************************************************************************)
\* The invariant holds at the start: the records of others have distinct numbers, and the
\* cursors are at 0.
LEMMA IndInit == Init => Ind
<1> SUFFICES ASSUME Init PROVE Ind
  OBVIOUS
<1>1. TypeOK
  BY TypeInit
<1>2. ASSUME NEW t \in TeamSet
      PROVE  /\ Cardinality(Of(t) \cap Theirs) \in Nat
             /\ \A r \in Of(t) \cap Theirs : Rank(Of(t) \cap Theirs, r) \in 1..Cardinality(Of(t) \cap Theirs)
             /\ \A q, r \in Of(t) \cap Theirs :
                  q < r => Rank(Of(t) \cap Theirs, q) < Rank(Of(t) \cap Theirs, r)
  <2>1. Of(t) \cap Theirs \in SUBSET Records
    BY DEF Of
  <2>2. Of(t) \cap Theirs \in SUBSET Nat /\ IsFiniteSet(Of(t) \cap Theirs)
    BY <2>1, CycleConstants, FS_Subset
  <2> QED BY <2>2, RankFits
<1> DEFINE theirs(t) == Of(t) \cap Theirs
           rec(r) == [stamp |-> 1, seq |-> Rank(theirs(TeamOf[r]), r), exec |-> TRUE]
<1>s. \A r \in Records : /\ srv[r].seq = (IF r \in Theirs THEN Rank(theirs(TeamOf[r]), r) ELSE 0)
                          /\ srv[r].stamp \in Nat
  <2>1. srv = [r \in Records |-> IF r \in Theirs THEN rec(r) ELSE Absent]
    BY DEF Init
  <2>2. \A r \in Records : rec(r).seq = Rank(theirs(TeamOf[r]), r) /\ rec(r).stamp = 1
    OBVIOUS
  <2>3. Absent.seq = 0 /\ Absent.stamp = 0
    BY DEF Absent
  <2> HIDE DEF rec
  <2>4. \A r \in Records : srv[r] = IF r \in Theirs THEN rec(r) ELSE Absent
    BY <2>1
  <2> QED BY <2>2, <2>3, <2>4
<1>u. /\ \A t \in TeamSet : top[t] = Cardinality(Of(t) \cap Theirs)
      /\ \A t \in TeamSet : cursor[t] = 0
  BY DEF Init
<1>3. \A r \in Records : TeamOf[r] \in TeamSet
  BY CycleConstants DEF TeamSet
<1>4. Stations
  BY DEF Init, Stations
<1>5. Feed
  <2>1. ASSUME NEW r \in Records PROVE srv[r].seq <= top[TeamOf[r]]
    <3>1. TeamOf[r] \in TeamSet /\ (r \in Theirs => r \in Of(TeamOf[r]) \cap Theirs)
      BY <1>3 DEF Of
    <3>2. top[TeamOf[r]] = Cardinality(Of(TeamOf[r]) \cap Theirs) /\ top[TeamOf[r]] \in Nat
      BY <1>2, <1>u, <3>1
    <3>3. srv[r].seq = IF r \in Theirs THEN Rank(Of(TeamOf[r]) \cap Theirs, r) ELSE 0
      BY <1>s
    <3>4. r \in Theirs => Rank(Of(TeamOf[r]) \cap Theirs, r) \in 1..Cardinality(Of(TeamOf[r]) \cap Theirs)
      BY <1>2, <3>1
    <3> QED BY <3>2, <3>3, <3>4
  <2>2. \A t \in TeamSet : cursor[t] <= top[t]
    <3> TAKE t \in TeamSet
    <3>1. cursor[t] = 0 /\ top[t] \in Nat
      BY <1>2, <1>u
    <3> QED BY <3>1
  <2>3. ASSUME NEW q \in Records, NEW r \in Records,
               srv[q].seq > 0, TeamOf[q] = TeamOf[r], srv[q].seq = srv[r].seq
        PROVE  q = r
    <3>0. /\ q \notin Theirs => srv[q].seq = 0
          /\ r \notin Theirs => srv[r].seq = 0
      BY <1>s
    <3>1. q \in Theirs /\ r \in Theirs
      BY <3>0, <2>3
    <3> DEFINE S == Of(TeamOf[q]) \cap Theirs
    <3>2. q \in S /\ r \in S /\ TeamOf[q] \in TeamSet
      BY <1>3, <2>3, <3>1 DEF Of
    <3>3. srv[q].seq = Rank(S, q) /\ srv[r].seq = Rank(S, r)
      BY <1>s, <2>3, <3>1
    <3>7. srv[q].seq = srv[r].seq
      BY <2>3
    <3>4. Rank(S, q) \in Nat /\ Rank(S, r) \in Nat /\ (q < r => Rank(S, q) < Rank(S, r))
            /\ (r < q => Rank(S, r) < Rank(S, q))
      BY <1>2, <3>2
    <3>5. q \in Nat /\ r \in Nat
      BY CycleConstants
    <3>6. q = r \/ q < r \/ r < q
      BY <3>5
    <3> HIDE DEF S
    <3> QED BY <3>3, <3>4, <3>6, <3>7
  <2> QED BY <2>1, <2>2, <2>3 DEF Feed
<1>6. Copies
  <2>1. ASSUME NEW r \in Records
        PROVE  /\ pushed[r] = 0 /\ batch[r] = 0 /\ page[r].stamp = 0 /\ ack[r].stamp = 0 /\ row[r].stamp = 0
               /\ srv[r].stamp \in Nat
    <3>1. srv[r].stamp \in Nat
      BY <1>s
    <3> QED BY <3>1 DEF Init, NoPage, NoBatch, Absent
  <2>2. won = {}
    BY DEF Init
  <2> QED BY <2>1, <2>2 DEF Copies
<1>7. Ahead
  BY DEF Init, Ahead
<1>8. CursorCovers
  <2> SUFFICES ASSUME NEW r \in Records, 0 < srv[r].seq, srv[r].seq <= cursor[TeamOf[r]] PROVE FALSE
    BY DEF CursorCovers
  <2>1. srv[r].seq \in Nat /\ cursor[TeamOf[r]] = 0
    BY <1>1, <1>3, <1>u DEF TypeOK
  <2> QED BY <2>1
<1>9. Owes
  BY DEF Init, Owes
<1> QED BY <1>1, <1>4, <1>5, <1>6, <1>7, <1>8, <1>9 DEF Ind

\* Every step keeps the invariant.
LEMMA IndStep == Ind /\ [Next]_vars => Ind'
BY TypeStep, StationsStep, FeedStep, CopiesStep, AheadStep, CoversStep, OwesStep DEF Ind

\* The invariant holds throughout.
LEMMA IndInvariant == Spec => []Ind
BY IndInit, IndStep, PTL DEF Spec

\* Whatever is edited, refused, lost or rebuilt between two steps of the loop: what it holds
\* belongs to the team that it is at, no device acknowledges more than it has, and no two
\* records of a feed have one number.
THEOREM CycleSound == Spec => []Sound
<1>1. Ind => Sound
  BY DEF Ind, Sound, Stations, Feed, Copies
<1> QED BY <1>1, IndInvariant, PTL

\* Whatever cycle is cut short, whichever team is left and joined again, whatever is
\* restricted and granted again: nothing that the cursor has passed goes missing, but for
\* what the server has withheld and nobody has edited since.
THEOREM CursorCoversFeed == Spec => []CursorCovers
<1>1. Ind => CursorCovers
  BY DEF Ind
<1> QED BY <1>1, IndInvariant, PTL

\* An idle device with no kick queued has sent what it shares with the teams of its cycle.
THEOREM IdleIsSent == Spec => []IdleMeansSent
<1>1. Ind => IdleMeansSent
  <2> SUFFICES ASSUME Ind, pc = "wait", ~kick, NEW r \in Records \ Theirs, TeamOf[r] \in me, row[r].team
               PROVE  srv[r].stamp >= row[r].stamp
    BY DEF IdleMeansSent
  <2>1. todo = << >>
    BY DEF Ind, Stations
  <2>2. TeamOf[r] \notin Left
    BY <2>1 DEF Left
  <2> QED BY <2>2 DEF Ind, Owes, Settled, Sent
<1> QED BY <1>1, IndInvariant, PTL

\* What is switched off on the device stays so, whatever is pulled again, until the user or a
\* newer record says otherwise.
THEOREM OffStaysOff == Spec => SwitchedOff
<1>1. Ind /\ [Next]_vars
        => [\A r \in Records : (row[r].stamp > 0 /\ ~row[r].on /\ row'[r].on) => row'[r].stamp > row[r].stamp]_vars
  BY DeviceGrows DEF Ind
<1> QED BY <1>1, IndInvariant, PTL DEF Spec, SwitchedOff
=============================================================================
