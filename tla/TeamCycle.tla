----------------------------- MODULE TeamCycle ------------------------------
(***************************************************************************)
(* The loop of one device's sync engine over all teams of its identity:    *)
(* it is kicked or woken by its interval, debounces, asks the server who   *)
(* it is and takes the teams one after the other, pulling, pushing and     *)
(* pulling again.  Meanwhile the user edits, joins and leaves teams,       *)
(* teammates push, and administrators change roles, archive teams and      *)
(* restrict folders.  The first answer that is not a success ends the      *)
(* cycle.  Pages, batches and clocks are TeamSync's subject: here a page   *)
(* and a batch hold everything, and a stamp is one number.                 *)
(***************************************************************************)
EXTENDS Integers, Sequences, FiniteSets

CONSTANTS
  Teams,      \* number of teams; they are served in the order of their names
  Records,    \* ids, as numbers
  TeamOf,     \* the team of a record
  Kept,       \* the records that lie in their team's folder, the folder included
  Theirs,     \* the records that somebody else owns
  MaxEvents   \* bound: edits, the user's and teammates'; acts of administrators, and of the
              \* user on memberships; answers that are lost, and rebuilds of the engine

ASSUME CycleConstants ==
  /\ Teams \in Nat /\ Records \subseteq Nat /\ IsFiniteSet(Records)
  /\ TeamOf \in [Records -> 1..Teams] /\ Kept \subseteq Records /\ Theirs \subseteq Records
  /\ MaxEvents \in Nat

VARIABLES
  standing,   \* standing[t]: the identity's role in t, "out" of it, or the team is "archived"
  restricted, \* the teams whose folder is restricted
  grant,      \* grant[t]: the identity's grant on that folder
  srv,        \* srv[r]: the server's copy, its number in the team's feed, whether executable
  top,        \* top[t]: the last number
  clk,        \* stamps given so far
  row,        \* row[r]: the device's copy, whether it is shared with the team and enabled
  pushed,     \* pushed[r]: the stamp acknowledged
  cursor,     \* cursor[t]
  pc, todo,   \* where the loop stands, and the teams that are left of the cycle
  me,         \* the teams that /v1/me has named to the cycle, or to the last one if it was good
  again,      \* whether this is the second pull of the team
  manager,    \* the role that the handler of the pull has read is Manager or more
  page, hidden, upto,   \* the page; what of it the filter has dropped; next_cursor
  batch, won, ack,      \* the stamps sent; what was accepted; the other outcomes' records
  kick,       \* a kick is queued
  state, ident,         \* SyncStatus: state and identity
  leaving,    \* the team whose local folder is still to be un-shared, or 0
  withheld,   \* withheld[r]: the number under which r was dropped from a page
  events      \* events so far
server == <<standing, restricted, grant, srv, top>>
store == <<row, pushed, cursor>>
engine == <<pc, todo, me, again, manager, page, hidden, upto, batch, won, ack>>
status == <<state, ident>>
vars == <<server, clk, store, engine, kick, status, leaving, withheld, events>>

TeamSet == 1..Teams
Of(t) == {r \in Records : TeamOf[r] = t}
Absent == [stamp |-> 0, seq |-> 0, exec |-> FALSE]
NoPage == [r \in Records |-> Absent]
NoBatch == [r \in Records |-> 0]
Rank(S, r) == Cardinality({q \in S : q <= r})

\* The server starts with the records that others made, when it still let executable
\* content in; the device starts empty.
Init ==
  /\ \E role \in {"writer", "manager"} : standing = [t \in TeamSet |-> role]
  /\ restricted = {}
  /\ grant = [t \in TeamSet |-> "none"]
  /\ srv = [r \in Records |->
              IF r \in Theirs
              THEN [stamp |-> 1, seq |-> Rank(Of(TeamOf[r]) \cap Theirs, r), exec |-> TRUE] ELSE Absent]
  /\ top = [t \in TeamSet |-> Cardinality(Of(t) \cap Theirs)] /\ clk = 1
  /\ row = [r \in Records |-> [stamp |-> 0, team |-> FALSE, on |-> FALSE]]
  /\ pushed = NoBatch /\ cursor = [t \in TeamSet |-> 0]
  /\ pc = "wait" /\ todo = << >> /\ me = {} /\ again = FALSE /\ manager = FALSE
  /\ page = NoPage /\ hidden = {} /\ upto = 0 /\ batch = NoBatch /\ won = {} /\ ack = NoPage
  /\ kick = TRUE /\ state = "idle" /\ ident = {} /\ leaving = 0
  /\ withheld = NoBatch /\ events = 0

TypeOK ==
  /\ standing \in [TeamSet -> {"out", "archived", "reader", "writer", "manager"}]
  /\ restricted \subseteq TeamSet /\ grant \in [TeamSet -> {"none", "read", "write"}]
  /\ srv \in [Records -> [stamp : 0..clk, seq : Nat, exec : BOOLEAN]]
  /\ top \in [TeamSet -> Nat] /\ clk \in Nat
  /\ row \in [Records -> [stamp : 0..clk, team : BOOLEAN, on : BOOLEAN]]
  /\ pushed \in [Records -> 0..clk] /\ cursor \in [TeamSet -> Nat]
  /\ pc \in {"wait", "debounce", "me", "pull", "filter", "apply", "push", "sent", "ack", "backoff"}
  /\ todo \in Seq(TeamSet) /\ me \subseteq TeamSet /\ again \in BOOLEAN /\ manager \in BOOLEAN
  /\ page \in [Records -> [stamp : 0..clk, seq : Nat, exec : BOOLEAN]] /\ hidden \subseteq Records
  /\ upto \in Nat /\ batch \in [Records -> 0..clk]
  /\ won \subseteq Records /\ ack \in [Records -> [stamp : 0..clk, seq : Nat, exec : BOOLEAN]]
  /\ kick \in BOOLEAN /\ state \in {"idle", "syncing", "error", "signedOut"}
  /\ ident \subseteq TeamSet /\ leaving \in 0..Teams /\ withheld \in [Records -> Nat]
  /\ events \in Nat

-----------------------------------------------------------------------------
(***************************************************************************)
(* The server                                                              *)
(***************************************************************************)

\* The team that the cycle is at
Team == Head(todo)

Listed == {t \in TeamSet : standing[t] # "out"}
MayRead(t) == standing[t] \in {"reader", "writer", "manager"}

\* One record of a restricted folder is enough to refuse the batch.
Blocked(t) == /\ t \in restricted /\ standing[t] # "manager" /\ grant[t] # "write"
              /\ \E r \in Kept : batch[r] > 0
MayWrite(t) == standing[t] \in {"writer", "manager"} /\ ~Blocked(t)

\* The restricted folder's records leave the page after the feed was read.
Hides(t) == t \in restricted /\ ~manager /\ grant[t] = "none"

\* A record of somebody else is not a writer's to change; of the others the newer stamp wins.
Accepted(t) ==
  {r \in Records : /\ batch[r] > srv[r].stamp
                   /\ (srv[r].stamp > 0 /\ r \in Theirs) => standing[t] = "manager"}

\* The numbers that accepted records get
\* Mutant: all of a batch get the same.
NumberSame(S, r) == top[Team] + 1
Number(S, r) == top[Team] + Rank(S, r)

-----------------------------------------------------------------------------
(***************************************************************************)
(* The loop                                                                *)
(***************************************************************************)

\* A kick, or the interval
Wake ==
  /\ pc = "wait" /\ pc' = "debounce"
  /\ UNCHANGED <<server, clk, store, todo, me, again, manager, page, hidden, upto, batch, won, ack,
                 kick, status, leaving, withheld, events>>

\* The burst is over: the kicks that it queued are drained.
StartCycle ==
  /\ pc = "debounce" /\ pc' = "me" /\ kick' = FALSE /\ state' = "syncing"
  /\ UNCHANGED <<server, clk, store, todo, me, again, manager, page, hidden, upto, batch, won, ack,
                 ident, leaving, withheld, events>>

InOrder(S) == CHOOSE s \in [1..Cardinality(S) -> S] : \A i, j \in DOMAIN s : i < j => s[i] < s[j]

\* Mutant: the teams of the last good cycle are served, when there was one.
AskMeOnce ==
  /\ pc = "me" /\ pc' = "pull" /\ again' = FALSE
  /\ me' = (IF ident = {} THEN Listed ELSE ident) /\ todo' = InOrder(me')
  /\ UNCHANGED <<server, clk, store, manager, page, hidden, upto, batch, won, ack,
                 kick, status, leaving, withheld, events>>
AskMe ==
  /\ pc = "me" /\ pc' = "pull" /\ again' = FALSE
  /\ me' = Listed /\ todo' = InOrder(Listed)
  /\ UNCHANGED <<server, clk, store, manager, page, hidden, upto, batch, won, ack,
                 kick, status, leaving, withheld, events>>

\* Mutant: the kicks are drained when the cycle is over.
FinishDrains ==
  /\ pc = "pull" /\ todo = << >> /\ pc' = "wait" /\ kick' = FALSE
  /\ state' = "idle" /\ ident' = me
  /\ UNCHANGED <<server, clk, store, todo, me, again, manager, page, hidden, upto, batch, won, ack,
                 leaving, withheld, events>>
Finish ==
  /\ pc = "pull" /\ todo = << >> /\ pc' = "wait"
  /\ state' = "idle" /\ ident' = me
  /\ UNCHANGED <<server, clk, store, todo, me, again, manager, page, hidden, upto, batch, won, ack,
                 kick, leaving, withheld, events>>

\* The handler of the pull reads the role and the feed ...
Fetch ==
  /\ pc = "pull" /\ todo # << >> /\ MayRead(Team)
  /\ pc' = "filter" /\ manager' = (standing[Team] = "manager")
  /\ page' = [r \in Records |-> IF TeamOf[r] = Team /\ srv[r].seq > cursor[Team] THEN srv[r] ELSE Absent]
  /\ upto' = IF top[Team] > cursor[Team] THEN top[Team] ELSE cursor[Team]
  /\ UNCHANGED <<server, clk, store, todo, me, again, hidden, batch, won, ack,
                 kick, status, leaving, withheld, events>>

\* ... and then what is restricted, and what is granted.
Filter ==
  /\ pc = "filter" /\ pc' = "apply"
  /\ hidden' = IF Hides(Team) THEN {r \in Kept : page[r].stamp > 0} ELSE {}
  /\ UNCHANGED <<server, clk, store, todo, me, again, manager, page, upto, batch, won, ack,
                 kick, status, leaving, withheld, events>>

\* snippet_from_rec: what carries executable content arrives stripped and disabled.
Copy(rec) == [stamp |-> rec.stamp, team |-> TRUE, on |-> ~rec.exec]

\* apply_remote_snippet, for every record of `from' outside `but'
\* Mutant: a record that is as new as the device's is written too.
ApplyTies(from, but) ==
  LET news == {r \in Records \ but : from[r].stamp > 0 /\ from[r].stamp >= row[r].stamp}
  IN /\ row' = [r \in Records |-> IF r \in news THEN Copy(from[r]) ELSE row[r]]
     /\ pushed' = [r \in Records |-> IF r \in news THEN from[r].stamp ELSE pushed[r]]
Apply(from, but) ==
  LET news == {r \in Records \ but : from[r].stamp > row[r].stamp}
  IN /\ row' = [r \in Records |-> IF r \in news THEN Copy(from[r]) ELSE row[r]]
     /\ pushed' = [r \in Records |-> IF r \in news THEN from[r].stamp ELSE pushed[r]]

\* Mutant: the cursor is the feed's last number when the page is applied.
StoreCursorLatest == cursor' = [cursor EXCEPT ![Team] = top[Team]]
StoreCursor == cursor' = [cursor EXCEPT ![Team] = upto]

ApplyPage ==
  /\ pc = "apply"
  /\ Apply(page, hidden) /\ StoreCursor
  /\ withheld' = [r \in Records |-> IF r \in hidden THEN page[r].seq ELSE withheld[r]]
  /\ IF again THEN pc' = "pull" /\ todo' = Tail(todo) /\ again' = FALSE
              ELSE pc' = "push" /\ UNCHANGED <<todo, again>>
  /\ page' = NoPage /\ hidden' = {} /\ upto' = 0 /\ manager' = FALSE
  /\ UNCHANGED <<server, clk, me, batch, won, ack, kick, status, leaving, events>>

Dirty(t) == {r \in Of(t) : row[r].team /\ row[r].stamp > pushed[r]}

Collect ==
  /\ pc = "push"
  /\ IF Dirty(Team) = {} THEN pc' = "pull" /\ again' = TRUE /\ UNCHANGED batch
     ELSE /\ pc' = "sent" /\ UNCHANGED again
          /\ batch' = [r \in Records |-> IF r \in Dirty(Team) THEN row[r].stamp ELSE 0]
  /\ UNCHANGED <<server, clk, store, todo, me, manager, page, hidden, upto, won, ack,
                 kick, status, leaving, withheld, events>>

\* The handler of the push
Merge ==
  /\ pc = "sent" /\ MayWrite(Team) /\ pc' = "ack"
  /\ won' = Accepted(Team)
  /\ srv' = [r \in Records |-> IF r \in won' THEN [stamp |-> batch[r], seq |-> Number(won', r), exec |-> FALSE]
                              ELSE srv[r]]
  /\ ack' = [r \in Records |-> IF batch[r] > 0 /\ r \notin won' THEN srv[r] ELSE Absent]
  /\ top' = [top EXCEPT ![Team] = @ + Cardinality(won')]
  /\ UNCHANGED <<standing, restricted, grant, clk, store, todo, me, again, manager, page, hidden,
                 upto, batch, kick, status, leaving, withheld, events>>

\* Accepted stamps are acknowledged, superseded records are replaced by the server's.
HandleAck ==
  /\ pc = "ack" /\ pc' = "pull" /\ again' = TRUE
  /\ LET news == {r \in Records : ack[r].stamp > row[r].stamp}
     IN /\ row' = [r \in Records |-> IF r \in news THEN Copy(ack[r]) ELSE row[r]]
        /\ pushed' = [r \in Records |-> IF r \in news THEN ack[r].stamp
                                        ELSE IF r \in won THEN batch[r] ELSE pushed[r]]
  /\ batch' = NoBatch /\ won' = {} /\ ack' = NoPage
  /\ UNCHANGED <<server, clk, cursor, todo, me, manager, page, hidden, upto,
                 kick, status, leaving, withheld, events>>

Rest == /\ todo' = << >> /\ again' = FALSE /\ manager' = FALSE /\ page' = NoPage
        /\ hidden' = {} /\ upto' = 0 /\ batch' = NoBatch /\ won' = {} /\ ack' = NoPage
        /\ me' = {}

CycleFails ==
  /\ Rest /\ pc' = "backoff" /\ state' = "error"
  /\ UNCHANGED <<server, clk, store, kick, ident, leaving, withheld>>

\* 403: the team is archived or left, the folder is not this identity's to write, or a
\* reader has something to push.
Refused ==
  /\ \/ pc = "pull" /\ todo # << >> /\ ~MayRead(Team)
     \/ pc = "sent" /\ ~MayWrite(Team)
  /\ CycleFails /\ UNCHANGED events

BackoffOver ==
  /\ pc = "backoff" /\ pc' = "wait"
  /\ UNCHANGED <<server, clk, store, todo, me, again, manager, page, hidden, upto, batch, won, ack,
                 kick, status, leaving, withheld, events>>

Loop == Wake \/ StartCycle \/ AskMe \/ Finish \/ Fetch \/ Filter \/ ApplyPage \/ Collect
        \/ Merge \/ HandleAck \/ Refused \/ BackoffOver

-----------------------------------------------------------------------------
(***************************************************************************)
(* Faults                                                                  *)
(***************************************************************************)

Event == events < MaxEvents /\ events' = events + 1

\* A request is lost, or its answer is.
Lose ==
  /\ Event /\ pc \in {"me", "pull", "filter", "apply", "sent", "ack"}
  /\ CycleFails

\* 401, or no usable credential
Unauthorized ==
  /\ Event /\ pc \in {"me", "pull", "sent"}
  /\ Rest /\ pc' = "wait" /\ state' = "signedOut" /\ ident' = {}
  /\ UNCHANGED <<server, clk, store, kick, leaving, withheld>>

\* The task is aborted and another engine starts, with a kick of its own.
Rebuild ==
  /\ Event /\ Rest /\ pc' = "wait" /\ kick' = TRUE /\ state' = "idle" /\ ident' = {}
  /\ UNCHANGED <<server, clk, store, leaving, withheld>>

-----------------------------------------------------------------------------
(***************************************************************************)
(* The user, teammates and administrators                                  *)
(***************************************************************************)

Tick == Event /\ clk' = clk + 1

\* A record is edited, switched on or off, or made and shared; every edit kicks.
Edit(r, on) ==
  /\ Tick
  /\ row[r].stamp > 0 \/ (srv[r].stamp = 0 /\ r \notin Theirs)
  /\ row' = [row EXCEPT ![r] = [stamp |-> clk + 1, team |-> row[r].stamp = 0 \/ row[r].team, on |-> on]]
  /\ kick' = TRUE
  /\ UNCHANGED <<server, pushed, cursor, engine, status, leaving, withheld>>

Teammate(r) ==
  /\ Tick /\ srv[r].stamp > 0
  /\ srv' = [srv EXCEPT ![r] = [stamp |-> clk + 1, seq |-> top[TeamOf[r]] + 1, exec |-> FALSE]]
  /\ top' = [top EXCEPT ![TeamOf[r]] = @ + 1]
  /\ UNCHANGED <<standing, restricted, grant, store, engine, kick, status, leaving, withheld>>

SetStanding(t, s) ==
  /\ Event /\ standing[t] # s /\ standing' = [standing EXCEPT ![t] = s]
  /\ UNCHANGED <<restricted, grant, srv, top, clk, store, engine, kick, status, leaving, withheld>>

SetRestricted(t) ==
  /\ Event /\ restricted' = (restricted \ {t}) \cup ({t} \ restricted)
  /\ UNCHANGED <<standing, grant, srv, top, clk, store, engine, kick, status, leaving, withheld>>

SetGrant(t, g) ==
  /\ Event /\ grant[t] # g /\ grant' = [grant EXCEPT ![t] = g]
  /\ UNCHANGED <<standing, restricted, srv, top, clk, store, engine, kick, status, leaving, withheld>>

\* sync_leave_team: the server first, then the folders that were shared with the team.  The
\* status shows what /v1/me says after it, if that answers.
Leave(t) ==
  /\ Event /\ leaving = 0 /\ standing[t] # "out"
  /\ standing' = [standing EXCEPT ![t] = "out"] /\ ident' \in {ident, Listed \ {t}} /\ leaving' = t
  /\ UNCHANGED <<restricted, grant, srv, top, clk, store, engine, kick, state, withheld>>

Unshare ==
  /\ leaving # 0 /\ leaving' = 0
  /\ LET mine == {r \in Kept \cap Of(leaving) : row[r].team}
     IN IF mine = {} THEN UNCHANGED <<row, clk, kick>>
        ELSE /\ clk' = clk + 1 /\ kick' = TRUE
             /\ row' = [r \in Records |->
                          IF r \in mine THEN [row[r] EXCEPT !.stamp = clk + 1, !.team = FALSE] ELSE row[r]]
  /\ UNCHANGED <<server, pushed, cursor, engine, status, withheld, events>>

Join(t) ==
  /\ Event /\ standing[t] = "out"
  /\ standing' = [standing EXCEPT ![t] = "writer"] /\ ident' = Listed \cup {t} /\ kick' = TRUE
  /\ UNCHANGED <<restricted, grant, srv, top, clk, store, engine, state, leaving, withheld>>

Others ==
  \/ Lose \/ Unauthorized \/ Rebuild
  \/ \E r \in Records : (\E on \in BOOLEAN : Edit(r, on)) \/ Teammate(r)
  \/ \E t \in TeamSet : \/ \E s \in {"archived", "reader", "writer", "manager"} : SetStanding(t, s)
                        \/ SetRestricted(t) \/ Leave(t) \/ Join(t)
                        \/ \E g \in {"none", "read", "write"} : SetGrant(t, g)

Next == Loop \/ Unshare \/ Others

Spec == Init /\ [][Next]_vars

\* The loop and a command that has begun go on.
FairSpec == Spec /\ WF_vars(Loop) /\ WF_vars(Unshare)

-----------------------------------------------------------------------------
\* The type invariant; and what the loop holds belongs to the team that it is at.
Sound ==
  /\ TypeOK
  /\ pc \in {"filter", "apply", "push", "sent", "ack"} => todo # << >>
  /\ \A r \in Records : (page[r].stamp > 0 \/ batch[r] > 0) => TeamOf[r] = Team
  /\ \A r \in Records : pushed[r] <= row[r].stamp
  /\ \A t \in TeamSet : cursor[t] <= top[t]
  /\ \A q, r \in Records : (srv[q].seq > 0 /\ TeamOf[q] = TeamOf[r] /\ srv[q].seq = srv[r].seq) => q = r

\* Whatever cycle was cut short, whichever team was left and joined again: what the cursor
\* has passed the device has, or it was withheld from it and has not been edited since.
CursorCovers ==
  \A r \in Records :
    (0 < srv[r].seq /\ srv[r].seq <= cursor[TeamOf[r]])
      => row[r].stamp >= srv[r].stamp \/ withheld[r] = srv[r].seq

\* "idle", with no kick queued, means that all that is shared with the teams of the cycle has
\* been sent; a record of somebody else's may have been refused.  The teams that the status
\* shows are others: an answer to a Leave names what no cycle has served.
IdleMeansSent ==
  (state = "idle" /\ pc = "wait" /\ ~kick) =>
    \A r \in Records \ Theirs :
      (TeamOf[r] \in me /\ row[r].team) => srv[r].stamp >= row[r].stamp

\* What the user has switched off, and what arrived switched off, stays so until the user
\* or a newer record says otherwise; the wire does not carry the switch.
SwitchedOff ==
  [][\A r \in Records : (row[r].stamp > 0 /\ ~row[r].on /\ row'[r].on) => row'[r].stamp > row[r].stamp]_vars

\* The teams that the cycle gets through: those before the first that answers 403.
Refuses(t) ==
  \/ ~MayRead(t)
  \/ /\ Dirty(t) # {}
     /\ \/ standing[t] = "reader"
        \/ t \in restricted /\ standing[t] # "manager" /\ grant[t] # "write" /\ Dirty(t) \cap Kept # {}
Served(t) ==
  /\ cursor[t] = top[t]
  /\ \A r \in Of(t) \ Theirs : row[r].team => srv[r].stamp >= row[r].stamp

\* When everybody has come to rest, the teams before the first that refuses come to be up
\* to date and stay so.
CaughtUp ==
  <>[](\A t \in Listed : (\A u \in Listed : u <= t => ~Refuses(u)) => Served(t))
=============================================================================
