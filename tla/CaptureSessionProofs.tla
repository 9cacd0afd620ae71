----------------------- MODULE CaptureSessionProofs -----------------------
(***************************************************************************)
(* What CaptureSession promises of captures, for any number of tasks,      *)
(* captures, rows and acts of the user.  First the lifecycle: LifeInd says *)
(* what tasks, pages and reports have to do with the capture that the icon *)
(* shows.  Then the history: HistInd says what is stored, what is on its   *)
(* way there and what the pages know of it.  Every step keeps both, those  *)
(* in which a command is cut short at some step on disk included.          *)
(***************************************************************************)
EXTENDS CaptureSession, FiniteSetTheorems, SequenceTheorems, WellFoundedInduction, TLAPS

-----------------------------------------------------------------------------
\* The lifecycle

\* The revisions and sessions that have been given out, and 0.
Before == 0..revision - 1
Handed == 0..sessions

\* What the variables of the lifecycle hold, with these for the bounds of TLC's instance.
PhaseRec == [at : {"idle", "active"} \cup Feedback, token : Before, session : Handed]
ResultRec == [session : Handed, route : Windows, token : Before]
TaskRec == [at : {"none", "shooting", "locating", "starting", "scrolling", "taken"},
            token : Before, mode : AllModes, route : Windows]
OverlayRec == [token : Before, route : Windows]
GestureRec == [what : {"run", "cancel"}, token : Before]
PageRec == [at : {"none", "loading", "working", "done"}, session : Handed, token : Before]
ReportRec == [session : Handed, token : Before, ok : BOOLEAN]

Typed ==
  /\ revision \in Nat \ {0} /\ sessions \in Nat /\ begun \in Nat /\ acks \in Nat
  /\ phase \in PhaseRec /\ timers \subseteq Before
  /\ acting \in Before /\ orderly \in BOOLEAN
  /\ pending \subseteq ResultRec
  /\ runs \in [RunIds -> TaskRec] /\ scrolling \in {0} \cup RunIds
  /\ overlay \in OverlayRec /\ asked \subseteq GestureRec
  /\ page \in [Windows -> PageRec] /\ reports \subseteq ReportRec

Lives == {r \in RunIds : runs[r].at # "none"}
Delivering == {w \in Windows : page[w].at \in {"loading", "working"}}

\* A capture takes a revision when it begins and another when it ends, and has one task and
\* one session at most.
Counted ==
  /\ revision + (IF phase.at = "active" THEN 1 ELSE 0) <= 1 + 2 * begun + acks
  /\ begun <= MaxCaptures /\ acks <= MaxAcks
  /\ sessions + Cardinality(Lives) + (IF overlay.token # Nobody THEN 1 ELSE 0) <= begun

\* Pages and reports have a session, and what has the session of the active capture has its
\* token; what the icon shows of a capture has its timer.
Agreed ==
  /\ \A w \in Windows : page[w].at # "none" =>
       page[w].session # 0 /\ (Bound(page[w].session) => page[w].token = phase.token)
  /\ \A m \in reports : m.session # 0 /\ (Bound(m.session) => m.token = phase.token)
  /\ phase.at \in Feedback => phase.token \in timers

\* In an orderly behaviour one thing at a time works for a capture.
Lone == orderly =>
  /\ \A q, r \in Lives : q = r
  /\ \A v, w \in Delivering : v = w
  /\ \A m, n \in reports : m = n
  /\ \A a, b \in asked : a = b
  /\ asked # {} => overlay.token # Nobody
  /\ overlay.token # Nobody => Lives = {} /\ Delivering = {} /\ reports = {}
  /\ Lives # {} => Delivering = {} /\ reports = {}
  /\ Delivering # {} => reports = {}

LifeInd == Typed /\ Counted /\ Agreed /\ Exclusive /\ IconTells /\ Lone

\* What the history makes of the lifecycle: the editor is closed by a command, or the
\* process ends.
Shut ==
  /\ page' = [page EXCEPT !["editor"] = NoPage]
  /\ UNCHANGED <<phase, revision, timers, pending, sessions, runs, scrolling, overlay, asked,
                 reports, begun, acks, acting, orderly>>
Ends ==
  /\ phase' = Idle /\ timers' = {} /\ pending' = {} /\ scrolling' = 0
  /\ runs' = [r \in RunIds |-> NoRun] /\ overlay' = NoOverlay /\ asked' = {}
  /\ page' = [w \in Windows |-> NoPage] /\ reports' = {} /\ acting' = Nobody
  /\ UNCHANGED <<revision, sessions, begun, acks, orderly>>

LifeStep ==
  \/ \E r \in Tokens : Expire(r)
  \/ Acknowledge
  \/ \E mode \in AllModes, route \in Windows : Begin(mode, route)
  \/ OnOverlay
  \/ \E r \in RunIds : Task(r)
  \/ \E w \in Windows : OnPage(w)
  \/ \E m \in reports : Settle(m)
  \/ Shut \/ Ends

\* A step of a session is a step of the lifecycle, or leaves it alone.
LEMMA StepOfLife == [SessionNext]_sessionVars => LifeStep \/ UNCHANGED vars
<1> SUFFICES ASSUME [SessionNext]_sessionVars PROVE LifeStep \/ UNCHANGED vars
  OBVIOUS
<1>1. CASE UNCHANGED sessionVars
  BY <1>1 DEF sessionVars
<1>2. CASE HistoryStep
  BY <1>2 DEF HistoryStep, LifeStep, Shut
<1>3. CASE Next
  BY <1>3, CaptureConstants DEF Next, Lifecycle, LifeStep
<1>4. CASE LifecycleStep
  BY <1>4 DEF LifecycleStep, LifeStep, AllModes
<1>5. CASE UserStep
  BY <1>5 DEF UserStep
<1>6. CASE CrashApp
  BY <1>6 DEF CrashApp, LifeStep, Ends
<1>7. CASE \E w \in Windows : PageStep(w)
  BY <1>7 DEF PageStep, LifeStep, OnPage, Task, Delivered
<1> QED BY <1>1, <1>2, <1>3, <1>4, <1>5, <1>6, <1>7 DEF SessionNext

-----------------------------------------------------------------------------
\* The types

\* What has been given out stays given out.
LEMMA Later ==
  ASSUME Typed, revision' \in {revision, revision + 1, revision + 2}, sessions' \in {sessions, sessions + 1}
  PROVE  /\ revision' \in Nat \ {0} /\ sessions' \in Nat
         /\ Before \subseteq Before' /\ Handed \subseteq Handed' /\ 0 \in Before' /\ 0 \in Handed'
         /\ PhaseRec \subseteq PhaseRec' /\ ResultRec \subseteq ResultRec' /\ TaskRec \subseteq TaskRec'
         /\ OverlayRec \subseteq OverlayRec' /\ GestureRec \subseteq GestureRec'
         /\ PageRec \subseteq PageRec' /\ ReportRec \subseteq ReportRec'
<1>1. revision \in Nat \ {0} /\ sessions \in Nat
  BY DEF Typed
<1>2. Before \subseteq Before' /\ Handed \subseteq Handed' /\ 0 \in Before' /\ 0 \in Handed'
  <2>1. revision' \in Nat \ {0} /\ revision <= revision' /\ sessions' \in Nat /\ sessions <= sessions'
    BY <1>1
  <2>2. Before \subseteq Before' /\ 0 \in Before'
    <3>1. ASSUME NEW a \in Nat \ {0}, NEW b \in Nat \ {0}, a <= b PROVE 0..a - 1 \subseteq 0..b - 1 /\ 0 \in 0..b - 1
      BY <3>1
    <3> QED BY <1>1, <2>1, <3>1 DEF Before
  <2>3. Handed \subseteq Handed' /\ 0 \in Handed'
    BY <1>1, <2>1 DEF Handed
  <2> QED BY <2>2, <2>3
<1>3. PhaseRec \subseteq PhaseRec'
  BY <1>2 DEF PhaseRec
<1>4. ResultRec \subseteq ResultRec'
  BY <1>2 DEF ResultRec
<1>5. TaskRec \subseteq TaskRec'
  BY <1>2 DEF TaskRec
<1>6. OverlayRec \subseteq OverlayRec'
  BY <1>2 DEF OverlayRec
<1>7. GestureRec \subseteq GestureRec'
  BY <1>2 DEF GestureRec
<1>8. PageRec \subseteq PageRec'
  BY <1>2 DEF PageRec
<1>9. ReportRec \subseteq ReportRec'
  BY <1>2 DEF ReportRec
<1> QED BY <1>1, <1>2, <1>3, <1>4, <1>5, <1>6, <1>7, <1>8, <1>9

\* The lifecycle after a step that may show something.
LEMMA ShowsTyped ==
  ASSUME Typed, Same \/ \E what \in Feedback : Show(what), sessions' \in {sessions, sessions + 1}
  PROVE  /\ revision' \in {revision, revision + 1} /\ phase' \in PhaseRec' /\ timers' \subseteq Before'
<1>1. CASE Same
  BY <1>1, Later DEF Same, Typed
<1>2. CASE \E what \in Feedback : Show(what)
  <2>1. PICK what \in Feedback : Show(what)
    BY <1>2
  <2>2. revision' = revision + 1 /\ revision \in Before'
    BY <2>1, Later DEF Show, Before, Typed
  <2>3. phase' \in PhaseRec'
    BY <2>1, <2>2, Later DEF Show, Shows, PhaseRec
  <2> QED BY <2>1, <2>2, <2>3, Later DEF Show, Typed
<1> QED BY <1>1, <1>2

\* A task that ends or goes on is a task.
LEMMA RunsTyped ==
  ASSUME Typed, revision' \in {revision, revision + 1, revision + 2}, sessions' \in {sessions, sessions + 1},
         NEW r \in RunIds,
         \/ End(r)
         \/ \E p \in {"starting", "scrolling", "taken"} : Goto(r, p)
         \/ UNCHANGED runs
  PROVE  runs' \in [RunIds -> TaskRec']
<1>1. runs \in [RunIds -> TaskRec'] /\ NoRun \in TaskRec'
  BY Later DEF Typed, NoRun, TaskRec, AllModes, Windows, Nobody
<1>2. ASSUME NEW p \in {"starting", "scrolling", "taken"} PROVE [runs[r] EXCEPT !.at = p] \in TaskRec'
  BY <1>1 DEF TaskRec
<1> QED BY <1>1, <1>2 DEF End, Goto

\* Timers, acknowledgements and new captures keep the types.
LEMMA LifecycleTypes ==
  ASSUME Typed,
         \/ \E r \in Tokens : Expire(r)
         \/ Acknowledge
         \/ \E mode \in AllModes, route \in Windows : Begin(mode, route)
  PROVE  Typed'
<1>1. ASSUME NEW r \in Tokens, Expire(r) PROVE Typed'
  <2>1. Idle \in PhaseRec
    BY DEF Typed, Idle, PhaseRec, Before, Handed, Nobody
  <2>2. Before' = Before /\ Handed' = Handed /\ 0 \in Before
    BY <1>1 DEF Expire, Before, Handed, Typed
  <2>3. sessions' = sessions /\ revision' = revision
    BY <1>1 DEF Expire
  <2> QED BY <1>1, <2>1, <2>2, <2>3, Later DEF Expire, Typed, Nobody
<1>2. ASSUME Acknowledge PROVE Typed'
  <2>1. Same \/ \E what \in Feedback : Show(what)
    BY <1>2 DEF Acknowledge, Feedback
  <2>2. sessions' = sessions /\ acks' \in Nat
    BY <1>2 DEF Acknowledge, Typed
  <2>3. revision' \in {revision, revision + 1} /\ phase' \in PhaseRec' /\ timers' \subseteq Before'
    BY <2>1, <2>2, ShowsTyped
  <2> QED BY <1>2, <2>2, <2>3, Later DEF Acknowledge, Typed, Nobody
<1>3. ASSUME NEW mode \in AllModes, NEW route \in Windows, Begin(mode, route) PROVE Typed'
  <2>1. revision' \in {revision + 1, revision + 2} /\ sessions' = sessions
    BY <1>3 DEF Begin
  <2>2. {revision, revision' - 1} \subseteq Before' /\ acting' = revision
    <3>1. revision \in Nat /\ acting' = revision
      BY <1>3 DEF Begin, Typed
    <3>2. CASE revision' = revision + 1
      BY <3>1, <3>2 DEF Before
    <3>3. CASE revision' = revision + 2
      BY <3>1, <3>3 DEF Before
    <3> QED BY <2>1, <3>1, <3>2, <3>3
  <2>3. phase' \in PhaseRec' /\ timers' \subseteq Before'
    BY <1>3, <2>1, <2>2, Later DEF Begin, Active, PhaseRec, Feedback, Typed
  <2>4. overlay' \in OverlayRec'
    BY <1>3, <2>1, <2>2, Later DEF Begin, NoOverlay, OverlayRec, Windows, Nobody, Typed
  <2>5. runs' \in [RunIds -> TaskRec']
    <3>1. ASSUME NEW at \in {"shooting", "locating"}
          PROVE  [at |-> at, token |-> revision, mode |-> mode, route |-> route] \in TaskRec'
      BY <2>2 DEF TaskRec
    <3>2. runs \in [RunIds -> TaskRec']
      BY <2>1, <2>2, Later DEF Typed
    <3>3. CASE mode = "scrolling"
      BY <1>3, <3>2, <3>3 DEF Begin
    <3>4. CASE mode # "scrolling"
      <4>1. PICK r \in RunIds :
              runs' = [runs EXCEPT ![r] = [at |-> IF mode = "shot" THEN "shooting" ELSE "locating",
                                           token |-> revision, mode |-> mode, route |-> route]]
        BY <1>3, <3>4 DEF Begin
      <4> QED BY <3>1, <3>2, <4>1
    <3> QED BY <3>3, <3>4
  <2>6. begun' \in Nat
    BY <1>3 DEF Begin, Typed
  <2> QED BY <1>3, <2>1, <2>2, <2>3, <2>4, <2>5, <2>6, Later DEF Begin, Typed
<1> QED BY <1>1, <1>2, <1>3

\* The overlay and its commands keep the types.
LEMMA OverlayTypes == ASSUME Typed, OnOverlay PROVE Typed'
<1> USE DEF Nobody
<1>1. ASSUME NEW what \in {"run", "cancel"}, Gesture(what) PROVE Typed'
  <2>1. revision' = revision /\ sessions' = sessions
    BY <1>1 DEF Gesture
  <2>2. asked' \subseteq GestureRec'
    BY <1>1, <2>1, Later DEF Gesture, GestureRec, OverlayRec, Typed
  <2> QED BY <1>1, <2>1, <2>2, Later DEF Gesture, Typed
<1>2. ASSUME NEW a \in asked, RunOverlay(a) PROVE Typed'
  <2>1. revision' = revision /\ sessions' = sessions /\ acting' \in Before'
    BY <1>2, Later DEF RunOverlay, Typed, GestureRec
  <2>2. overlay' \in OverlayRec'
    BY <1>2, <2>1, Later DEF RunOverlay, CloseOverlay, NoOverlay, OverlayRec, Windows, Typed
  <2>3. runs' \in [RunIds -> TaskRec']
    <3>1. [at |-> "starting", token |-> phase.token, mode |-> "scrolling", route |-> overlay.route] \in TaskRec'
      BY <2>1, Later DEF TaskRec, AllModes, PhaseRec, OverlayRec, Typed
    <3>2. runs \in [RunIds -> TaskRec']
      BY <2>1, Later DEF Typed
    <3> QED BY <1>2, <3>1, <3>2 DEF RunOverlay
  <2> QED BY <1>2, <2>1, <2>2, <2>3, Later DEF RunOverlay, Typed
<1>3. ASSUME NEW a \in asked, CancelOverlay(a) PROVE Typed'
  <2>1. revision' \in {revision, revision + 1} /\ sessions' = sessions
    BY <1>3 DEF CancelOverlay, CancelCurrent
  <2>2. phase' \in PhaseRec' /\ timers' \subseteq Before' /\ acting' \in Before'
    BY <1>3, <2>1, Later DEF CancelOverlay, CancelCurrent, Idle, PhaseRec, GestureRec, Typed
  <2>3. overlay' \in OverlayRec' /\ asked' \subseteq GestureRec'
    BY <1>3, <2>1, Later DEF CancelOverlay, CloseOverlay, NoOverlay, OverlayRec, Windows, Typed
  <2> QED BY <1>3, <2>1, <2>2, <2>3, Later DEF CancelOverlay, Typed
<1> QED BY <1>1, <1>2, <1>3 DEF OnOverlay

\* A task may deliver: the result is kept, and a page is opened for it or a failure shown.
LEMMA DeliverTypes ==
  ASSUME Typed, NEW r \in RunIds, Deliver(r)
  PROVE  /\ revision' \in {revision, revision + 1} /\ sessions' \in {sessions, sessions + 1}
         /\ phase' \in PhaseRec' /\ timers' \subseteq Before' /\ runs' \in [RunIds -> TaskRec']
         /\ pending' \subseteq ResultRec' /\ page' \in [Windows -> PageRec']
<1> DEFINE t == runs[r].token
           route == runs[r].route
<1>0. t \in Before /\ route \in Windows /\ "failed" \in Feedback
  BY DEF Typed, TaskRec, Feedback
<1>1. CASE Report(r) /\ UNCHANGED <<sessions, pending, page>>
  <2>1. sessions' = sessions /\ (Same \/ \E what \in Feedback : Show(what)) /\ End(r)
    BY <1>0, <1>1 DEF Report, Fail
  <2>2. revision' \in {revision, revision + 1} /\ phase' \in PhaseRec' /\ timers' \subseteq Before'
    BY <2>1, ShowsTyped
  <2> QED BY <1>1, <2>1, <2>2, RunsTyped, Later DEF Typed
<1>2. CASE End(r) /\ Same /\ UNCHANGED <<sessions, pending, page>>
  <2>1. revision' \in {revision, revision + 1} /\ phase' \in PhaseRec' /\ timers' \subseteq Before'
    BY <1>2, ShowsTyped
  <2> QED BY <1>2, <2>1, RunsTyped, Later DEF Typed
<1>3. CASE End(r) /\ Complete(t, route) /\ Bind(t) /\ Replace(route, t) /\ UNCHANGED <<revision, timers>>
  <2>1. revision' = revision /\ sessions' = sessions + 1 /\ sessions' \in Handed'
    BY <1>3 DEF Complete, Handed, Typed
  <2>2. phase' \in PhaseRec' /\ timers' \subseteq Before'
    BY <1>0, <1>3, <2>1, Later DEF Bind, Active, PhaseRec, Typed
  <2>3. pending' \subseteq ResultRec'
    BY <1>0, <1>3, <2>1, Later DEF Complete, ResultRec, Typed
  <2>4. page' \in [Windows -> PageRec']
    BY <1>0, <1>3, <2>1, Later DEF Replace, PageRec, Typed
  <2> QED BY <1>3, <2>1, <2>2, <2>3, <2>4, RunsTyped
<1>4. CASE End(r) /\ Complete(t, route) /\ Show("failed") /\ UNCHANGED page
  <2>1. sessions' = sessions + 1 /\ sessions' \in Handed'
    BY <1>4 DEF Complete, Handed, Typed
  <2>2. revision' \in {revision, revision + 1} /\ phase' \in PhaseRec' /\ timers' \subseteq Before'
    BY <1>0, <1>4, <2>1, ShowsTyped
  <2>3. pending' \subseteq ResultRec'
    BY <1>0, <1>4, <2>1, <2>2, Later DEF Complete, ResultRec, Typed
  <2> QED BY <1>4, <2>1, <2>2, <2>3, RunsTyped, Later DEF Typed
<1> QED BY <1>1, <1>2, <1>3, <1>4 DEF Deliver

\* Capture tasks keep the types.
LEMMA TaskTypes == ASSUME Typed, NEW r \in RunIds, Task(r) PROVE Typed'
<1>0. runs[r].token \in Before /\ "failed" \in Feedback
  BY DEF Typed, TaskRec, Feedback
<1>1. CASE Finish(r) \/ Shoot(r)
  <2>1. Deliver(r) /\ acting' = runs[r].token
    BY <1>1 DEF Finish, Shoot
  <2> QED BY <1>0, <1>1, <2>1, DeliverTypes, Later DEF Finish, Shoot, Typed
<1>2. CASE Locate(r) \/ StartLoop(r) \/ EndLoop(r)
  <2>1. /\ sessions' = sessions /\ (Same \/ \E what \in Feedback : Show(what))
        /\ End(r) \/ \E p \in {"starting", "scrolling", "taken"} : Goto(r, p)
        /\ scrolling' \in {scrolling, 0, r} /\ acting' = runs[r].token
    BY <1>0, <1>2 DEF Locate, StartLoop, EndLoop, Report, Fail
  <2>2. revision' \in {revision, revision + 1} /\ phase' \in PhaseRec' /\ timers' \subseteq Before'
    BY <2>1, ShowsTyped
  <2>3. runs' \in [RunIds -> TaskRec'] /\ scrolling' \in {0} \cup RunIds
    BY <2>1, <2>2, RunsTyped DEF Typed
  <2> QED BY <1>0, <1>2, <2>1, <2>2, <2>3, Later DEF Locate, StartLoop, EndLoop, Typed
<1> QED BY <1>1, <1>2 DEF Task

\* The pages keep the types.
LEMMA PageTypes == ASSUME Typed, NEW w \in Windows, OnPage(w) PROVE Typed'
<1>0. page[w] \in PageRec
  BY DEF Typed
<1>1. revision' = revision /\ sessions' = sessions /\ acting' \in Before
  BY <1>0 DEF OnPage, Load, Work, Close, PageRec
<1>2. page' \in [Windows -> PageRec']
  <2>1. NoPage \in PageRec /\ \A a \in {"working", "done"} : [page[w] EXCEPT !.at = a] \in PageRec
    BY <1>0 DEF NoPage, PageRec, Typed, Nobody, Before, Handed
  <2>2. page' = [page EXCEPT ![w] = NoPage] \/ \E a \in {"working", "done"} : page' = [page EXCEPT ![w].at = a]
    BY DEF OnPage, Load, Work, Close
  <2> QED BY <1>1, <2>1, <2>2, Later DEF Typed
<1>3. reports' \subseteq ReportRec'
  <2>1. ASSUME NEW ok \in BOOLEAN, Reporting(w, ok) PROVE reports' \subseteq ReportRec
    BY <1>0, <2>1 DEF Reporting, PageRec, ReportRec, Typed
  <2> QED BY <1>1, <2>1, Later DEF OnPage, Load, Work, Close, Typed
<1> QED BY <1>1, <1>2, <1>3, Later DEF OnPage, Load, Work, Close, Typed

\* Every step keeps the types.
LEMMA TypedStep == ASSUME Typed, LifeStep \/ UNCHANGED vars PROVE Typed'
<1>1. CASE UNCHANGED vars
  BY <1>1, Later DEF vars, Typed
<1>2. ASSUME NEW m \in reports, Settle(m) PROVE Typed'
  <2>1. m.token \in Before
    BY DEF Typed, ReportRec
  <2>2. sessions' = sessions /\ (Same \/ \E what \in Feedback : Show(what))
    BY <1>2 DEF Settle, FinishDelivery, Feedback
  <2>3. revision' \in {revision, revision + 1} /\ phase' \in PhaseRec' /\ timers' \subseteq Before'
    BY <2>2, ShowsTyped
  <2> QED BY <1>2, <2>1, <2>2, <2>3, Later DEF Settle, Typed
<1>3. CASE Shut
  <2>1. NoPage \in PageRec
    BY DEF NoPage, PageRec, Typed, Nobody, Before, Handed
  <2> QED BY <1>3, <2>1, Later DEF Shut, Typed
<1>4. CASE Ends
  <2>1. /\ revision' = revision /\ sessions' = sessions
        /\ Idle \in PhaseRec /\ NoRun \in TaskRec /\ NoOverlay \in OverlayRec /\ NoPage \in PageRec
    BY <1>4 DEF Ends, Typed, Idle, NoRun, NoOverlay, NoPage, PhaseRec, TaskRec, OverlayRec, PageRec,
                Before, Handed, Nobody, AllModes, Windows
  <2> QED BY <1>4, <2>1, Later DEF Ends, Typed, Nobody
<1> QED BY <1>1, <1>2, <1>3, <1>4, LifecycleTypes, OverlayTypes, TaskTypes, PageTypes DEF LifeStep

-----------------------------------------------------------------------------
\* What a step of a task comes to: it goes on, or ends and settles nothing, ...
Plain(r) == Same /\ UNCHANGED <<page, sessions>> /\ (End(r) \/ \E p \in {"starting", "scrolling", "taken"} : Goto(r, p))
\* ... or ends and shows that its capture has failed, ...
Fails(r) == IsActive(runs[r].token) /\ Show("failed") /\ End(r) /\ UNCHANGED page /\ sessions' \in {sessions, sessions + 1}
\* ... or ends with a page at work for it.
Opens(r) ==
  /\ IsActive(runs[r].token) /\ End(r) /\ sessions' = sessions + 1
  /\ Bind(runs[r].token) /\ Replace(runs[r].route, runs[r].token) /\ UNCHANGED <<revision, timers>>

\* A step of a task is one of the three, and leaves the overlay and the reports alone.
LEMMA TaskMoves ==
  ASSUME NEW r \in RunIds, Task(r)
  PROVE  /\ r \in Lives /\ acting' = runs[r].token
         /\ UNCHANGED <<overlay, asked, reports, begun, acks, orderly>>
         /\ Plain(r) \/ Fails(r) \/ Opens(r)
<1>0. ASSUME Report(r), UNCHANGED <<page, sessions>> PROVE Plain(r) \/ Fails(r)
  BY <1>0 DEF Report, Fail, Plain, Fails
<1>1. CASE Finish(r) \/ Shoot(r)
  <2>1. Deliver(r)
    BY <1>1 DEF Finish, Shoot
  <2>2. Plain(r) \/ Fails(r) \/ Opens(r)
    BY <1>0, <2>1 DEF Deliver, Complete, MayComplete, Plain, Fails, Opens
  <2> QED BY <1>1, <2>2 DEF Finish, Shoot, Lives
<1>2. CASE Locate(r) \/ StartLoop(r) \/ EndLoop(r)
  <2>1. UNCHANGED <<page, sessions>>
    BY <1>2 DEF Locate, StartLoop, EndLoop
  <2>2. Report(r) \/ Plain(r)
    BY <1>2, <2>1 DEF Locate, StartLoop, EndLoop, Plain
  <2> QED BY <1>0, <1>2, <2>1, <2>2 DEF Locate, StartLoop, EndLoop, Lives
<1> QED BY <1>1, <1>2 DEF Task

\* What an ended task leaves.
LEMMA Ended == ASSUME Typed, NEW r \in RunIds, End(r) PROVE Lives' = Lives \ {r} /\ \A q \in RunIds \ {r} : runs'[q] = runs[q]
BY DEF Typed, End, NoRun, Lives

\* A task that goes on stays alive, for the same capture.
LEMMA GoneOn ==
  ASSUME Typed, NEW r \in Lives, NEW p \in {"starting", "scrolling", "taken"}, Goto(r, p)
  PROVE  Lives' = Lives /\ \A q \in RunIds : runs'[q].token = runs[q].token
<1> USE DEF Lives, Goto, Typed, TaskRec
<1>1. runs'[r] = [runs[r] EXCEPT !.at = p]
  OBVIOUS
<1>2. runs'[r].at = p /\ runs'[r].token = runs[r].token
  BY <1>1
<1> QED BY <1>2

\* There are finitely many tasks.
LEMMA LivesFinite ==
  /\ IsFiniteSet(Lives) /\ Cardinality(Lives) \in Nat
  /\ IsFiniteSet(Lives') /\ Cardinality(Lives') \in Nat
<1>1. IsFiniteSet(RunIds)
  BY CaptureConstants, FS_Interval, 1 \in Int, MaxRuns \in Int DEF RunIds
<1> QED BY <1>1, FS_Subset, FS_CardinalityType DEF Lives

\* One task fewer is alive.
LEMMA FewerLives == ASSUME Typed, NEW r \in Lives, End(r) PROVE Cardinality(Lives') = Cardinality(Lives) - 1
BY Ended, LivesFinite, FS_RemoveElement DEF Lives

\* Another task is alive.
LEMMA MoreLives ==
  ASSUME Typed, NEW r \in RunIds, runs[r].at = "none", NEW task, task.at # "none", runs' = [runs EXCEPT ![r] = task]
  PROVE  Cardinality(Lives') = Cardinality(Lives) + 1 /\ Lives' = Lives \cup {r}
<1>1. Lives' = Lives \cup {r} /\ r \notin Lives
  BY DEF Typed, Lives
<1> QED BY <1>1, LivesFinite, FS_AddElement

-----------------------------------------------------------------------------
\* The counts
Open == IF overlay.token # Nobody THEN 1 ELSE 0
\* The tasks that are alive.
Tally == Cardinality(Lives)
Busied == IF phase.at = "active" THEN 1 ELSE 0

\* Sums that do not grow beyond their bound.
LEMMA Sums ==
  ASSUME NEW s \in Nat, NEW t \in Nat, NEW o \in Nat, NEW b \in Nat, NEW t2 \in Nat, NEW o2 \in Nat, s + t + o <= b
  PROVE  /\ t2 + o2 <= t + o + 1 => s + t2 + o2 <= b + 1
         /\ t2 = t - 1 => s + t2 + o <= b /\ s + 1 + t2 + o <= b
OBVIOUS

\* The counts keep their bounds.
LEMMA CountedStep == ASSUME Typed, Counted, LifeStep PROVE Counted'
<1>0. /\ revision \in Nat /\ sessions \in Nat /\ begun \in Nat /\ acks \in Nat /\ Tally \in Nat
      /\ revision + Busied <= 1 + 2 * begun + acks /\ begun <= MaxCaptures /\ acks <= MaxAcks
      /\ sessions + Tally + Open <= begun /\ Open \in 0..1 /\ Busied \in 0..1
      /\ Open' \in 0..1 /\ Busied' \in 0..1 /\ Tally' \in Nat /\ MaxCaptures \in Nat /\ MaxAcks \in Nat
  BY LivesFinite, CaptureConstants DEF Typed, Counted, Open, Busied, Tally
<1>g. ASSUME revision' + Busied' <= 1 + 2 * begun' + acks', begun' <= MaxCaptures, acks' <= MaxAcks,
             sessions' + Tally' + Open' <= begun'
      PROVE  Counted'
  BY <1>g DEF Counted, Open, Busied, Tally
<1>l. runs' = runs => Tally' = Tally
  BY DEF Tally, Lives
<1>s. \A s, t, o, b, s2, t2, o2 \in Nat : s + t + o <= b =>
        /\ t2 + o2 <= t + o + 1 => s + t2 + o2 <= b + 1
        /\ t2 <= t => s + t2 + o <= b
        /\ t2 = t - 1 => s + t2 + o <= b /\ s + 1 + t2 + o <= b
  OBVIOUS
<1>n. Open \in Nat /\ Open' \in Nat
  BY DEF Open
<1>1. ASSUME NEW r \in Tokens, Expire(r) PROVE Counted'
  <2>1. Busied' <= Busied
    BY <1>0, <1>1 DEF Expire, Busied, IsShown, Idle, Feedback
  <2>2. Open' = Open /\ revision' = revision /\ sessions' = sessions /\ runs' = runs /\ begun' = begun /\ acks' = acks
    BY <1>1 DEF Expire, Open
  <2> QED BY <1>0, <1>g, <1>l, <2>1, <2>2 DEF Open, Busied
<1>2. CASE Acknowledge
  <2>1. \/ Same /\ Busied' = Busied
        \/ revision' = revision + 1 /\ Busied' = 0
    BY <1>2 DEF Acknowledge, Same, Show, Shows, Busied
  <2>2. acks' = acks + 1 /\ acks' <= MaxAcks
    BY <1>0, <1>2, CaptureConstants DEF Acknowledge
  <2> QED BY <1>0, <1>2, <1>g, <1>l, <2>1, <2>2 DEF Acknowledge, Open, Same
<1>3. ASSUME NEW mode \in AllModes, NEW route \in Windows, Begin(mode, route) PROVE Counted'
  <2>1. revision' + Busied' = revision + 2 /\ Busied = 0
    BY <1>0, <1>3 DEF Begin, Busied, Active
  <2>2. begun' = begun + 1 /\ begun' <= MaxCaptures /\ acks' = acks /\ sessions' = sessions
    BY <1>0, <1>3, CaptureConstants DEF Begin
  <2>3. Tally' + Open' <= Tally + Open + 1
    <3>1. CASE mode = "scrolling"
      BY <1>0, <1>3, <1>l, <3>1 DEF Begin, Open
    <3>2. CASE mode # "scrolling"
      <4>1. PICK r \in RunIds :
              /\ runs[r].at = "none"
              /\ runs' = [runs EXCEPT ![r] = [at |-> IF mode = "shot" THEN "shooting" ELSE "locating",
                                              token |-> revision, mode |-> mode, route |-> route]]
        BY <1>3, <3>2 DEF Begin
      <4>2. Tally' = Tally + 1
        <5> DEFINE task == [at |-> IF mode = "shot" THEN "shooting" ELSE "locating",
                            token |-> revision, mode |-> mode, route |-> route]
        <5>1. task.at # "none" /\ runs' = [runs EXCEPT ![r] = task]
          BY <4>1
        <5> HIDE DEF task
        <5> QED BY <4>1, <5>1, MoreLives DEF Tally
      <4> QED BY <1>0, <1>3, <3>2, <4>2 DEF Begin, Open
    <3> QED BY <3>1, <3>2
  <2>4. revision' + Busied' <= 1 + 2 * begun' + acks'
    BY <1>0, <2>1, <2>2, <2>3 DEF Busied
  <2>5. sessions' + Tally' + Open' <= begun'
    <3>1. sessions + Tally' + Open' <= begun + 1
      <4>1. sessions \in Nat /\ Tally \in Nat /\ Open \in Nat /\ begun \in Nat /\ Tally' \in Nat /\ Open' \in Nat
        BY <1>0, <1>n
      <4>2. sessions + Tally + Open <= begun
        BY <1>0
      <4> QED BY <2>3, <4>1, <4>2, Sums
    <3> QED BY <2>2, <3>1
  <2> QED BY <1>0, <1>g, <2>1, <2>2, <2>3, <2>4, <2>5
<1>4. CASE OnOverlay
  <2>1. ASSUME NEW what \in {"run", "cancel"}, Gesture(what) PROVE Counted'
    BY <1>0, <1>g, <1>l, <2>1 DEF Gesture, Open, Busied
  <2>2. ASSUME NEW a \in asked, RunOverlay(a) PROVE Counted'
    <3>1. CASE phase.at = "active" /\ overlay.token # Nobody
      <4>1. PICK r \in RunIds :
              /\ runs[r].at = "none"
              /\ runs' = [runs EXCEPT ![r] = [at |-> "starting", token |-> phase.token,
                                              mode |-> "scrolling", route |-> overlay.route]]
        BY <2>2, <3>1 DEF RunOverlay
      <4>2. Tally' = Tally + 1
        BY <4>1, MoreLives DEF Tally
      <4>3. Open = 1 /\ Open' = 0
        BY <2>2, <3>1 DEF RunOverlay, CloseOverlay, NoOverlay, Open
      <4> QED BY <1>0, <1>g, <2>2, <4>2, <4>3 DEF RunOverlay, Busied
    <3> QED BY <1>0, <1>g, <1>l, <2>2, <3>1 DEF RunOverlay, Open, Busied
  <2>3. ASSUME NEW a \in asked, CancelOverlay(a) PROVE Counted'
    <3>1. revision' + Busied' = revision + Busied
      BY <1>0, <2>3 DEF CancelOverlay, CancelCurrent, Idle, Busied
    <3>2. Open' = 0
      BY <2>3 DEF CancelOverlay, CloseOverlay, NoOverlay, Open
    <3> QED BY <1>0, <1>g, <1>l, <2>3, <3>1, <3>2 DEF CancelOverlay
  <2> QED BY <1>4, <2>1, <2>2, <2>3 DEF OnOverlay
<1>5. ASSUME NEW r \in RunIds, Task(r) PROVE Counted'
  <2>0. r \in Lives /\ begun' = begun /\ acks' = acks /\ Open' = Open
    BY <1>5, TaskMoves DEF Open
  <2>1. CASE Plain(r)
    <3>1. Tally' <= Tally
      BY <1>0, <2>0, <2>1, FewerLives, GoneOn DEF Plain, Tally
    <3>2. Busied' = Busied /\ revision' = revision /\ sessions' = sessions
      BY <2>1 DEF Plain, Same, Busied
    <3>3. revision' + Busied' <= 1 + 2 * begun' + acks'
      BY <1>0, <2>0, <3>1, <3>2 DEF Busied
    <3>4. sessions' + Tally' + Open' <= begun'
      BY <1>0, <1>s, <1>n, <2>0, <3>1, <3>2
    <3> QED BY <1>0, <1>g, <2>0, <3>1, <3>2, <3>3, <3>4
  <2>2. CASE Fails(r)
    <3>1. Tally' = Tally - 1
      BY <2>0, <2>2, FewerLives DEF Fails, Tally
    <3>2. revision' = revision + 1 /\ Busied = 1 /\ Busied' = 0
      BY <2>2 DEF Fails, Show, Shows, IsActive, Busied
    <3>3. sessions' \in {sessions, sessions + 1}
      BY <2>2 DEF Fails
    <3>4. revision' + Busied' <= 1 + 2 * begun' + acks'
      BY <1>0, <2>0, <3>1, <3>2, <3>3 DEF Busied
    <3>5. sessions' + Tally' + Open' <= begun'
      <4>1. sessions \in Nat /\ Tally \in Nat /\ Open \in Nat /\ begun \in Nat
        BY <1>0, <1>n
      <4>2. sessions + Tally + Open <= begun
        BY <1>0
      <4>3. sessions' + Tally' + Open <= begun
        <5>1. Tally' \in Nat
          BY <1>0
        <5>2. sessions + Tally' + Open <= begun /\ sessions + 1 + Tally' + Open <= begun
          BY <3>1, <4>1, <4>2, <5>1, Sums
        <5> QED BY <3>3, <5>2
      <4> QED BY <2>0, <4>3
    <3> QED BY <1>0, <1>g, <2>0, <3>1, <3>2, <3>3, <3>4, <3>5
  <2>3. CASE Opens(r)
    <3>1. Tally' = Tally - 1
      BY <2>0, <2>3, FewerLives DEF Opens, Tally
    <3>2. revision' = revision /\ Busied' = Busied
      BY <2>3 DEF Opens, Bind, Active, IsActive, Busied
    <3> QED BY <1>0, <1>g, <2>0, <2>3, <3>1, <3>2 DEF Opens
  <2> QED BY <1>5, <2>1, <2>2, <2>3, TaskMoves
<1>6. ASSUME NEW w \in Windows, OnPage(w) PROVE Counted'
  BY <1>0, <1>6, <1>g, <1>l DEF OnPage, Load, Work, Close, Open, Busied
<1>7. ASSUME NEW m \in reports, Settle(m) PROVE Counted'
  <2>1. revision' + Busied' = revision + Busied
    BY <1>0, <1>7 DEF Settle, FinishDelivery, Show, Shows, Same, Bound, Busied
  <2> QED BY <1>0, <1>7, <1>g, <1>l, <2>1 DEF Settle, Open
<1>8. CASE Shut
  BY <1>0, <1>8, <1>g, <1>l DEF Shut, Open, Busied
<1>9. CASE Ends
  <2>1. Lives' = {} /\ Open' = 0 /\ Busied' = 0
    BY <1>9 DEF Ends, Lives, NoRun, NoOverlay, Idle, Open, Busied
  <2>2. Tally' = 0
    BY <2>1, FS_EmptySet DEF Tally
  <2> QED BY <1>0, <1>9, <1>g, <2>1, <2>2 DEF Ends
<1> QED BY <1>1, <1>2, <1>3, <1>4, <1>5, <1>6, <1>7, <1>8, <1>9 DEF LifeStep

-----------------------------------------------------------------------------
\* Sessions, tokens and timers

\* What a step that shows something, or settles nothing, leaves of them.
LEMMA AgreedShown ==
  ASSUME Typed, Agreed, Same \/ \E what \in Feedback : Show(what), UNCHANGED page, reports' \subseteq reports
  PROVE  Agreed'
<1>1. CASE Same
  BY <1>1 DEF Same, Agreed, Bound
<1>2. CASE \E what \in Feedback : Show(what)
  <2>1. phase'.at \in Feedback /\ phase'.token \in timers' /\ phase'.at # "active"
    BY <1>2 DEF Show, Shows, Feedback
  <2> QED BY <2>1 DEF Agreed, Bound
<1> QED BY <1>1, <1>2

\* Every step keeps the agreement of pages and reports with the capture they are for.
LEMMA AgreedStep == ASSUME Typed, Agreed, LifeStep PROVE Agreed'
<1>1. ASSUME NEW r \in Tokens, Expire(r) PROVE Agreed'
  BY <1>1 DEF Expire, IsShown, Idle, Agreed, Bound, Feedback
<1>2. CASE Acknowledge
  BY <1>2, AgreedShown DEF Acknowledge, Feedback
<1>3. ASSUME NEW mode \in AllModes, NEW route \in Windows, Begin(mode, route) PROVE Agreed'
  <2>1. \/ phase' = Active(revision, 0)
        \/ phase'.at = "failed" /\ phase'.token \in timers'
    BY <1>3 DEF Begin
  <2> QED BY <1>3, <2>1 DEF Begin, Active, Agreed, Bound, Feedback
<1>4. CASE OnOverlay
  <2>1. UNCHANGED <<page, reports, timers>> /\ (phase' = phase \/ phase' = Idle)
    BY <1>4 DEF OnOverlay, Gesture, RunOverlay, CancelOverlay, CancelCurrent
  <2> QED BY <2>1 DEF Idle, Agreed, Bound, Feedback
<1>5. ASSUME NEW r \in RunIds, Task(r) PROVE Agreed'
  <2>1. CASE Plain(r)
    BY <1>5, <2>1, TaskMoves, AgreedShown DEF Plain
  <2>2. CASE Fails(r)
    BY <1>5, <2>2, TaskMoves, AgreedShown DEF Fails, Feedback
  <2>3. CASE Opens(r)
    <3> DEFINE t == runs[r].token
               route == runs[r].route
               new == [at |-> "loading", session |-> sessions + 1, token |-> t]
    <3>1. phase' = Active(t, sessions + 1) /\ page' = [page EXCEPT ![route] = new] /\ reports' = reports
      BY <1>5, <2>3, TaskMoves DEF Opens, Bind, Replace
    <3>2. sessions \in Nat /\ sessions + 1 # 0 /\ sessions + 1 \notin Handed
      BY DEF Typed, Handed
    <3>3. ASSUME NEW w \in Windows, page'[w].at # "none"
          PROVE  page'[w].session # 0 /\ (Bound(page[w].session)' => page'[w].token = phase'.token)
      <4>1. CASE w = route
        BY <3>1, <3>2, <4>1 DEF Active, Typed
      <4>2. CASE w # route
        <5>1. page'[w] = page[w] /\ page[w].session \in Handed
          BY <3>1, <4>2 DEF Typed, PageRec
        <5> QED BY <3>1, <3>2, <3>3, <5>1 DEF Active, Agreed, Bound
      <4> QED BY <4>1, <4>2
    <3>4. ASSUME NEW m \in reports PROVE m.session # 0 /\ m.session # sessions + 1
      BY <3>2 DEF Agreed, Typed, ReportRec
    <3> QED BY <3>1, <3>3, <3>4 DEF Agreed, Bound, Active, Feedback
  <2> QED BY <1>5, <2>1, <2>2, <2>3, TaskMoves
<1>6. ASSUME NEW w \in Windows, OnPage(w) PROVE Agreed'
  <2>1. UNCHANGED <<phase, timers>>
    BY <1>6 DEF OnPage, Load, Work, Close
  <2>2. CASE Close(w)
    BY <2>1, <2>2 DEF Close, NoPage, Agreed, Bound, Typed
  <2>3. CASE Load(w) \/ Work(w)
    <3>1. page[w].at # "none" /\ \E a \in {"working", "done"} : page' = [page EXCEPT ![w].at = a]
      BY <2>3 DEF Load, Work
    <3>2. ASSUME NEW v \in Windows
          PROVE  page'[v].session = page[v].session /\ page'[v].token = page[v].token /\ (page'[v].at # "none" => page[v].at # "none")
      BY <3>1 DEF Typed, PageRec
    <3>3. reports' = reports \/ \E ok \in BOOLEAN : Reporting(w, ok)
      BY <2>3 DEF Load, Work
    <3>4. ASSUME NEW m \in reports' PROVE m.session # 0 /\ (Bound(m.session) => m.token = phase.token)
      BY <3>1, <3>3 DEF Reporting, Agreed
    <3> QED BY <2>1, <3>2, <3>4 DEF Agreed, Bound
  <2> QED BY <1>6, <2>2, <2>3 DEF OnPage
<1>7. ASSUME NEW m \in reports, Settle(m) PROVE Agreed'
  BY <1>7, AgreedShown DEF Settle, FinishDelivery, Feedback
<1>8. CASE Shut
  BY <1>8 DEF Shut, NoPage, Agreed, Bound, Typed
<1>9. CASE Ends
  BY <1>9 DEF Ends, Idle, NoPage, Agreed, Bound, Feedback
<1> QED BY <1>1, <1>2, <1>3, <1>4, <1>5, <1>6, <1>7, <1>8, <1>9 DEF LifeStep

-----------------------------------------------------------------------------
\* Every step keeps the flag of run_scrolling() set for the task that scrolls.
LEMMA ExclusiveStep == ASSUME Typed, Exclusive, LifeStep PROVE Exclusive'
<1>0. ASSUME UNCHANGED <<runs, scrolling>> PROVE Exclusive'
  BY <1>0 DEF Exclusive
<1>1. ASSUME NEW r \in RunIds, runs[r].at # "scrolling", NEW task, task.at # "scrolling",
             runs' = [runs EXCEPT ![r] = task], UNCHANGED scrolling
      PROVE  Exclusive'
  <2> SUFFICES ASSUME NEW q \in RunIds PROVE runs'[q].at = "scrolling" <=> scrolling = q
    BY <1>1 DEF Exclusive
  <2>1. IF q = r THEN runs'[q] = task ELSE runs'[q] = runs[q]
    BY <1>1 DEF Typed
  <2> QED BY <1>1, <2>1 DEF Exclusive
<1>2. ASSUME NEW mode \in AllModes, NEW route \in Windows, Begin(mode, route) PROVE Exclusive'
  <2>1. CASE mode = "scrolling"
    BY <1>0, <1>2, <2>1 DEF Begin
  <2>2. CASE mode # "scrolling"
    <3> DEFINE task == [at |-> IF mode = "shot" THEN "shooting" ELSE "locating",
                        token |-> revision, mode |-> mode, route |-> route]
    <3>1. PICK r \in RunIds : runs[r].at = "none" /\ runs' = [runs EXCEPT ![r] = task]
      BY <1>2, <2>2 DEF Begin
    <3>2. task.at # "scrolling" /\ UNCHANGED scrolling
      BY <1>2 DEF Begin
    <3> HIDE DEF task
    <3> QED BY <1>1, <3>1, <3>2
  <2> QED BY <2>1, <2>2
<1>3. ASSUME NEW a \in asked, RunOverlay(a) PROVE Exclusive'
  <2>1. CASE UNCHANGED runs
    BY <1>0, <1>3, <2>1 DEF RunOverlay
  <2>2. CASE ~UNCHANGED runs
    <3> DEFINE task == [at |-> "starting", token |-> phase.token, mode |-> "scrolling", route |-> overlay.route]
    <3>1. PICK r \in RunIds : runs[r].at = "none" /\ runs' = [runs EXCEPT ![r] = task]
      BY <1>3, <2>2 DEF RunOverlay
    <3>2. task.at # "scrolling" /\ UNCHANGED scrolling
      BY <1>3 DEF RunOverlay
    <3> HIDE DEF task
    <3> QED BY <1>1, <3>1, <3>2
  <2> QED BY <2>1, <2>2
<1>4. ASSUME NEW r \in RunIds, Task(r) PROVE Exclusive'
  <2>1. ASSUME runs[r].at # "scrolling", UNCHANGED scrolling, End(r) \/ \E p \in {"starting", "taken"} : Goto(r, p)
        PROVE  Exclusive'
    <3>1. CASE End(r)
      BY <1>1, <2>1, <3>1 DEF End, NoRun
    <3>2. ASSUME NEW p \in {"starting", "taken"}, Goto(r, p) PROVE Exclusive'
      <4> DEFINE task == [runs[r] EXCEPT !.at = p]
      <4>1. task.at # "scrolling" /\ runs' = [runs EXCEPT ![r] = task]
        BY <3>2 DEF Goto, Typed, TaskRec
      <4> HIDE DEF task
      <4> QED BY <1>1, <2>1, <4>1
    <3> QED BY <2>1, <3>1, <3>2
  <2>2. CASE Locate(r) \/ Finish(r) \/ Shoot(r)
    <3>1. runs[r].at # "scrolling" /\ UNCHANGED scrolling
      BY <2>2 DEF Locate, Finish, Shoot
    <3>2. End(r) \/ \E p \in {"starting", "taken"} : Goto(r, p)
      BY <2>2 DEF Locate, Finish, Shoot, Deliver, Report
    <3> QED BY <2>1, <3>1, <3>2
  <2>3. CASE StartLoop(r)
    <3>1. CASE UNCHANGED scrolling /\ End(r)
      BY <2>1, <2>3, <3>1 DEF StartLoop
    <3>2. CASE ~AlreadyScrolling /\ scrolling' = r /\ Goto(r, "scrolling")
      <4>1. \A q \in RunIds : runs'[q].at = "scrolling" <=> q = r
        <5>1. \A q \in RunIds : runs[q].at # "scrolling"
          <6>1. \A q \in RunIds : q # 0
            BY CaptureConstants DEF RunIds
          <6> QED BY <3>2, <6>1 DEF AlreadyScrolling, Exclusive
        <5>2. runs'[r].at = "scrolling" /\ \A q \in RunIds \ {r} : runs'[q] = runs[q]
          BY <3>2 DEF Goto, Typed, TaskRec
        <5> QED BY <5>1, <5>2
      <4> QED BY <3>2, <4>1 DEF Exclusive
    <3> QED BY <2>3, <3>1, <3>2 DEF StartLoop, Report
  <2>4. CASE EndLoop(r)
    <3>1. runs[r].at = "scrolling" /\ scrolling = r /\ scrolling' = 0
      BY <2>4 DEF EndLoop, Exclusive
    <3>2. End(r) \/ Goto(r, "taken")
      BY <2>4 DEF EndLoop, Report
    <3>3. runs'[r].at # "scrolling" /\ \A q \in RunIds \ {r} : runs'[q] = runs[q]
      <4>1. CASE End(r)
        BY <4>1 DEF End, NoRun, Typed
      <4>2. CASE Goto(r, "taken")
        BY <4>2 DEF Goto, Typed, TaskRec
      <4> QED BY <3>2, <4>1, <4>2
    <3>4. \A q \in RunIds : q # 0
      BY CaptureConstants DEF RunIds
    <3> QED BY <3>1, <3>3, <3>4 DEF Exclusive
  <2> QED BY <1>4, <2>2, <2>3, <2>4 DEF Task
<1>5. CASE Ends
  <2>1. \A q \in RunIds : q # 0
    BY CaptureConstants DEF RunIds
  <2> QED BY <1>5, <2>1 DEF Ends, NoRun, Exclusive
<1>6. ASSUME \/ \E r \in Tokens : Expire(r)
             \/ Acknowledge \/ Shut
             \/ \E what \in {"run", "cancel"} : Gesture(what)
             \/ \E a \in asked : CancelOverlay(a)
             \/ \E w \in Windows : OnPage(w)
             \/ \E m \in reports : Settle(m)
      PROVE  Exclusive'
  <2>1. UNCHANGED <<runs, scrolling>>
    BY <1>6 DEF Expire, Acknowledge, Shut, Gesture, CancelOverlay, OnPage, Load, Work, Close, Settle
  <2> QED BY <1>0, <2>1
<1> QED BY <1>2, <1>3, <1>4, <1>5, <1>6 DEF LifeStep, OnOverlay

-----------------------------------------------------------------------------
\* Orderly behaviours

\* Nothing works for a capture.
Quiet == Lives = {} /\ overlay.token = Nobody /\ Delivering = {} /\ reports = {}

\* Whatever works for a capture, the icon shows one as active.
LEMMA QuietAtRest == ASSUME orderly, IconTells, Lone, phase.at # "active" PROVE Quiet /\ asked = {}
BY DEF IconTells, Lone, IsActive, Bound, Quiet, Lives, Delivering

\* Steps that leave all that works for captures as it is.
LEMMA OrderlySame ==
  ASSUME IconTells, Lone, UNCHANGED <<runs, overlay, page, reports, asked, orderly>>,
         phase' = phase \/ (orderly => phase.at # "active")
  PROVE  IconTells' /\ Lone'
<1>1. Lives' = Lives /\ Delivering' = Delivering
  BY DEF Lives, Delivering
<1>2. CASE phase' = phase
  BY <1>1, <1>2 DEF IconTells, Lone, IsActive, Bound
<1>3. CASE ~orderly
  BY <1>3 DEF IconTells, Lone
<1>4. CASE orderly /\ phase.at # "active"
  <2>1. Quiet' /\ asked' = {}
    BY <1>1, <1>4, QuietAtRest DEF Quiet
  <2> QED BY <2>1 DEF Quiet, Lives, Delivering, IconTells, Lone
<1> QED BY <1>2, <1>3, <1>4

\* Nothing works any more.
LEMMA OrderlyEnd == ASSUME Quiet', asked' = {} PROVE IconTells' /\ Lone'
BY DEF Quiet, Lives, Delivering, IconTells, Lone

\* A page opens or delivers, and nothing else works.
LEMMA OrderlyPage ==
  ASSUME NEW w \in Windows, Delivering' \subseteq {w}, Lives' = {}, overlay'.token = Nobody, asked' = {},
         reports' = {}, page'[w].at \in {"loading", "working"} => Bound(page[w].session)'
  PROVE  IconTells' /\ Lone'
BY DEF Lives, Delivering, IconTells, Lone, Bound

\* In an orderly behaviour, every step leaves the icon telling what works, one thing at a time.
LEMMA OrderlyStep == ASSUME Typed, IconTells, Lone, LifeStep PROVE IconTells' /\ Lone'
<1> SUFFICES ASSUME orderly, orderly' PROVE IconTells' /\ Lone'
  <2>1. orderly' = orderly
    BY DEF LifeStep, Expire, Acknowledge, Begin, OnOverlay, Gesture, RunOverlay, CancelOverlay,
           Task, Locate, StartLoop, EndLoop, Finish, Shoot, OnPage, Load, Work, Close, Settle, Shut, Ends
  <2>2. orderly' \in BOOLEAN
    BY <2>1 DEF Typed
  <2> QED BY <2>1, <2>2 DEF IconTells, Lone
<1>1. ASSUME NEW r \in Tokens, Expire(r) PROVE IconTells' /\ Lone'
  <2>1. phase' = phase \/ phase.at # "active"
    BY <1>1 DEF Expire, IsShown, Feedback
  <2> QED BY <1>1, <2>1, OrderlySame DEF Expire
<1>2. CASE Acknowledge
  BY <1>2, OrderlySame DEF Acknowledge, Same
<1>3. ASSUME NEW mode \in AllModes, NEW route \in Windows, Begin(mode, route) PROVE IconTells' /\ Lone'
  <2>1. Quiet /\ asked = {} /\ asked' = {} /\ page' = page /\ reports' = {}
    BY <1>3, QuietAtRest DEF Begin, Quiet
  <2>2. Delivering' = {}
    BY <2>1 DEF Quiet, Delivering
  <2>3. CASE mode = "scrolling"
    <3>1. runs' = runs /\ Lives' = {}
      BY <1>3, <2>1, <2>3 DEF Begin, Quiet, Lives
    <3>2. overlay'.token # Nobody => IsActive(overlay.token)'
      BY <1>3, <2>3 DEF Begin, NoOverlay, Active, IsActive
    <3> QED BY <2>1, <2>2, <3>1, <3>2 DEF Lives, Delivering, IconTells, Lone
  <2>4. CASE mode # "scrolling"
    <3> DEFINE task == [at |-> IF mode = "shot" THEN "shooting" ELSE "locating",
                        token |-> revision, mode |-> mode, route |-> route]
    <3>1. PICK r \in RunIds : runs[r].at = "none" /\ runs' = [runs EXCEPT ![r] = task]
      BY <1>3, <2>4 DEF Begin
    <3>2. task.token = revision /\ task.at # "none" /\ phase' = Active(revision, 0) /\ overlay' = overlay
      BY <1>3, <2>4 DEF Begin
    <3> HIDE DEF task
    <3>3. Lives' = {r} /\ runs'[r] = task
      BY <2>1, <3>1, <3>2, MoreLives DEF Quiet, Typed
    <3>4. \A q \in RunIds : runs'[q].at # "none" => IsActive(runs[q].token)'
      BY <3>2, <3>3 DEF Lives, IsActive, Active
    <3> QED BY <2>1, <2>2, <3>2, <3>3, <3>4 DEF Quiet, Delivering, IconTells, Lone
  <2> QED BY <2>3, <2>4
<1>4. ASSUME NEW what \in {"run", "cancel"}, Gesture(what) PROVE IconTells' /\ Lone'
  <2>1. asked = {}
    <3>1. SUFFICES ASSUME asked # {} PROVE FALSE
      OBVIOUS
    <3>2. PICK a \in asked : asked = {a}
      BY <3>1 DEF Lone
    <3>3. Cardinality(asked) = 1
      BY <3>2, FS_Singleton
    <3> QED BY <1>4, <3>3 DEF Gesture
  <2>2. \A a, b \in asked' : a = b
    BY <1>4, <2>1 DEF Gesture
  <2>3. Lives' = Lives /\ Delivering' = Delivering
    BY <1>4 DEF Gesture, Lives, Delivering
  <2>4. UNCHANGED <<phase, runs, overlay, page, reports>> /\ overlay.token # Nobody
    BY <1>4 DEF Gesture
  <2>5. IconTells'
    BY <2>4 DEF IconTells, IsActive, Bound
  <2> QED BY <2>2, <2>3, <2>4, <2>5 DEF Lone
<1>5. ASSUME NEW a \in asked, RunOverlay(a) PROVE IconTells' /\ Lone'
  <2>1. overlay.token # Nobody /\ Lives = {} /\ Delivering = {} /\ reports = {} /\ asked' = {} /\ IsActive(overlay.token)
    BY <1>5 DEF RunOverlay, Lone, IconTells
  <2> DEFINE task == [at |-> "starting", token |-> phase.token, mode |-> "scrolling", route |-> overlay.route]
  <2>2. PICK r \in RunIds : runs[r].at = "none" /\ runs' = [runs EXCEPT ![r] = task]
    BY <1>5, <2>1 DEF RunOverlay, IsActive
  <2>3. task.token = phase.token /\ task.at # "none" /\ phase' = phase /\ overlay' = NoOverlay /\ page' = page /\ reports' = {}
    BY <1>5, <2>1 DEF RunOverlay, IsActive, CloseOverlay
  <2> HIDE DEF task
  <2>4. Lives' = {r} /\ runs'[r] = task
    BY <2>1, <2>2, <2>3, MoreLives DEF Typed
  <2>5. Delivering' = {}
    BY <2>1, <2>3 DEF Delivering
  <2>6. \A q \in RunIds : runs'[q].at # "none" => IsActive(runs[q].token)'
    BY <2>1, <2>3, <2>4 DEF Lives, IsActive
  <2> QED BY <2>1, <2>3, <2>4, <2>5, <2>6 DEF NoOverlay, Delivering, IconTells, Lone
<1>6. ASSUME NEW a \in asked, CancelOverlay(a) PROVE IconTells' /\ Lone'
  <2>1. Lives = {} /\ Delivering = {} /\ reports = {} /\ asked' = {}
    BY <1>6 DEF CancelOverlay, Lone
  <2>2. Quiet'
    BY <1>6, <2>1 DEF CancelOverlay, CloseOverlay, NoOverlay, Quiet, Lives, Delivering
  <2> QED BY <2>1, <2>2, OrderlyEnd
<1>7. ASSUME NEW r \in RunIds, Task(r) PROVE IconTells' /\ Lone'
  <2>0. /\ Lives = {r} /\ overlay.token = Nobody /\ Delivering = {} /\ reports = {} /\ asked = {} /\ IsActive(runs[r].token)
        /\ overlay' = overlay /\ asked' = {} /\ reports' = {}
    BY <1>7, TaskMoves DEF Lone, IconTells, Lives
  <2>1. CASE Plain(r)
    <3>1. page' = page /\ phase' = phase /\ Delivering' = {}
      BY <2>0, <2>1 DEF Plain, Same, Delivering
    <3>2. Lives' \subseteq {r} /\ \A q \in Lives' : runs'[q].token = runs[q].token
      <4>1. CASE End(r)
        BY <2>0, <4>1, Ended
      <4>2. ASSUME NEW p \in {"starting", "scrolling", "taken"}, Goto(r, p) PROVE Lives' = {r} /\ runs'[r].token = runs[r].token
        BY <2>0, <4>2, GoneOn
      <4> QED BY <2>1, <4>1, <4>2 DEF Plain
    <3>3. \A q \in RunIds : runs'[q].at # "none" => IsActive(runs[q].token)'
      BY <2>0, <3>1, <3>2 DEF Lives, IsActive
    <3> QED BY <2>0, <3>1, <3>2, <3>3 DEF Delivering, IconTells, Lone
  <2>2. CASE Fails(r)
    <3>1. Quiet'
      BY <2>0, <2>2, Ended DEF Fails, Quiet, Delivering
    <3> QED BY <2>0, <3>1, OrderlyEnd
  <2>3. CASE Opens(r)
    <3>1. Lives' = {} /\ runs[r].route \in Windows
      BY <2>0, <2>3, Ended DEF Opens, Typed, TaskRec
    <3>2. PICK w \in Windows : w = runs[r].route
      BY <3>1
    <3>3. /\ page' = [page EXCEPT ![w] = [at |-> "loading", session |-> sessions', token |-> runs[r].token]]
          /\ phase' = Active(runs[r].token, sessions')
      BY <2>3, <3>2 DEF Opens, Bind, Replace
    <3>4. page'[w].session = sessions' /\ \A v \in Windows \ {w} : page'[v] = page[v]
      BY <3>3 DEF Typed
    <3>5. Delivering' \subseteq {w}
      BY <2>0, <3>4 DEF Delivering
    <3>6. Bound(page[w].session)'
      BY <3>3, <3>4 DEF Active, Bound
    <3> QED BY <2>0, <3>1, <3>5, <3>6, OrderlyPage
  <2> QED BY <1>7, <2>1, <2>2, <2>3, TaskMoves
<1>8. ASSUME NEW w \in Windows, OnPage(w) PROVE IconTells' /\ Lone'
  <2>0. /\ Delivering = {w} /\ Lives = {} /\ overlay.token = Nobody /\ reports = {} /\ asked = {} /\ Bound(page[w].session)
        /\ UNCHANGED <<phase, runs, overlay, asked>> /\ Lives' = {}
    <3>1. page[w].at \in {"loading", "working"} /\ UNCHANGED <<phase, runs, overlay, asked>>
      BY <1>8 DEF OnPage, Load, Work, Close
    <3>2. w \in Delivering /\ Delivering = {w}
      BY <3>1 DEF Delivering, Lone
    <3>3. Lives = {} /\ overlay.token = Nobody /\ reports = {} /\ asked = {} /\ Bound(page[w].session)
      BY <3>1, <3>2 DEF Lone, IconTells
    <3>4. Lives' = Lives
      BY <3>1 DEF Lives
    <3> QED BY <3>1, <3>2, <3>3, <3>4
  <2>1. CASE reports' = reports
    <3>1. page' = [page EXCEPT ![w].at = "working"]
      BY <1>8, <2>0, <2>1 DEF OnPage, Load, Work, Close, Reporting
    <3>2. Delivering' \subseteq {w} /\ page'[w].session = page[w].session
      BY <2>0, <3>1 DEF Delivering, Typed, PageRec
    <3> QED BY <2>0, <2>1, <3>2, OrderlyPage DEF Bound
  <2>2. CASE reports' # reports
    <3>1. page' = [page EXCEPT ![w].at = "done"] /\ \E ok \in BOOLEAN : Reporting(w, ok)
      BY <1>8, <2>0, <2>2 DEF OnPage, Load, Work, Close
    <3>2. Delivering' = {}
      BY <2>0, <3>1 DEF Delivering, Typed, PageRec
    <3>3. PICK m : reports' = {m} /\ m.session = page[w].session
      <4>1. PICK ok \in BOOLEAN : Reporting(w, ok)
        BY <3>1
      <4> DEFINE n == [session |-> page[w].session, token |-> page[w].token, ok |-> ok]
      <4>2. reports' = {n} /\ n.session = page[w].session
        BY <2>0, <4>1 DEF Reporting
      <4> HIDE DEF n
      <4> QED BY <4>2
    <3>4. Bound(m.session)'
      BY <2>0, <3>3 DEF Bound
    <3> QED BY <2>0, <3>2, <3>3, <3>4 DEF Lives, Delivering, IconTells, Lone, Bound
  <2> QED BY <2>1, <2>2
<1>9. ASSUME NEW m \in reports, Settle(m) PROVE IconTells' /\ Lone'
  <2>1. reports' = {} /\ Lives = {} /\ overlay.token = Nobody /\ Delivering = {} /\ asked = {}
    BY <1>9 DEF Settle, Lone
  <2>2. Quiet' /\ asked' = {}
    BY <1>9, <2>1 DEF Settle, Quiet, Lives, Delivering
  <2> QED BY <2>2, OrderlyEnd
<1>10. CASE Shut
  <2>1. Lives' = Lives /\ Delivering' \subseteq Delivering /\ \A w \in Windows : page'[w].at \in {"loading", "working"} => page'[w] = page[w]
    BY <1>10 DEF Shut, NoPage, Lives, Delivering, Typed
  <2>2. IconTells'
    BY <1>10, <2>1 DEF Shut, IconTells, IsActive, Bound
  <2>3. Lone'
    BY <1>10, <2>1 DEF Shut, Lone
  <2> QED BY <2>2, <2>3
<1>11. CASE Ends
  <2>1. Quiet' /\ asked' = {}
    BY <1>11 DEF Ends, NoRun, NoOverlay, NoPage, Quiet, Lives, Delivering
  <2> QED BY <2>1, OrderlyEnd
<1> QED BY <1>1, <1>2, <1>3, <1>4, <1>5, <1>6, <1>7, <1>8, <1>9, <1>10, <1>11 DEF LifeStep, OnOverlay

-----------------------------------------------------------------------------
\* The inductive invariant of the lifecycle holds at first, ...
LEMMA LifeBegins == ASSUME SessionInit PROVE LifeInd
<1>1. Init
  BY DEF SessionInit
<1> USE <1>1 DEF Init, Idle, NoRun, NoOverlay, NoPage, Nobody
<1>2. Typed
  <2>1. Before = {0} /\ Handed = {0}
    BY DEF Before, Handed
  <2> QED BY <2>1 DEF Typed, PhaseRec, ResultRec, TaskRec, OverlayRec, GestureRec, PageRec, ReportRec, AllModes, Windows, Feedback
<1>3. Lives = {} /\ Delivering = {} /\ overlay.token = Nobody /\ phase.at = "idle" /\ overlay.token = 0
  BY DEF Lives, Delivering
<1>4. Counted
  <2>1. Cardinality(Lives) = 0
    BY <1>3, FS_EmptySet
  <2> QED BY <1>3, <2>1, CaptureConstants DEF Counted
<1>5. Agreed
  BY DEF Agreed, Feedback
<1>6. Exclusive
  <2>1. \A r \in RunIds : r # 0
    BY CaptureConstants DEF RunIds
  <2> QED BY <2>1 DEF Exclusive
<1>7. IconTells /\ Lone
  BY <1>3 DEF IconTells, Lone
<1> QED BY <1>2, <1>4, <1>5, <1>6, <1>7 DEF LifeInd

\* ... and every step keeps it.
LEMMA LifeGoesOn == ASSUME LifeInd, [SessionNext]_sessionVars PROVE LifeInd'
<1>1. CASE LifeStep
  BY <1>1, TypedStep, CountedStep, AgreedStep, ExclusiveStep, OrderlyStep DEF LifeInd
<1>2. CASE UNCHANGED vars
  <2>1. Typed' /\ Lives' = Lives /\ Delivering' = Delivering
    BY <1>2, TypedStep DEF LifeInd, vars, Lives, Delivering
  <2>2. Counted' /\ Agreed' /\ Exclusive'
    BY <1>2, <2>1 DEF LifeInd, vars, Counted, Agreed, Exclusive, Bound
  <2>3. IconTells' /\ Lone'
    BY <1>2, OrderlySame DEF LifeInd, vars
  <2> QED BY <2>1, <2>2, <2>3 DEF LifeInd
<1> QED BY <1>1, <1>2, StepOfLife

\* It bounds the revisions and sessions of TLC's instance.
LEMMA LifeBounds == ASSUME LifeInd PROVE Sound
<1>1. Before \subseteq Tokens /\ Handed \subseteq Sessions
  <2>1. /\ revision \in Nat /\ sessions \in Nat /\ begun \in Nat /\ acks \in Nat /\ Tally \in Nat
        /\ Busied \in Nat /\ Open \in Nat /\ MaxCaptures \in Nat /\ MaxAcks \in Nat
        /\ begun <= MaxCaptures /\ acks <= MaxAcks
    BY LivesFinite, CaptureConstants DEF LifeInd, Typed, Counted, Tally, Busied, Open
  <2>2. revision + Busied <= 1 + 2 * begun + acks /\ sessions + Tally + Open <= begun
    BY DEF LifeInd, Counted, Tally, Busied, Open
  <2>3. revision <= 1 + 2 * MaxCaptures + MaxAcks
    <3>1. revision <= 1 + 2 * begun + acks
      <4>1. ASSUME NEW a \in Nat, NEW b \in Nat, NEW c \in Nat, a + b <= c PROVE a <= c
        BY <4>1
      <4> QED BY <2>1, <2>2, <4>1
    <3> QED BY <2>1, <3>1
  <2>4. sessions <= MaxCaptures
    <3>1. ASSUME NEW a \in Nat, NEW b \in Nat, NEW c \in Nat, NEW d \in Nat, a + b + c <= d PROVE a <= d
      BY <3>1
    <3>2. sessions <= begun
      BY <2>1, <2>2, <3>1
    <3> QED BY <2>1, <3>2
  <2> QED BY <2>1, <2>3, <2>4 DEF Before, Handed, Tokens, Sessions
<1>2. /\ PhaseRec \subseteq [at : {"idle", "active"} \cup Feedback, token : Tokens, session : Sessions]
      /\ ResultRec \subseteq [session : Sessions, route : Windows, token : Tokens]
  BY <1>1 DEF PhaseRec, ResultRec
<1>3. TaskRec \subseteq [at : {"none", "shooting", "locating", "starting", "scrolling", "taken"},
                         token : Tokens, mode : AllModes, route : Windows]
  BY <1>1 DEF TaskRec
<1>4. OverlayRec \subseteq [token : Tokens, route : Windows] /\ GestureRec \subseteq [what : {"run", "cancel"}, token : Tokens]
  BY <1>1 DEF OverlayRec, GestureRec
<1>5. PageRec \subseteq [at : {"none", "loading", "working", "done"}, session : Sessions, token : Tokens]
  BY <1>1 DEF PageRec
<1>6. ReportRec \subseteq [session : Sessions, token : Tokens, ok : BOOLEAN]
  BY <1>1 DEF ReportRec
<1>7. TypeOK
  <2>1. /\ revision \in Nat /\ begun \in Nat /\ acks \in Nat /\ acting \in Tokens /\ orderly \in BOOLEAN
        /\ timers \subseteq Tokens /\ sessions \in Sessions /\ scrolling \in {0} \cup RunIds
    BY <1>1 DEF LifeInd, Typed, Handed
  <2>2. /\ phase \in [at : {"idle", "active"} \cup Feedback, token : Tokens, session : Sessions]
        /\ pending \subseteq [session : Sessions, route : Windows, token : Tokens]
    BY <1>2 DEF LifeInd, Typed
  <2>3. runs \in [RunIds -> [at : {"none", "shooting", "locating", "starting", "scrolling", "taken"},
                            token : Tokens, mode : AllModes, route : Windows]]
    BY <1>3 DEF LifeInd, Typed
  <2>4. /\ overlay \in [token : Tokens, route : Windows] /\ asked \subseteq [what : {"run", "cancel"}, token : Tokens]
        /\ page \in [Windows -> [at : {"none", "loading", "working", "done"}, session : Sessions, token : Tokens]]
        /\ reports \subseteq [session : Sessions, token : Tokens, ok : BOOLEAN]
    BY <1>4, <1>5, <1>6 DEF LifeInd, Typed
  <2> QED BY <2>1, <2>2, <2>3, <2>4 DEF TypeOK
<1> QED BY <1>7 DEF LifeInd, Sound

\* The lifecycle is sound in every session: one scrolling capture at a time, and, where
\* pages report before they are closed, an icon that tells what works (begin(), complete(),
\* finish_delivery(), run_scrolling()).
THEOREM LifecycleSound == SessionSpec => [](LifeInd /\ Sound)
<1>1. SessionInit => LifeInd
  BY LifeBegins
<1>2. LifeInd /\ [SessionNext]_sessionVars => LifeInd'
  BY LifeGoesOn
<1>3. LifeInd => Sound
  BY LifeBounds
<1> QED BY <1>1, <1>2, <1>3, PTL DEF SessionSpec

\* What one step may show, and take away.
HonestStep ==
  /\ (phase.at = "active" /\ phase'.at \in Feedback => acting' = phase.token)
  /\ (phase.at \in Feedback /\ phase'.at = "idle" => phase.token \in timers \ timers')

\* A step is honest.
LEMMA StepIsHonest == ASSUME LifeInd, [SessionNext]_sessionVars PROVE HonestStep \/ UNCHANGED vars
<1>0. ASSUME phase' = phase PROVE HonestStep
  BY <1>0 DEF HonestStep, Feedback
<1>1. ASSUME NEW r \in Tokens, Expire(r) PROVE HonestStep
  BY <1>1 DEF Expire, IsShown, Idle, HonestStep, Feedback
<1>2. CASE Acknowledge
  BY <1>2 DEF Acknowledge, Same, Show, Shows, HonestStep, Feedback
<1>3. ASSUME NEW mode \in AllModes, NEW route \in Windows, Begin(mode, route) PROVE HonestStep
  BY <1>3 DEF Begin, Active, HonestStep, Feedback
<1>4. CASE OnOverlay
  BY <1>4 DEF OnOverlay, Gesture, RunOverlay, CancelOverlay, CancelCurrent, Idle, HonestStep, Feedback
<1>5. ASSUME NEW r \in RunIds, Task(r) PROVE HonestStep
  BY <1>5, TaskMoves DEF Plain, Fails, Opens, Same, Show, Shows, Bind, Active, IsActive, HonestStep, Feedback
<1>6. ASSUME NEW w \in Windows, OnPage(w) PROVE HonestStep
  BY <1>0, <1>6 DEF OnPage, Load, Work, Close
<1>7. ASSUME NEW m \in reports, Settle(m) PROVE HonestStep
  <2>1. acting' = m.token /\ (Bound(m.session) => m.token = phase.token)
    BY <1>7 DEF Settle, LifeInd, Agreed
  <2> QED BY <1>7, <2>1 DEF Settle, FinishDelivery, Bound, Same, Show, Shows, HonestStep, Feedback
<1>8. CASE Shut
  BY <1>0, <1>8 DEF Shut
<1>9. CASE Ends
  BY <1>9 DEF Ends, Idle, HonestStep, Feedback, LifeInd, Agreed
<1> QED BY <1>1, <1>2, <1>3, <1>4, <1>5, <1>6, <1>7, <1>8, <1>9, StepOfLife DEF LifeStep

\* No capture is settled by the late report of an older page or the late failure of an
\* older task, and what is shown goes away with its own timer (finish_delivery(), fail(),
\* expire()).
THEOREM FeedbackIsHonest == SessionSpec => FeedbackHonest
<1>1. LifeInd /\ [SessionNext]_sessionVars => HonestStep \/ UNCHANGED vars
  BY StepIsHonest
<1>2. SessionSpec => []LifeInd /\ [][SessionNext]_sessionVars
  BY LifecycleSound, PTL DEF SessionSpec
<1> QED BY <1>1, <1>2, PTL DEF FeedbackHonest, HonestStep

-----------------------------------------------------------------------------
\* The history

\* The captures on their way into the history: what pages encode, and what they have sent.
Update == {"meta", "content"}
Saving(e) == e.do = "save"
OnWay == encoding \cup {calls[n] : n \in DOMAIN calls}
Whole == Kept(store) \ torn

\* What is stored: a row was captured at a time and has an id that was given; a row that no
\* command was cut short at has the picture that it says in both of its images, and no image
\* is there without a row.
Stocked ==
  /\ Kept(store) \subseteq 1..given /\ torn \subseteq 1..given
  /\ \A i \in Kept(store) : store.rows[i].time # 0
  /\ \A i \in Ids \ torn, f \in Images :
       IF i \in Kept(store) THEN store[f][i] = store.rows[i].of /\ store[f][i] # Nothing ELSE store[f][i] = Nothing

\* What pages show: a capture, at a version of its picture and note that was made.
ShownDoc(w) ==
  IF ~doc[w].open THEN doc[w] = NoDoc
  ELSE /\ doc[w].time # 0 /\ doc[w].content \in 0..deeds /\ doc[w].note \in Nothing..deeds
       /\ doc[w].id \in 0..given /\ doc[w].told \in Nothing..deeds
       /\ "content" \in doc[w].owes => doc[w].content # 0

\* What is on its way: a message of a page with what it showed, or one from the list.
SentFor(e) ==
  /\ e.id \in 0..given /\ e.stamp <= deeds
  /\ e.do \in {"save"} \cup Update => e.stamp = Larger(e.content, e.note) /\ e.content >= 0
  /\ Saving(e) => e.page \in Windows /\ e.time # 0 /\ e.id = 0
  /\ e.do \in Update \cup {"delete"} => e.id # 0
  /\ e.do \in Update => e.page \in Pages
  /\ e.do = "content" => e.content # 0

Papers ==
  /\ \A w \in Pages : ShownDoc(w)
  /\ \A e \in OnWay : SentFor(e)
  /\ \A e \in encoding :
       e.do \in {"save", "content"} /\ e.page \in Pages /\ doc[e.page].open /\ doc[e.page].time = e.time
  /\ \A i \in Ids : store.rows[i].note <= deeds /\ \A f \in Images : store[f][i] <= deeds

\* A capture is in the history, or on its way there, once.
Unused(t) ==
  /\ \A i \in Whole : store.rows[i].time # t
  /\ \A e \in OnWay : Saving(e) => e.time # t

OnceEach ==
  /\ Once
  /\ \A e \in OnWay : Saving(e) => \A i \in Whole : store.rows[i].time # e.time
  /\ \A e, f \in encoding : Saving(e) /\ Saving(f) /\ e.time = f.time => e = f
  /\ \A m, n \in DOMAIN calls : Saving(calls[m]) /\ Saving(calls[n]) /\ calls[m].time = calls[n].time => m = n
  /\ \A e \in encoding, n \in DOMAIN calls : Saving(e) /\ Saving(calls[n]) => e.time # calls[n].time

\* And the page that has it knows.
Known ==
  \A w \in Windows : doc[w].open =>
    /\ doc[w].saver \in {"no", "failed"} => Unused(doc[w].time)
    /\ doc[w].saver # "saved" => doc[w].id = 0
    /\ \A e \in OnWay : Saving(e) /\ e.time = doc[w].time => e.page = w /\ doc[w].saver = "saving"

\* Where the history is looked at closely: captures go by the revisions they began with, each
\* is with one task or one page, and not in the history before its page has it.
Apart ==
  /\ \A r \in Lives : runs[r].at = "shooting" /\ runs[r].token # 0 /\ Unused(runs[r].token)
  /\ \A q, r \in Lives : q = r
  /\ \A w \in Windows : page[w].at = "none" => page[w].token = 0
  /\ \A w \in Windows : page[w].at # "none" =>
       /\ page[w].token # 0
       /\ page[w].at = "loading" => Unused(page[w].token)
       /\ \A v \in Windows \ {w} : page[v].token # page[w].token
       /\ \A r \in Lives : runs[r].token # page[w].token
  /\ \A w \in Windows : doc[w].open => page[w].at \in {"working", "done"} /\ page[w].token = doc[w].time
  /\ \A e \in OnWay : Saving(e) => e.time < revision
  /\ \A i \in Kept(store) : store.rows[i].time < revision
Linked == closely => Apart

\* The caps, and what was evicted.
Untouched(s) == {i \in Kept(s) : s.rows[i].of = 0}
CapsKept ==
  torn = {} => /\ Cardinality(Kept(store)) <= limit.count
               /\ Bytes(store, Untouched(store)) <= limit.bytes
OldestGone ==
  torn = {} /\ evicted # {} => \E i \in Kept(store) : \A t \in evicted : store.rows[i].time >= t

\* The edits of the row of a page that are on their way from it.
Edits(w) == {e \in OnWay : e.do \in Update /\ e.page = w /\ e.id = doc[w].id}

\* The note, and the picture, of a page is in its row, or on its way there and nothing that
\* differs can overtake it unnoticed.
NoteComes(w) ==
  \/ "meta" \in doc[w].owes
  \/ \E e \in Edits(w) : e.note = doc[w].note
  \/ /\ store.rows[doc[w].id].note = doc[w].note
     /\ \A e \in Edits(w) : e.note = doc[w].note \/ e.stamp < doc[w].told
PictureComes(w) ==
  \/ "content" \in doc[w].owes
  \/ \E e \in Edits(w) : e.do = "content" /\ e.content = doc[w].content
  \/ /\ store.rows[doc[w].id].of = doc[w].content
     /\ \A e \in Edits(w) : e.do = "content" => e.content = doc[w].content \/ e.stamp < doc[w].told

\* An edit on its way is of the capture the page shows, and older than what it differs in.
EditsOlder ==
  \A w \in Pages : doc[w].open => \A e \in Edits(w) :
    /\ e.time = doc[w].time
    /\ e.note # doc[w].note => e.stamp < doc[w].note
    /\ e.content # doc[w].content => e.stamp < doc[w].content

Pushed ==
  \A w \in Pages \ behind : doc[w].open /\ doc[w].id \in Whole => NoteComes(w) /\ PictureComes(w)

\* A save on its way takes what the page shows now, or the page will push it, or is behind.
SnapshotsGood ==
  \A w \in Windows \ behind : doc[w].open => \A e \in OnWay :
    Saving(e) /\ e.time = doc[w].time =>
      /\ e.note = doc[w].note \/ "meta" \in doc[w].owes
      /\ e.content = doc[w].content \/ "content" \in doc[w].owes

HistInd ==
  /\ HistoryTypeOK /\ Stocked /\ Papers /\ OnceEach /\ Known /\ Linked
  /\ CapsKept /\ OldestGone /\ EditsOlder /\ Pushed /\ SnapshotsGood

\* A set of numbers has a smallest one.
LEMMA Smallest ==
  ASSUME NEW T, T \subseteq Nat, T # {} PROVE \E x \in T : \A y \in T : x <= y
<1> DEFINE S == {0..x : x \in T}
<1>1. IsWellFoundedOn(StrictSubsetOrdering(Nat), FiniteSubsetsOf(Nat))
  BY FS_StrictSubsetOrderingWellFounded
<1>2. S # {}
  OBVIOUS
<1>3. S \subseteq FiniteSubsetsOf(Nat)
  <2> SUFFICES ASSUME NEW x \in T PROVE 0..x \in FiniteSubsetsOf(Nat)
    OBVIOUS
  <2>1. IsFiniteSet(0..x) /\ 0..x \in SUBSET Nat
    BY FS_Interval
  <2> QED BY <2>1 DEF FiniteSubsetsOf
<1>4. PICK s \in S : \A r \in S : ~(<<r, s>> \in StrictSubsetOrdering(Nat))
  <2> HIDE DEF S
  <2> QED BY <1>1, <1>2, <1>3, WFMin
<1>5. PICK x \in T : s = 0..x
  OBVIOUS
<1>6. ASSUME NEW y \in T, ~(x <= y) PROVE FALSE
  <2>1. 0..y \in S
    OBVIOUS
  <2>2. 0..y \subseteq 0..x /\ x \in 0..x /\ x \notin 0..y /\ 0..x \subseteq Nat
    BY <1>6
  <2>3. <<0..y, s>> \in StrictSubsetOrdering(Nat)
    <3>1. 0..y # s /\ 0..y \subseteq s /\ 0..y \in SUBSET Nat /\ s \in SUBSET Nat
      BY <2>2, <1>5
    <3> HIDE DEF S
    <3> QED BY <3>1 DEF StrictSubsetOrdering
  <2> QED BY <1>4, <2>1, <2>3
<1> QED BY <1>6

\* What lists members of a set is a sequence of them.
LEMMA ListIsSeq == ASSUME NEW S, NEW n \in Nat, NEW q \in [1..n -> S] PROVE q \in Seq(S) /\ DOMAIN q = 1..n
<1>1. [1..n -> S] \in {[1..m -> S] : m \in Nat}
  OBVIOUS
<1> QED BY <1>1, SeqDef

-----------------------------------------------------------------------------
\* The steps of commands

\* A set of numbers with a bound has a largest one.
LEMMA Largest ==
  ASSUME NEW n \in Nat, NEW S, S \subseteq 1..n, S # {} PROVE LastOf(S) \in S /\ \A m \in S : m <= LastOf(S)
<1> DEFINE T == {n - m : m \in S}
<1>1. T \subseteq Nat /\ T # {}
  <2>1. \A m \in S : m \in 1..n
    OBVIOUS
  <2>2. \A m \in S : n - m \in Nat
    BY <2>1
  <2> QED BY <2>2
<1>2. PICK x \in T : \A y \in T : x <= y
  BY <1>1, Smallest
<1>3. PICK k \in S : x = n - k
  OBVIOUS
<1>4. \A m \in S : m <= k
  <2> SUFFICES ASSUME NEW m \in S PROVE m <= k
    OBVIOUS
  <2>1. n - k <= n - m
    BY <1>2, <1>3
  <2> QED BY <2>1
<1>5. \E k2 \in S : \A m \in S : m <= k2
  BY <1>4
<1> QED BY <1>5 DEF LastOf

\* What a table holds where nothing was put, and where all that was put is one thing.
LEMMA AfterAt ==
  ASSUME NEW s, NEW steps, NEW k \in Nat, NEW f \in Tables, NEW i \in Ids
  PROVE  /\ Puts(steps, k, f, i) = {} => After(s, steps, k)[f][i] = s[f][i]
         /\ \A v : Puts(steps, k, f, i) # {} /\ (\A n \in Puts(steps, k, f, i) : steps[n].what = v)
                     => After(s, steps, k)[f][i] = v
         /\ Puts(steps, k, f, i) # {} =>
              \E n \in Puts(steps, k, f, i) :
                 /\ After(s, steps, k)[f][i] = steps[n].what
                 /\ \A m \in Puts(steps, k, f, i) : m <= n
<1> DEFINE S == Puts(steps, k, f, i)
<1>1. After(s, steps, k)[f][i] = IF S = {} THEN s[f][i] ELSE steps[LastOf(S)].what
  BY DEF After
<1>2. S # {} => LastOf(S) \in S /\ \A m \in S : m <= LastOf(S)
  <2>1. S \subseteq 1..k
    BY DEF Puts
  <2> HIDE DEF S
  <2> QED BY <2>1, Largest
<1> HIDE DEF S
<1>3. S # {} => After(s, steps, k)[f][i] = steps[LastOf(S)].what
  BY <1>1
<1> QED BY <1>1, <1>2, <1>3 DEF S

\* Where no step goes, nothing changes.
LEMMA AfterElsewhere ==
  ASSUME NEW s, NEW steps, NEW k \in Nat, k <= Len(steps), DOMAIN steps = 1..Len(steps), Len(steps) \in Nat,
         NEW f \in Tables, NEW i \in Ids, i \notin Touched(steps)
  PROVE  After(s, steps, k)[f][i] = s[f][i]
<1>1. Puts(steps, k, f, i) = {}
  BY DEF Puts, Touched
<1> QED BY <1>1, AfterAt

\* Whatever the steps done, a table holds what it did or what one of them puts.
LEMMA AfterAny ==
  ASSUME NEW s, NEW steps, NEW k \in Nat, NEW f \in Tables, NEW i \in Ids
  PROVE  \/ After(s, steps, k)[f][i] = s[f][i]
         \/ \E n \in 1..k : steps[n].in = f /\ i \in steps[n].ids /\ After(s, steps, k)[f][i] = steps[n].what
<1>1. CASE Puts(steps, k, f, i) = {}
  BY <1>1, AfterAt
<1>2. CASE Puts(steps, k, f, i) # {}
  BY <1>2, AfterAt DEF Puts
<1> QED BY <1>1, <1>2

\* After some steps there are the same tables, of the same ids.
LEMMA AfterTables ==
  ASSUME NEW s, NEW steps, NEW k
  PROVE  /\ DOMAIN After(s, steps, k) = Tables
         /\ \A f \in Tables : DOMAIN After(s, steps, k)[f] = Ids /\ After(s, steps, k)[f] = [i \in Ids |-> After(s, steps, k)[f][i]]
BY DEF After

-----------------------------------------------------------------------------
\* What a command makes of an id: nothing, or it removes what is there, ...
SameAt(i) == \A f \in Tables : store'[f][i] = store[f][i]
GoneAt(i) == store'.rows[i] = NoRow /\ \A f \in Images : store'[f][i] = Nothing
\* ... or it inserts a capture, or edits a row.
RowOf(m) == [time |-> m.time, weight |-> m.weight, of |-> m.content, note |-> m.note]
EditOf(m) ==
  [store.rows[m.id] EXCEPT !.note = m.note, !.of = IF m.do = "content" THEN m.content ELSE @,
                           !.weight = IF m.do = "content" THEN m.weight ELSE @]
NewAt(m) == store'.rows[given + 1] = RowOf(m) /\ \A f \in Images : store'[f][given + 1] = m.content
EditedAt(m) ==
  /\ m.id \in Kept(store) /\ store'.rows[m.id] = EditOf(m)
  /\ \A f \in Images : store'[f][m.id] = IF m.do = "content" THEN m.content ELSE store[f][m.id]

\* What it may leave in a table when it is cut short.
PartRow(m, i) ==
  \/ store'.rows[i] \in {store.rows[i], NoRow}
  \/ m.do = "save" /\ i = given + 1 /\ store'.rows[i] = RowOf(m)
  \/ m.do \in Update /\ i = m.id /\ i \in Kept(store) /\ store'.rows[i] = EditOf(m)
PartImage(m, f, i) ==
  \/ store'[f][i] \in {store[f][i], Nothing}
  \/ m.do = "save" /\ i = given + 1 /\ store'[f][i] = m.content
  \/ m.do = "content" /\ i = m.id /\ i \in Kept(store) /\ store'[f][i] = m.content

\* The ids that it takes on.
Reach(m) == Kept(store) \cup (IF m.do = "save" THEN {given + 1} ELSE {}) \cup (IF m.do \in Update \cup {"delete"} THEN {m.id} ELSE {})

\* What k steps of a command come to.
Outcome(m, steps, k) ==
  /\ \A i \in Ids : PartRow(m, i) /\ \A f \in Images : PartImage(m, f, i)
  /\ \A i \in Ids \ torn' :
       \/ SameAt(i) \/ GoneAt(i)
       \/ k = Len(steps) /\ m.do = "save" /\ i = given + 1 /\ NewAt(m)
       \/ k = Len(steps) /\ m.do \in Update /\ i = m.id /\ EditedAt(m)
  /\ torn \subseteq torn' /\ torn' \subseteq torn \cup Reach(m)
  /\ m.do = "save" /\ k # Len(steps) => given + 1 \in torn'

\* So many steps are all of them or not.
LEMMA ToTheEnd == ASSUME NEW n \in Nat, NEW k \in 0..n PROVE k = n \/ k < n
OBVIOUS

\* Steps are a sequence, and what is cut short is torn where it would have gone.
LEMMA UptoSame ==
  ASSUME NEW steps, DOMAIN steps = 1..Len(steps), Len(steps) \in Nat, NEW k \in 0..Len(steps), Upto(steps, k)
  PROVE  /\ \A i \in Ids \ Touched(steps) : SameAt(i)
         /\ k < Len(steps) => \A i \in Ids \ torn' : SameAt(i)
         /\ torn' = IF k < Len(steps) THEN torn \cup Touched(steps) ELSE torn
<1>1. ASSUME NEW i \in Ids \ Touched(steps) PROVE SameAt(i)
  BY AfterElsewhere DEF Upto, SameAt
<1> QED BY <1>1 DEF Upto

\* update() puts an image and its thumbnail, if there is one, and then the row.
LEMMA UpdateSteps ==
  ASSUME NEW m \in Calls, m.do \in Update
  PROVE  /\ m.id \notin Kept(store) => Updates(m) = << >>
         /\ m.id \in Kept(store) /\ m.do = "meta" => Updates(m) = <<Put("rows", {m.id}, EditOf(m))>>
         /\ m.id \in Kept(store) /\ m.do = "content" =>
              Updates(m) = <<Put("full", {m.id}, m.content), Put("thumb", {m.id}, m.content), Put("rows", {m.id}, EditOf(m))>>
<1>1. CASE m.id \notin Kept(store)
  BY <1>1 DEF Updates
<1>2. CASE m.id \in Kept(store) /\ m.do = "meta"
  BY <1>2 DEF Updates, EditOf
<1>3. CASE m.id \in Kept(store) /\ m.do = "content"
  BY <1>3 DEF Updates, EditOf
<1> QED BY <1>1, <1>2, <1>3 DEF Update

\* Nothing else than this row changes, and it does when the update is done.
Amended(m, k) ==
  /\ \A i \in Ids : store'.rows[i] = store.rows[i] \/ (i = m.id /\ i \in Kept(store) /\ store'.rows[i] = EditOf(m))
  /\ k = Len(Updates(m)) /\ m.id \in Kept(store) => EditedAt(m)

\* What an update comes to.
LEMMA UpdateOutcome ==
  ASSUME HistoryTypeOK, NEW m \in Calls, m.do \in Update, NEW k \in 0..Len(Updates(m)), Upto(Updates(m), k)
  PROVE  Outcome(m, Updates(m), k) /\ Amended(m, k)
<1> DEFINE steps == Updates(m)
<1>0. m.do # "save" /\ m.do # "delete" /\ Images \subseteq Tables /\ "rows" \in Tables /\ "rows" \notin Images
  BY DEF Update, Images, Tables
<1>1. CASE m.id \notin Kept(store)
  <2>1. steps = << >>
    BY <1>1, UpdateSteps
  <2> HIDE DEF steps
  <2>2. Len(steps) = 0 /\ DOMAIN steps = 1..Len(steps) /\ k = 0
    BY <2>1 DEF steps
  <2>3. Touched(steps) = {}
    BY <2>1 DEF Touched
  <2>4. torn' = torn /\ \A i \in Ids : SameAt(i)
    BY <2>2, <2>3, UptoSame DEF steps
  <2> QED BY <1>0, <1>1, <2>2, <2>4 DEF Outcome, Amended, PartRow, PartImage, SameAt, steps
<1>2. CASE m.id \in Kept(store)
  <2>0. m.id \in Ids
    BY <1>2 DEF Kept
  <2>1. /\ DOMAIN steps = 1..Len(steps) /\ Len(steps) \in Nat \ {0} /\ Touched(steps) = {m.id}
        /\ \A n \in 1..Len(steps) : steps[n].ids = {m.id} /\ steps[n].what = IF steps[n].in = "rows" THEN EditOf(m) ELSE m.content
        /\ m.do = "meta" => \A n \in 1..Len(steps) : steps[n].in = "rows"
        /\ \A f \in Tables : (f = "rows" \/ m.do = "content") => \E n \in 1..Len(steps) : steps[n].in = f
    <3>1. CASE m.do = "meta"
      BY <1>2, <3>1, UpdateSteps DEF Put, Touched, Tables, Images
    <3>2. CASE m.do = "content"
      <4> DEFINE a == Put("full", {m.id}, m.content)
                 b == Put("thumb", {m.id}, m.content)
                 c == Put("rows", {m.id}, EditOf(m))
      <4>1. steps = <<a, b, c>>
        BY <1>2, <3>2, UpdateSteps
      <4>2. /\ a.ids = {m.id} /\ b.ids = {m.id} /\ c.ids = {m.id} /\ a.in = "full" /\ b.in = "thumb" /\ c.in = "rows"
            /\ a.what = m.content /\ b.what = m.content /\ c.what = EditOf(m)
        BY DEF Put
      <4> HIDE DEF a, b, c
      <4>3. Len(steps) = 3 /\ DOMAIN steps = 1..3 /\ steps[1] = a /\ steps[2] = b /\ steps[3] = c
        BY <4>1
      <4>4. \A n \in 1..3 : n = 1 \/ n = 2 \/ n = 3
        OBVIOUS
      <4> HIDE DEF steps
      <4>5. Touched(steps) = {m.id}
        BY <4>2, <4>3, <4>4 DEF Touched
      <4>6. \A f \in Tables : \E n \in 1..3 : steps[n].in = f
        BY <4>2, <4>3 DEF Tables, Images
      <4> QED BY <3>2, <4>2, <4>3, <4>4, <4>5, <4>6
    <3> QED BY <3>1, <3>2 DEF Update
  <2>9. k \in 0..Len(steps)
    OBVIOUS
  <2> HIDE DEF steps
  <2>2. store' = After(store, steps, k)
    BY DEF Upto, steps
  <2>3. ASSUME NEW f \in Tables
        PROVE  \/ store'[f][m.id] = store[f][m.id]
               \/ (f = "rows" \/ m.do = "content") /\ store'[f][m.id] = IF f = "rows" THEN EditOf(m) ELSE m.content
    <3>1. SUFFICES ASSUME store'[f][m.id] # store[f][m.id]
                   PROVE  (f = "rows" \/ m.do = "content") /\ store'[f][m.id] = IF f = "rows" THEN EditOf(m) ELSE m.content
      OBVIOUS
    <3>2. PICK n \in 1..k : steps[n].in = f /\ store'[f][m.id] = steps[n].what
      BY <2>0, <2>2, <3>1, AfterAny
    <3>3. n \in 1..Len(steps) /\ (m.do = "meta" \/ m.do = "content")
      BY <2>1 DEF Update, steps
    <3> QED BY <2>1, <3>2, <3>3
  <2>4. (\A i \in Ids \ {m.id} : SameAt(i)) /\ (k < Len(steps) => \A i \in Ids \ torn' : SameAt(i))
    BY <2>1, UptoSame DEF steps
  <2>5. torn \subseteq torn' /\ torn' \subseteq torn \cup {m.id}
    BY <2>1, UptoSame DEF steps
  <2>6. ASSUME k = Len(steps) PROVE EditedAt(m)
    <3>1. ASSUME NEW f \in Tables, f = "rows" \/ m.do = "content"
          PROVE  store'[f][m.id] = IF f = "rows" THEN EditOf(m) ELSE m.content
      <4> DEFINE S == Puts(steps, k, f, m.id)
                 v == IF f = "rows" THEN EditOf(m) ELSE m.content
      <4>1. S # {}
        BY <2>1, <2>6, <3>1 DEF Puts
      <4>2. \A n \in S : steps[n].what = v
        BY <2>1, <2>6 DEF Puts
      <4> QED BY <2>0, <2>2, <4>1, <4>2, AfterAt
    <3>2. ASSUME NEW f \in Images, m.do = "meta" PROVE store'[f][m.id] = store[f][m.id]
      BY <1>0, <2>3, <3>2
    <3> QED BY <1>0, <1>2, <3>1, <3>2 DEF EditedAt, Update
  <2>7. ASSUME NEW i \in Ids PROVE PartRow(m, i) /\ \A f \in Images : PartImage(m, f, i)
    <3>1. CASE i = m.id
      <4>1. PartRow(m, i)
        BY <1>0, <1>2, <2>3, <3>1 DEF PartRow
      <4>2. ASSUME NEW f \in Images PROVE PartImage(m, f, i)
        BY <1>0, <1>2, <2>3, <3>1 DEF PartImage
      <4> QED BY <4>1, <4>2
    <3>2. CASE i # m.id
      BY <1>0, <2>4, <3>2 DEF SameAt, PartRow, PartImage
    <3> QED BY <3>1, <3>2
  <2>8. \A i \in Ids \ torn' : SameAt(i) \/ (k = Len(steps) /\ i = m.id /\ EditedAt(m))
    <3>1. k = Len(steps) \/ k < Len(steps)
      BY <2>1, <2>9, ToTheEnd
    <3> QED BY <2>4, <2>6, <3>1
  <2>10. ASSUME NEW i \in Ids
         PROVE  store'.rows[i] = store.rows[i] \/ (i = m.id /\ i \in Kept(store) /\ store'.rows[i] = EditOf(m))
    BY <1>0, <1>2, <2>3, <2>4 DEF SameAt
  <2> QED BY <1>0, <2>5, <2>6, <2>7, <2>8, <2>10 DEF Outcome, Amended, Reach, steps
<1> QED BY <1>1, <1>2

-----------------------------------------------------------------------------
\* Where the steps that remove a row and its images are.
LEMMA Thirds ==
  ASSUME NEW len \in Nat
  PROVE  /\ \A n \in 1..3 * len : (n + 2) \div 3 \in 1..len /\ 1 + ((n + 2) % 3) \in 1..3
         /\ \A j \in 1..len, o \in 1..3 :
              LET n == 3 * (j - 1) + o IN n \in 1..3 * len /\ (n + 2) \div 3 = j /\ 1 + ((n + 2) % 3) = o
OBVIOUS

\* And where the steps are that remove its images.
LEMMA Halves ==
  ASSUME NEW len \in Nat
  PROVE  /\ \A n \in 1..2 * len : (n + 1) \div 2 \in 1..len /\ 1 + ((n + 1) % 2) \in 1..2
         /\ \A j \in 1..len, o \in 1..2 :
              LET n == 2 * (j - 1) + o IN n \in 1..2 * len /\ (n + 1) \div 2 = j /\ 1 + ((n + 1) % 2) = o
OBVIOUS

\* What puts nothing anywhere.
Void(f) == IF f = "rows" THEN NoRow ELSE Nothing
Wipes(steps) == \A n \in 1..Len(steps) : steps[n].what = Void(steps[n].in)
WipesAll(steps) == \A i \in Touched(steps), f \in Tables : \E n \in 1..Len(steps) : steps[n].in = f /\ i \in steps[n].ids

\* What removing rows comes to.
LEMMA WipeOutcome ==
  ASSUME NEW m \in Calls, NEW steps, DOMAIN steps = 1..Len(steps), Len(steps) \in Nat,
         NEW k \in 0..Len(steps), Upto(steps, k), Wipes(steps), WipesAll(steps),
         Touched(steps) \subseteq Reach(m), m.do \in {"delete", "clear"}
  PROVE  Outcome(m, steps, k) /\ \A i \in Ids \ torn' : SameAt(i) \/ GoneAt(i)
<1>0. m.do # "save" /\ Images \subseteq Tables /\ "rows" \in Tables /\ "rows" \notin Images
  BY DEF Images, Tables
<1>1. store' = After(store, steps, k)
  BY DEF Upto
<1>2. ASSUME NEW f \in Tables, NEW i \in Ids PROVE store'[f][i] \in {store[f][i], Void(f)}
  <2>1. \/ store'[f][i] = store[f][i]
        \/ \E n \in 1..k : steps[n].in = f /\ store'[f][i] = steps[n].what
    BY <1>1, AfterAny
  <2> QED BY <2>1 DEF Wipes
<1>3. ASSUME k = Len(steps), NEW i \in Touched(steps) \cap Ids PROVE GoneAt(i)
  <2>1. ASSUME NEW f \in Tables PROVE store'[f][i] = Void(f)
    <3>1. Puts(steps, k, f, i) # {}
      BY <1>3 DEF WipesAll, Puts
    <3>2. \A n \in Puts(steps, k, f, i) : steps[n].what = Void(f)
      BY <1>3 DEF Wipes, Puts
    <3> QED BY <1>1, <3>1, <3>2, AfterAt
  <2> QED BY <1>0, <2>1 DEF GoneAt, Void
<1>4. \A i \in Ids \ Touched(steps) : SameAt(i)
  BY UptoSame
<1>5. k < Len(steps) => \A i \in Ids \ torn' : SameAt(i)
  BY UptoSame
<1>6. torn' = IF k < Len(steps) THEN torn \cup Touched(steps) ELSE torn
  BY UptoSame
<1>7. k = Len(steps) \/ k < Len(steps)
  BY ToTheEnd
<1>8. \A i \in Ids \ torn' : SameAt(i) \/ GoneAt(i)
  BY <1>3, <1>4, <1>5, <1>7
<1>9. ASSUME NEW i \in Ids PROVE PartRow(m, i) /\ \A f \in Images : PartImage(m, f, i)
  BY <1>0, <1>2 DEF PartRow, PartImage, Void
<1> QED BY <1>0, <1>6, <1>8, <1>9 DEF Outcome

\* delete() removes the images of a row and the row.
LEMMA DeleteSteps ==
  ASSUME NEW i
  PROVE  /\ DOMAIN Delete(i) = 1..3 /\ Len(Delete(i)) = 3
         /\ Wipes(Delete(i)) /\ Touched(Delete(i)) = {i} /\ WipesAll(Delete(i))
         /\ \A n \in 1..3 : Delete(i)[n].ids = {i}
<1> DEFINE a == Put("full", {i}, Nothing)
           b == Put("thumb", {i}, Nothing)
           c == Put("rows", {i}, NoRow)
           d == Delete(i)
<1>1. d = <<a, b, c>>
  BY DEF Delete
<1>2. /\ a.ids = {i} /\ b.ids = {i} /\ c.ids = {i} /\ a.in = "full" /\ b.in = "thumb" /\ c.in = "rows"
      /\ a.what = Nothing /\ b.what = Nothing /\ c.what = NoRow
  BY DEF Put
<1> HIDE DEF a, b, c
<1>3. Len(d) = 3 /\ DOMAIN d = 1..3 /\ d[1] = a /\ d[2] = b /\ d[3] = c
  BY <1>1
<1>4. \A n \in 1..3 : n = 1 \/ n = 2 \/ n = 3
  OBVIOUS
<1> HIDE DEF d
<1>5. Touched(d) = {i}
  BY <1>2, <1>3, <1>4 DEF Touched
<1>6. \A f \in Tables : \E n \in 1..3 : d[n].in = f
  BY <1>2, <1>3 DEF Tables, Images
<1>7. Wipes(d)
  BY <1>2, <1>3, <1>4 DEF Wipes, Void
<1>8. \A n \in 1..3 : d[n].ids = {i}
  BY <1>2, <1>3, <1>4
<1>9. WipesAll(d)
  BY <1>3, <1>5, <1>6, <1>8 DEF WipesAll
<1> QED BY <1>3, <1>5, <1>7, <1>8, <1>9 DEF d

\* So does deleting one after the other.
LEMMA DeletesSteps ==
  ASSUME NEW v, NEW len \in Nat, Len(v) = len
  PROVE  /\ DOMAIN Deletes(v) = 1..3 * len
         /\ \A n \in 1..3 * len :
              /\ Deletes(v)[n].what = Void(Deletes(v)[n].in) /\ Deletes(v)[n].in \in Tables
              /\ \E j \in 1..len : Deletes(v)[n].ids = {v[j]}
         /\ \A j \in 1..len, f \in Tables :
              \E n \in 1..3 * len : Deletes(v)[n].in = f /\ Deletes(v)[n].ids = {v[j]}
<1> DEFINE d == Deletes(v)
<1>1. DOMAIN d = 1..3 * len /\ \A n \in 1..3 * len : d[n] = Delete(v[(n + 2) \div 3])[1 + ((n + 2) % 3)]
  BY DEF Deletes
<1> HIDE DEF d
<1>2. ASSUME NEW n \in 1..3 * len
      PROVE  d[n].what = Void(d[n].in) /\ d[n].in \in Tables /\ \E j \in 1..len : d[n].ids = {v[j]}
  <2>1. PICK j \in 1..len, o \in 1..3 : d[n] = Delete(v[j])[o]
    BY <1>1, Thirds
  <2>2. Delete(v[j])[o].in \in Tables
    BY DEF Delete, Put, Tables, Images
  <2> QED BY <2>1, <2>2, DeleteSteps DEF Wipes
<1>3. ASSUME NEW j \in 1..len, NEW f \in Tables PROVE \E n \in 1..3 * len : d[n].in = f /\ d[n].ids = {v[j]}
  <2>1. PICK o \in 1..3 : Delete(v[j])[o].in = f
    <3>1. v[j] \in Touched(Delete(v[j])) /\ WipesAll(Delete(v[j])) /\ Len(Delete(v[j])) = 3
      BY DeleteSteps
    <3> QED BY <3>1 DEF WipesAll
  <2>2. PICK n \in 1..3 * len : (n + 2) \div 3 = j /\ 1 + ((n + 2) % 3) = o
    <3> DEFINE n0 == 3 * (j - 1) + o
    <3>1. n0 \in 1..3 * len /\ (n0 + 2) \div 3 = j /\ 1 + ((n0 + 2) % 3) = o
      BY Thirds
    <3> HIDE DEF n0
    <3> QED BY <3>1
  <2>3. d[n] = Delete(v[j])[o]
    BY <1>1, <2>2
  <2> QED BY <2>1, <2>3, DeleteSteps
<1> QED BY <1>1, <1>2, <1>3 DEF d

\* A list that is followed by another, or by one more.
LEMMA Joined ==
  ASSUME NEW p \in Nat, NEW r \in Nat, NEW a, NEW b, DOMAIN a = 1..p, DOMAIN b = 1..r,
         a = [n \in 1..p |-> a[n]], b = [n \in 1..r |-> b[n]]
  PROVE  /\ Len(a \o b) = p + r /\ DOMAIN (a \o b) = 1..p + r
         /\ \A n \in 1..p : (a \o b)[n] = a[n]
         /\ \A n \in 1..r : (a \o b)[p + n] = b[n]
<1> DEFINE S == {a[n] : n \in 1..p} \cup {b[n] : n \in 1..r}
<1>1. a \in [1..p -> S] /\ b \in [1..r -> S]
  OBVIOUS
<1> HIDE DEF S
<1>2. a \in Seq(S) /\ b \in Seq(S) /\ Len(a) = p /\ Len(b) = r
  BY <1>1, ListIsSeq
<1>3. /\ a \o b \in Seq(S) /\ Len(a \o b) = p + r
      /\ \A i \in 1..p + r : (a \o b)[i] = IF i <= p THEN a[i] ELSE b[i - p]
  BY <1>2, ConcatProperties
<1>4. DOMAIN (a \o b) = 1..p + r
  BY <1>3
<1>5. ASSUME NEW n \in 1..r PROVE (a \o b)[p + n] = b[n]
  <2>1. p + n \in 1..p + r /\ ~(p + n <= p) /\ (p + n) - p = n
    OBVIOUS
  <2> QED BY <1>3, <2>1
<1> QED BY <1>3, <1>4, <1>5

\* A list with one more at its end.
LEMMA OneMore ==
  ASSUME NEW p \in Nat, NEW a, NEW e, DOMAIN a = 1..p, a = [n \in 1..p |-> a[n]]
  PROVE  /\ Len(Append(a, e)) = p + 1 /\ DOMAIN Append(a, e) = 1..p + 1
         /\ \A n \in 1..p : Append(a, e)[n] = a[n]
         /\ Append(a, e)[p + 1] = e
<1> DEFINE S == {a[n] : n \in 1..p} \cup {e}
<1>1. a \in [1..p -> S] /\ e \in S
  OBVIOUS
<1> HIDE DEF S
<1>2. a \in Seq(S) /\ Len(a) = p
  BY <1>1, ListIsSeq
<1>3. /\ Append(a, e) \in Seq(S) /\ Len(Append(a, e)) = p + 1
      /\ \A n \in 1..p : Append(a, e)[n] = a[n]
      /\ Append(a, e)[p + 1] = e
  BY <1>1, <1>2, AppendProperties
<1> QED BY <1>3

\* There are finitely many rows.
LEMMA RowsFinite == ASSUME NEW s PROVE IsFiniteSet(Kept(s)) /\ Cardinality(Kept(s)) \in Nat
<1>1. IsFiniteSet(Ids)
  BY HistoryConstants, FS_Interval, 1 \in Int, MaxIds \in Int DEF Ids
<1> QED BY <1>1, FS_Subset, FS_CardinalityType DEF Kept

\* What lists them is a sequence of them.
LEMMA ListsRows ==
  ASSUME NEW s, NEW q \in Listings(Kept(s))
  PROVE  /\ q \in Seq(Kept(s)) /\ Len(q) \in Nat /\ DOMAIN q = 1..Len(q)
         /\ \A i \in Kept(s) : \E n \in 1..Len(q) : q[n] = i
         /\ \A n \in 1..Len(q) : q[n] \in Kept(s)
<1>1. Cardinality(Kept(s)) \in Nat /\ q \in [1..Cardinality(Kept(s)) -> Kept(s)]
  BY RowsFinite DEF Listings
<1>2. q \in Seq(Kept(s)) /\ DOMAIN q = 1..Cardinality(Kept(s))
  BY <1>1, ListIsSeq
<1>3. Len(q) = Cardinality(Kept(s))
  BY <1>1, <1>2
<1>4. \A i \in Kept(s) : \E n \in DOMAIN q : q[n] = i
  BY DEF Listings
<1> QED BY <1>1, <1>2, <1>3, <1>4

\* clear() removes the images of all rows and then the rows.
LEMMA ClearSteps ==
  ASSUME NEW steps \in Clears
  PROVE  /\ DOMAIN steps = 1..Len(steps) /\ Len(steps) \in Nat
         /\ Wipes(steps) /\ Touched(steps) = Kept(store) /\ WipesAll(steps)
<1>1. PICK q \in Listings(Kept(store)) : steps = Append(Unlinks(q), Put("rows", Kept(store), NoRow))
  BY DEF Clears
<1>2. /\ Len(q) \in Nat /\ \A i \in Kept(store) : \E n \in 1..Len(q) : q[n] = i
      /\ \A n \in 1..Len(q) : q[n] \in Kept(store)
  BY ListsRows
<1> DEFINE u == Unlinks(q)
           e == Put("rows", Kept(store), NoRow)
           len == Len(q)
<1>3. DOMAIN u = 1..2 * len /\ u = [n \in 1..2 * len |-> u[n]] /\ 2 * len \in Nat
      /\ \A n \in 1..2 * len : u[n] = Unlink(q[(n + 1) \div 2])[1 + ((n + 1) % 2)]
  BY <1>2 DEF Unlinks
<1>4. ASSUME NEW i
      PROVE  /\ Unlink(i)[1].in = "full" /\ Unlink(i)[2].in = "thumb"
             /\ \A o \in 1..2 : Unlink(i)[o].ids = {i} /\ Unlink(i)[o].what = Nothing /\ Unlink(i)[o].in \in Images
  <2>1. Unlink(i)[1] = Put("full", {i}, Nothing) /\ Unlink(i)[2] = Put("thumb", {i}, Nothing)
    BY DEF Unlink
  <2>2. \A o \in 1..2 : o = 1 \/ o = 2
    OBVIOUS
  <2> QED BY <2>1, <2>2 DEF Put, Images
<1>5. e.in = "rows" /\ e.ids = Kept(store) /\ e.what = NoRow
  BY DEF Put
<1> HIDE DEF u, e
<1>6. /\ Len(steps) = 2 * len + 1 /\ DOMAIN steps = 1..2 * len + 1
      /\ \A n \in 1..2 * len : steps[n] = u[n]
      /\ steps[2 * len + 1] = e
  BY <1>1, <1>3, OneMore DEF u, e
<1>7. ASSUME NEW n \in 1..2 * len
      PROVE  steps[n].what = Nothing /\ steps[n].in \in Images /\ \E j \in 1..len : steps[n].ids = {q[j]}
  <2>1. PICK j \in 1..len, o \in 1..2 : u[n] = Unlink(q[j])[o]
    BY <1>2, <1>3, Halves
  <2> QED BY <1>4, <1>6, <2>1
<1>8. \A n \in 1..2 * len + 1 : n \in 1..2 * len \/ n = 2 * len + 1
  BY <1>2
<1>9. Wipes(steps)
  BY <1>5, <1>6, <1>7, <1>8 DEF Wipes, Void, Images
<1>10. Touched(steps) = Kept(store)
  <2>1. \A n \in 1..2 * len + 1 : steps[n].ids \subseteq Kept(store)
    BY <1>2, <1>5, <1>6, <1>7, <1>8
  <2>2. 2 * len + 1 \in 1..2 * len + 1
    BY <1>2
  <2> QED BY <1>5, <1>6, <2>1, <2>2 DEF Touched
<1>11. ASSUME NEW i \in Kept(store), NEW f \in Tables PROVE \E n \in 1..2 * len + 1 : steps[n].in = f /\ i \in steps[n].ids
  <2>1. CASE f = "rows"
    <3>1. 2 * len + 1 \in 1..2 * len + 1
      BY <1>2
    <3> QED BY <1>5, <1>6, <2>1, <3>1
  <2>2. CASE f # "rows"
    <3>1. PICK o \in 1..2 : \A j : Unlink(j)[o].in = f
      <4>1. f = "full" \/ f = "thumb"
        BY <2>2 DEF Tables, Images
      <4> QED BY <1>4, <4>1
    <3>2. PICK j \in 1..len : q[j] = i
      BY <1>2
    <3> DEFINE n0 == 2 * (j - 1) + o
    <3>3. n0 \in 1..2 * len /\ (n0 + 1) \div 2 = j /\ 1 + ((n0 + 1) % 2) = o
      BY <1>2, Halves
    <3> HIDE DEF n0
    <3>4. steps[n0] = Unlink(i)[o]
      BY <1>3, <1>6, <3>2, <3>3
    <3>5. n0 \in 1..2 * len + 1
      BY <1>2, <3>3
    <3> QED BY <1>4, <3>1, <3>4, <3>5
  <2> QED BY <2>1, <2>2
<1>12. Len(steps) \in Nat
  BY <1>2, <1>6
<1> QED BY <1>6, <1>9, <1>10, <1>11, <1>12 DEF WipesAll

-----------------------------------------------------------------------------
\* save() puts the images and the row, ...
LEMMA InsertSteps ==
  ASSUME NEW i, NEW m
  PROVE  LET a == Inserts(i, m)
         IN /\ DOMAIN a = 1..3 /\ Len(a) = 3 /\ a = [n \in 1..3 |-> a[n]]
            /\ \A n \in 1..3 : a[n].ids = {i} /\ a[n].what = IF a[n].in = "rows" THEN RowOf(m) ELSE m.content
            /\ a[1].in = "full" /\ a[2].in = "thumb" /\ a[3].in = "rows"
<1> DEFINE a == Put("full", {i}, m.content)
           b == Put("thumb", {i}, m.content)
           c == Put("rows", {i}, RowOf(m))
           d == Inserts(i, m)
<1>1. d = <<a, b, c>>
  BY DEF Inserts, RowOf
<1>2. /\ a.ids = {i} /\ b.ids = {i} /\ c.ids = {i} /\ a.in = "full" /\ b.in = "thumb" /\ c.in = "rows"
      /\ a.what = m.content /\ b.what = m.content /\ c.what = RowOf(m)
  BY DEF Put
<1> HIDE DEF a, b, c
<1>3. Len(d) = 3 /\ DOMAIN d = 1..3 /\ d[1] = a /\ d[2] = b /\ d[3] = c
  BY <1>1
<1>4. \A n \in 1..3 : n = 1 \/ n = 2 \/ n = 3
  OBVIOUS
<1>5. d = [n \in 1..3 |-> d[n]]
  BY <1>1
<1> HIDE DEF d
<1> QED BY <1>2, <1>3, <1>4, <1>5 DEF d

\* ... after which there is one row more, ...
LEMMA InsertedIs ==
  ASSUME NEW m, given + 1 \in Ids, m.time # 0
  PROVE  /\ Inserted(m).rows[given + 1] = RowOf(m)
         /\ \A f \in Images : Inserted(m)[f][given + 1] = m.content
         /\ \A i \in Ids \ {given + 1}, f \in Tables : Inserted(m)[f][i] = store[f][i]
         /\ Kept(Inserted(m)) = Kept(store) \cup {given + 1}
<1> DEFINE ins == Inserts(given + 1, m)
<1>1. /\ DOMAIN ins = 1..3 /\ Len(ins) = 3 /\ Inserted(m) = After(store, ins, 3)
      /\ \A n \in 1..3 : ins[n].ids = {given + 1} /\ ins[n].what = IF ins[n].in = "rows" THEN RowOf(m) ELSE m.content
      /\ ins[1].in = "full" /\ ins[2].in = "thumb" /\ ins[3].in = "rows"
  BY InsertSteps DEF Inserted
<1> HIDE DEF ins
<1>2. ASSUME NEW f \in Tables
      PROVE  Inserted(m)[f][given + 1] = IF f = "rows" THEN RowOf(m) ELSE m.content
  <2> DEFINE S == Puts(ins, 3, f, given + 1)
             v == IF f = "rows" THEN RowOf(m) ELSE m.content
  <2>1. S # {}
    <3>1. \E n \in 1..3 : ins[n].in = f
      BY <1>1 DEF Tables, Images
    <3> QED BY <1>1, <3>1 DEF Puts
  <2>2. \A n \in S : ins[n].what = v
    BY <1>1 DEF Puts
  <2> QED BY <1>1, <2>1, <2>2, AfterAt
<1>3. ASSUME NEW i \in Ids \ {given + 1}, NEW f \in Tables PROVE Inserted(m)[f][i] = store[f][i]
  <2>1. i \notin Touched(ins)
    BY <1>1 DEF Touched
  <2>2. DOMAIN ins = 1..Len(ins) /\ 3 <= Len(ins) /\ Len(ins) \in Nat /\ 3 \in Nat
    BY <1>1
  <2>3. After(store, ins, 3)[f][i] = store[f][i]
    BY <2>1, <2>2, AfterElsewhere
  <2> QED BY <1>1, <2>3
<1>4. "rows" \in Tables /\ Images \subseteq Tables /\ "rows" \notin Images
  BY DEF Tables, Images
<1>5. RowOf(m) # NoRow
  BY DEF RowOf, NoRow
<1>6. Kept(Inserted(m)) = Kept(store) \cup {given + 1}
  BY <1>2, <1>3, <1>4, <1>5 DEF Kept
<1> QED BY <1>2, <1>3, <1>4, <1>6

\* ... and then deletes the oldest rows, as many as it takes.
Gone(q, n) == {q[j] : j \in 1..n}
Pruned(m, q, n) ==
  /\ q \in OldestFirst(Inserted(m)) /\ n \in 0..Len(q) /\ Enough(Inserted(m), q, n)
  /\ \A i \in Ids : IF i \in Gone(q, n) THEN GoneAt(i) ELSE \A f \in Tables : store'[f][i] = Inserted(m)[f][i]

\* What a save comes to.
LEMMA SaveOutcome ==
  ASSUME HistoryTypeOK, NEW m \in Calls, m.do = "save", m.time # 0, given + 1 \in Ids,
         NEW steps \in Saves(m), NEW k \in 0..Len(steps), Upto(steps, k)
  PROVE  /\ Outcome(m, steps, k)
         /\ k = Len(steps) => \E q, n : Pruned(m, q, n)
<1> DEFINE ins == Inserts(given + 1, m)
           new == given + 1
<1>0. "rows" \in Tables /\ Images \subseteq Tables /\ "rows" \notin Images /\ m.do \notin Update /\ m.do # "delete"
  BY DEF Tables, Images, Update
<1>1. PICK v \in Victims(Inserted(m)) : steps = ins \o Deletes(v)
  BY DEF Saves
<1>2a. PICK q \in OldestFirst(Inserted(m)) : \E n \in 0..Len(q) : v = SubSeq(q, 1, n) /\ Enough(Inserted(m), q, n)
  BY DEF Victims
<1>2. PICK n \in 0..Len(q) : v = SubSeq(q, 1, n) /\ Enough(Inserted(m), q, n)
  BY <1>2a
<1>3. /\ Len(q) \in Nat /\ \A j \in 1..Len(q) : q[j] \in Kept(Inserted(m))
  <2>1. q \in Listings(Kept(Inserted(m)))
    BY DEF OldestFirst
  <2> QED BY <2>1, ListsRows
<1>4. Len(v) = n /\ n \in Nat /\ \A j \in 1..n : v[j] = q[j] /\ v[j] \in Kept(Inserted(m))
  <2>1. n \in Nat /\ \A j \in 1..n : q[j] \in Kept(Inserted(m))
    BY <1>3
  <2>2. n \in Int /\ 1 \in Int
    BY <2>1
  <2>3. /\ Len(v) = IF 1 <= n THEN n - 1 + 1 ELSE 0
        /\ \A j \in 1..n - 1 + 1 : v[j] = q[1 + j - 1]
    BY <1>2, <2>1, <2>2, SubSeqProperties
  <2>4. Len(v) = n
    BY <2>1, <2>3
  <2>5. ASSUME NEW j \in 1..n PROVE v[j] = q[j]
    <3>1. j \in 1..n - 1 + 1 /\ 1 + j - 1 = j
      BY <2>1
    <3> QED BY <2>3, <3>1
  <2> QED BY <2>1, <2>4, <2>5
<1> DEFINE del == Deletes(v)
<1>5. /\ DOMAIN del = 1..3 * n /\ del = [x \in 1..3 * n |-> del[x]] /\ 3 * n \in Nat
      /\ \A x \in 1..3 * n :
           /\ del[x].what = Void(del[x].in) /\ del[x].in \in Tables
           /\ \E j \in 1..n : del[x].ids = {q[j]}
      /\ \A j \in 1..n, f \in Tables : \E x \in 1..3 * n : del[x].in = f /\ del[x].ids = {q[j]}
  <2>1. del = [x \in 1..3 * n |-> del[x]]
    BY <1>4 DEF Deletes
  <2>2. n \in Nat /\ Len(v) = n /\ 3 * n \in Nat
    BY <1>4
  <2>3. /\ DOMAIN del = 1..3 * n
        /\ \A x \in 1..3 * n :
             /\ del[x].what = Void(del[x].in) /\ del[x].in \in Tables
             /\ \E j \in 1..n : del[x].ids = {v[j]}
        /\ \A j \in 1..n, f \in Tables : \E x \in 1..3 * n : del[x].in = f /\ del[x].ids = {v[j]}
    BY <2>2, DeletesSteps
  <2>4. \A j \in 1..n : v[j] = q[j]
    BY <1>4
  <2> HIDE DEF del
  <2>5. ASSUME NEW x \in 1..3 * n PROVE \E j \in 1..n : del[x].ids = {q[j]}
    <3>1. PICK j \in 1..n : del[x].ids = {v[j]}
      BY <2>3
    <3> QED BY <2>4, <3>1
  <2>6. ASSUME NEW j \in 1..n, NEW f \in Tables PROVE \E x \in 1..3 * n : del[x].in = f /\ del[x].ids = {q[j]}
    <3>1. PICK x \in 1..3 * n : del[x].in = f /\ del[x].ids = {v[j]}
      BY <2>3
    <3> QED BY <2>4, <3>1
  <2> QED BY <2>1, <2>2, <2>3, <2>5, <2>6
<1>6. /\ DOMAIN ins = 1..3 /\ ins = [x \in 1..3 |-> ins[x]]
      /\ \A x \in 1..3 : ins[x].ids = {new} /\ ins[x].what = IF ins[x].in = "rows" THEN RowOf(m) ELSE m.content
      /\ ins[1].in = "full" /\ ins[2].in = "thumb" /\ ins[3].in = "rows"
  BY InsertSteps
<1> HIDE DEF ins, del
<1>7. /\ Len(steps) = 3 + 3 * n /\ DOMAIN steps = 1..3 + 3 * n
      /\ \A x \in 1..3 : steps[x] = ins[x]
      /\ \A x \in 1..3 * n : steps[3 + x] = del[x]
  BY <1>1, <1>5, <1>6, Joined DEF del
<1>8. ASSUME NEW x \in 1..3 + 3 * n PROVE x \in 1..3 \/ (x - 3 \in 1..3 * n /\ 3 + (x - 3) = x)
  BY <1>4
<1>9. ASSUME NEW x \in 1..3 + 3 * n
      PROVE  \/ x \in 1..3 /\ steps[x].ids = {new} /\ steps[x].what = IF steps[x].in = "rows" THEN RowOf(m) ELSE m.content
             \/ x > 3 /\ steps[x].what = Void(steps[x].in) /\ \E j \in 1..n : steps[x].ids = {q[j]}
  <2>1. CASE x \in 1..3
    BY <1>6, <1>7, <2>1
  <2>2. CASE x \notin 1..3
    <3>1. PICK y \in 1..3 * n : x = 3 + y
      BY <1>8, <2>2
    <3>2. steps[x] = del[y] /\ x > 3
      BY <1>7, <3>1
    <3>3. del[y].what = Void(del[y].in) /\ \E j \in 1..n : del[y].ids = {q[j]}
      BY <1>5
    <3> QED BY <3>2, <3>3
  <2> QED BY <2>1, <2>2
<1>10. Kept(Inserted(m)) = Kept(store) \cup {new}
  BY InsertedIs
<1>11. store' = After(store, steps, k) /\ DOMAIN steps = 1..Len(steps) /\ Len(steps) \in Nat
  BY <1>4, <1>7 DEF Upto
<1>12. Touched(steps) = {new} \cup Gone(q, n)
  <2>1. Touched(steps) \subseteq {new} \cup Gone(q, n)
    BY <1>7, <1>9 DEF Touched, Gone
  <2>2. new \in Touched(steps)
    <3>1. 1 \in 1..3 + 3 * n /\ steps[1].ids = {new}
      BY <1>4, <1>6, <1>7
    <3> QED BY <1>7, <3>1 DEF Touched
  <2>3. ASSUME NEW j \in 1..n PROVE q[j] \in Touched(steps)
    <3>1. PICK x \in 1..3 * n : del[x].ids = {q[j]}
      BY <1>0, <1>5
    <3>2. 3 + x \in 1..3 + 3 * n /\ steps[3 + x].ids = {q[j]}
      <4>1. 3 + x \in 1..3 + 3 * n
        BY <1>4
      <4>2. steps[3 + x] = del[x]
        BY <1>7
      <4> QED BY <3>1, <4>1, <4>2
    <3> QED BY <1>7, <3>2 DEF Touched
  <2> QED BY <2>1, <2>2, <2>3 DEF Gone
<1>13. Touched(steps) \subseteq Reach(m)
  BY <1>4, <1>10, <1>12 DEF Reach, Gone
<1>14. ASSUME NEW i \in Ids PROVE PartRow(m, i) /\ \A f \in Images : PartImage(m, f, i)
  <2>1. ASSUME NEW f \in Tables
        PROVE  \/ store'[f][i] = store[f][i] \/ store'[f][i] = Void(f)
               \/ i = new /\ store'[f][i] = IF f = "rows" THEN RowOf(m) ELSE m.content
    <3>1. SUFFICES ASSUME store'[f][i] # store[f][i]
                   PROVE  store'[f][i] = Void(f) \/ (i = new /\ store'[f][i] = IF f = "rows" THEN RowOf(m) ELSE m.content)
      OBVIOUS
    <3>2. PICK x \in 1..k : steps[x].in = f /\ i \in steps[x].ids /\ store'[f][i] = steps[x].what
      BY <1>11, <3>1, AfterAny
    <3>3. x \in 1..3 + 3 * n
      BY <1>4, <1>7
    <3> QED BY <1>9, <3>2, <3>3
  <2> QED BY <1>0, <2>1 DEF PartRow, PartImage, Void
<1>15. ASSUME k = Len(steps), NEW i \in Ids
       PROVE  IF i \in Gone(q, n) THEN GoneAt(i) ELSE \A f \in Tables : store'[f][i] = Inserted(m)[f][i]
  <2>1. CASE i \in Gone(q, n)
    <3>1. PICK j \in 1..n : i = q[j]
      BY <2>1 DEF Gone
    <3>2. ASSUME NEW f \in Tables PROVE store'[f][i] = Void(f)
      <4>1. PICK y \in 1..3 * n : del[y].in = f /\ del[y].ids = {i}
        <5>1. \E y \in 1..3 * n : del[y].in = f /\ del[y].ids = {q[j]}
          BY <1>5
        <5> QED BY <3>1, <5>1
      <4>2. 3 + y \in Puts(steps, k, f, i)
        <5>1. 3 + y \in 1..k
          BY <1>4, <1>7, <1>15
        <5>2. steps[3 + y] = del[y]
          BY <1>7
        <5> QED BY <4>1, <5>1, <5>2 DEF Puts
      <4>3. PICK x \in Puts(steps, k, f, i) : store'[f][i] = steps[x].what /\ \A z \in Puts(steps, k, f, i) : z <= x
        BY <1>11, <4>2, AfterAt
      <4>4. x \in 1..3 + 3 * n /\ 3 + y <= x /\ steps[x].in = f
        BY <1>7, <1>15, <4>2, <4>3 DEF Puts
      <4>5. x \notin 1..3
        BY <4>4
      <4> QED BY <1>9, <4>3, <4>4, <4>5
    <3> QED BY <1>0, <2>1, <3>2 DEF GoneAt, Void
  <2>2. CASE i \notin Gone(q, n) /\ i # new
    <3>1. SameAt(i)
      BY <1>11, <1>12, <2>2, UptoSame
    <3> QED BY <2>2, <3>1, InsertedIs DEF SameAt
  <2>3. CASE i \notin Gone(q, n) /\ i = new
    <3>1. ASSUME NEW f \in Tables PROVE store'[f][i] = IF f = "rows" THEN RowOf(m) ELSE m.content
      <4> DEFINE w == IF f = "rows" THEN RowOf(m) ELSE m.content
      <4>1. \A x \in Puts(steps, k, f, i) : steps[x].what = w
        <5> SUFFICES ASSUME NEW x \in Puts(steps, k, f, i) PROVE steps[x].what = w
          OBVIOUS
        <5>1. x \in 1..3 + 3 * n /\ steps[x].in = f /\ i \in steps[x].ids
          BY <1>7, <1>15 DEF Puts
        <5>2. \A j \in 1..n : q[j] # i
          BY <2>3 DEF Gone
        <5>3. ~\E j \in 1..n : steps[x].ids = {q[j]}
          BY <5>1, <5>2
        <5>4. steps[x].what = IF steps[x].in = "rows" THEN RowOf(m) ELSE m.content
          BY <1>9, <5>1, <5>3
        <5> QED BY <5>1, <5>4
      <4>2. Puts(steps, k, f, i) # {}
        <5>1. PICK x \in 1..3 : ins[x].in = f
          BY <1>6 DEF Tables, Images
        <5>2. x \in 1..k
          BY <1>4, <1>7, <1>15
        <5>3. steps[x].in = f /\ i \in steps[x].ids
          BY <1>6, <1>7, <2>3, <5>1
        <5> QED BY <5>2, <5>3 DEF Puts
      <4> QED BY <1>11, <4>1, <4>2, AfterAt
    <3> QED BY <1>0, <2>3, <3>1, InsertedIs DEF Tables
  <2> QED BY <2>1, <2>2, <2>3
<1>16. k = Len(steps) => Pruned(m, q, n)
  BY <1>2, <1>15 DEF Pruned
<1>17. ASSUME NEW i \in Ids \ torn'
       PROVE  SameAt(i) \/ GoneAt(i) \/ (k = Len(steps) /\ i = new /\ NewAt(m))
  <2>1. CASE k = Len(steps)
    <3>1. i = new \/ \A f \in Tables : Inserted(m)[f][i] = store[f][i]
      BY InsertedIs
    <3>2. i = new /\ (\A f \in Tables : store'[f][i] = Inserted(m)[f][i]) => NewAt(m)
      BY <1>0, InsertedIs DEF NewAt
    <3> QED BY <1>15, <2>1, <3>1, <3>2 DEF SameAt
  <2>2. CASE k < Len(steps)
    BY <1>11, <2>2, UptoSame
  <2> QED BY <1>11, <2>1, <2>2, ToTheEnd
<1>18. torn' = IF k < Len(steps) THEN torn \cup Touched(steps) ELSE torn
  BY <1>11, UptoSame
<1>19. k # Len(steps) => k < Len(steps)
  BY <1>11, ToTheEnd
<1>20. Outcome(m, steps, k)
  BY <1>0, <1>12, <1>13, <1>14, <1>17, <1>18, <1>19 DEF Outcome
<1> QED BY <1>16, <1>20

\* What any command comes to, when its message is one that pages send.
LEMMA CommandOutcome ==
  ASSUME HistoryTypeOK, NEW m \in Calls, SentFor(m), m.do = "save" => given + 1 \in Ids,
         NEW steps \in StepsOf(m), NEW k \in 0..Len(steps), Upto(steps, k)
  PROVE  /\ Outcome(m, steps, k)
         /\ m.do = "save" /\ k = Len(steps) => \E q, n : Pruned(m, q, n)
<1>1. CASE m.do = "save"
  <2>1. steps \in Saves(m) /\ m.time # 0
    BY <1>1 DEF StepsOf, SentFor, Saving
  <2> QED BY <1>1, <2>1, SaveOutcome
<1>2. CASE m.do \in Update
  <2>1. steps = Updates(m)
    BY <1>2 DEF StepsOf, Update
  <2>2. m.do # "save"
    BY <1>2 DEF Update
  <2> QED BY <1>2, <2>1, <2>2, UpdateOutcome
<1>3. CASE m.do = "delete"
  <2>1. steps = Delete(m.id)
    BY <1>3 DEF StepsOf
  <2>2. Touched(steps) \subseteq Reach(m)
    BY <1>3, <2>1, DeleteSteps DEF Reach
  <2>3. DOMAIN steps = 1..Len(steps) /\ Len(steps) \in Nat /\ Wipes(steps) /\ WipesAll(steps)
    BY <2>1, DeleteSteps
  <2> QED BY <1>3, <2>2, <2>3, WipeOutcome
<1>4. CASE m.do = "clear"
  <2>1. steps \in Clears
    BY <1>4 DEF StepsOf
  <2>2. Touched(steps) \subseteq Reach(m)
    BY <2>1, ClearSteps DEF Reach
  <2> QED BY <1>4, <2>1, <2>2, ClearSteps, WipeOutcome
<1>5. CASE m.do = "close"
  <2>1. steps = << >>
    BY <1>5 DEF StepsOf
  <2>2. DOMAIN steps = 1..Len(steps) /\ Len(steps) = 0 /\ Len(steps) \in Nat /\ Touched(steps) = {}
    BY <2>1 DEF Touched
  <2>3. torn' = torn /\ \A i \in Ids : SameAt(i)
    BY <2>2, UptoSame
  <2> QED BY <1>5, <2>3 DEF Outcome, PartRow, PartImage, SameAt, Tables, Images
<1> QED BY <1>1, <1>2, <1>3, <1>4, <1>5 DEF Calls, Update

\* A capture comes to a page that loads, or a page goes away.
Arrives(w, k) == page[w].at = "loading" /\ Appear(w, page[w].token, k)
Leaves(w) == Vanish(w) /\ UNCHANGED <<calls, deeds>>

\* What the end of the process leaves.
Stops ==
  /\ MayDo /\ (calls # << >> /\ Head(calls).do = "save" => given < MaxIds)
  /\ IF calls = << >> THEN UNCHANGED <<store, torn>>
     ELSE \E steps \in StepsOf(Head(calls)) : \E k \in 0..Len(steps) : Upto(steps, k)
  /\ given' = IF calls # << >> /\ Head(calls).do = "save" THEN given + 1 ELSE given
  /\ doc' = [w \in Pages |-> NoDoc] /\ encoding' = {} /\ calls' = << >>
  /\ behind' = {} /\ evicted' = {} /\ UNCHANGED limit

HistoryMove ==
  \/ \E w \in Windows : StartSave(w) \/ Leaves(w) \/ \E k \in Weights : Arrives(w, k)
  \/ \E w \in Pages, what \in Update : Persist(w, what) \/ Alter(w, what)
  \/ \E e \in encoding : Send(e)
  \/ \E w \in Pages : Discard(w)
  \/ \E i \in Ids : OpenView(i)
  \/ \E i \in Ids \cup {0} : Strike(i)
  \/ SaveCapture \/ UpdateCapture \/ RemoveCaptures \/ CloseEditor \/ Stops

\* A step of a session is one of these, where the history is looked at closely, or leaves
\* the history alone.
LEMMA StepOfHistory ==
  [SessionNext]_sessionVars => closely' = closely /\ (UNCHANGED histVars \/ (closely /\ HistoryMove))
<1> SUFFICES ASSUME [SessionNext]_sessionVars
             PROVE  closely' = closely /\ (UNCHANGED histVars \/ (closely /\ HistoryMove))
  OBVIOUS
<1>1. CASE UNCHANGED sessionVars
  BY <1>1 DEF sessionVars
<1>2. CASE HistoryStep
  <2>1. CASE Duty
    <3>1. ASSUME NEW w \in Pages, StartSave(w) PROVE w \in Windows
      BY <3>1 DEF StartSave, Pages, Windows
    <3> QED BY <1>2, <2>1, <3>1 DEF HistoryStep, Duty, HistoryMove, Update
  <2> QED BY <1>2, <2>1 DEF HistoryStep, Handle, HistoryMove
<1>3. CASE Next /\ UNCHANGED histVars /\ UNCHANGED closely
  BY <1>3
<1>4. CASE LifecycleStep /\ UNCHANGED closely
  BY <1>4 DEF LifecycleStep
<1>5. CASE closely /\ UserStep /\ UNCHANGED closely
  BY <1>5 DEF UserStep, HistoryMove, Windows, Update
<1>6. CASE closely /\ CrashApp /\ UNCHANGED closely
  BY <1>6 DEF CrashApp, HistoryMove, Stops
<1>7. ASSUME NEW w \in Windows, PageStep(w), closely, UNCHANGED closely
      PROVE  UNCHANGED histVars \/ HistoryMove
  <2>1. Reloaded(w) => UNCHANGED histVars \/ Leaves(w)
    BY DEF Reloaded, Leaves
  <2>2. CASE Load(w) /\ IF page'[w].at = "working" THEN \E k \in Weights : Appear(w, page[w].token, k)
                                                   ELSE UNCHANGED histVars
    <3>1. page[w].at = "loading"
      BY <2>2 DEF Load
    <3>2. UNCHANGED histVars \/ \E k \in Weights : Arrives(w, k)
      BY <2>2, <3>1 DEF Arrives
    <3> QED BY <3>2 DEF HistoryMove
  <2>3. CASE \/ \E r \in RunIds : runs[r].route = w /\ Shoot(r) /\ Reloaded(w)
             \/ Delivered(w)
             \/ Close(w) /\ Reloaded(w)
    BY <2>1, <2>3 DEF Delivered, HistoryMove
  <2> QED BY <1>7, <2>2, <2>3 DEF PageStep
<1> QED BY <1>1, <1>2, <1>3, <1>4, <1>5, <1>6, <1>7 DEF SessionNext

-----------------------------------------------------------------------------
\* The types of the history
RowRec == [time : Times \cup {0}, weight : Weights \cup {0}, of : Versions, note : Versions]
DocRec == [open : BOOLEAN, time : Times \cup {0}, weight : Weights \cup {0}, id : Ids \cup {0},
           saver : {"no", "saving", "saved", "failed"}, content : Versions,
           note : Versions, told : Versions, owes : SUBSET {"meta", "content"}]
StoreTyped == store.rows \in [Ids -> RowRec] /\ \A f \in Images : store[f] \in [Ids -> Versions]

\* The types, with names for the rows and for what pages show.
LEMMA TypesAre ==
  HistoryTypeOK <=>
    /\ StoreTyped /\ doc \in [Pages -> DocRec]
    /\ encoding \subseteq Calls /\ calls \in Seq(Calls)
    /\ limit \in Limits /\ given \in 0..MaxIds /\ deeds \in 0..MaxDeeds
    /\ torn \subseteq Ids /\ behind \subseteq Pages /\ evicted \subseteq Times
BY DEF HistoryTypeOK, StoreTyped, RowRec, DocRec

\* Numbers that are used as versions.
LEMMA Versions0 ==
  /\ Nothing \in Versions /\ 0 \in Versions /\ Nothing = -1
  /\ 0..MaxDeeds \subseteq Versions /\ \A v \in Versions : v \in Int /\ v >= Nothing
  /\ \A a, b \in Versions : Larger(a, b) \in Versions /\ Larger(a, b) >= a /\ Larger(a, b) >= b
  /\ 0 \notin Times /\ NoDoc \in DocRec /\ NoRow \in RowRec
  /\ \A v \in Versions : v # Nothing => v >= 0
<1>1. MaxDeeds \in Nat /\ 0 \notin Times
  BY HistoryConstants
<1>2. Nothing \in Versions /\ 0 \in Versions /\ Nothing = -1 /\ 0..MaxDeeds \subseteq Versions
  BY <1>1 DEF Versions, Nothing
<1>3. \A v \in Versions : v \in Int /\ v >= Nothing /\ (v # Nothing => v >= 0)
  BY <1>1 DEF Versions, Nothing
<1>4. \A a, b \in Versions : Larger(a, b) \in Versions /\ Larger(a, b) >= a /\ Larger(a, b) >= b
  BY <1>3 DEF Larger
<1>5. NoDoc \in DocRec /\ NoRow \in RowRec
  BY <1>2 DEF NoDoc, NoRow, DocRec, RowRec
<1> QED BY <1>1, <1>2, <1>3, <1>4, <1>5

\* A message has the type of a message.
LEMMA MessageTyped ==
  ASSUME HistoryTypeOK, NEW w \in Pages, NEW what \in {"save", "meta", "content", "delete", "clear", "close"}
  PROVE  Message(what, w) \in Calls
<1>1. doc[w] \in DocRec
  BY TypesAre
<1>2. Larger(doc[w].content, doc[w].note) \in Versions
  BY <1>1, Versions0 DEF DocRec
<1> QED BY <1>1, <1>2 DEF Message, Calls, DocRec

\* What the list of the history asks for is a command.
LEMMA FromListTyped ==
  ASSUME NEW i \in Ids \cup {0}, NEW what \in {"delete", "clear"} PROVE FromList(what, i) \in Calls
BY Versions0 DEF FromList, Calls

\* A row that is inserted or edited has the type of a row.
LEMMA RowTyped ==
  ASSUME HistoryTypeOK, NEW m \in Calls PROVE RowOf(m) \in RowRec /\ (m.id \in Ids => EditOf(m) \in RowRec)
<1>1. m.id \in Ids => store.rows[m.id] \in RowRec
  BY TypesAre DEF StoreTyped
<1> QED BY <1>1 DEF RowOf, EditOf, RowRec, Calls

\* What a command leaves of the tables are tables.
LEMMA StoreStays ==
  ASSUME HistoryTypeOK, NEW m \in Calls, NEW steps, NEW k, Upto(steps, k), Outcome(m, steps, k)
  PROVE  StoreTyped'
<1>1. store' = After(store, steps, k)
  BY DEF Upto
<1>2. /\ store'.rows = [i \in Ids |-> store'.rows[i]]
      /\ \A f \in Images : store'[f] = [i \in Ids |-> store'[f][i]]
  BY <1>1, AfterTables DEF Tables, Images
<1>3. ASSUME NEW i \in Ids PROVE store'.rows[i] \in RowRec
  <2>1. PartRow(m, i) /\ store.rows[i] \in RowRec
    BY TypesAre DEF Outcome, StoreTyped
  <2> QED BY <2>1, RowTyped, Versions0 DEF PartRow, Kept
<1>4. ASSUME NEW i \in Ids, NEW f \in Images PROVE store'[f][i] \in Versions
  <2>1. PartImage(m, f, i) /\ store[f][i] \in Versions /\ m.content \in Versions
    BY TypesAre DEF Outcome, StoreTyped, Calls
  <2> QED BY <2>1, Versions0 DEF PartImage
<1> QED BY <1>2, <1>3, <1>4 DEF StoreTyped

\* The call at the head is taken off the others.
LEMMA CallsOff ==
  ASSUME HistoryTypeOK, calls # << >>
  PROVE  /\ Len(calls) \in Nat /\ 1 \in DOMAIN calls /\ Head(calls) = calls[1] /\ Head(calls) \in Calls
         /\ DOMAIN calls = 1..Len(calls)
         /\ Tail(calls) \in Seq(Calls) /\ DOMAIN Tail(calls) = 1..Len(calls) - 1
         /\ \A n \in 1..Len(calls) - 1 : Tail(calls)[n] = calls[n + 1] /\ n + 1 \in DOMAIN calls /\ n + 1 # 1
<1>1. calls \in Seq(Calls)
  BY TypesAre
<1>2. Len(calls) \in Nat /\ Len(calls) # 0 /\ DOMAIN calls = 1..Len(calls)
  BY <1>1
<1> QED BY <1>1, <1>2, HeadTailProperties

\* A call is added to the others.
LEMMA CallsOn ==
  ASSUME NEW s \in Seq(Calls), NEW e \in Calls
  PROVE  /\ Append(s, e) \in Seq(Calls) /\ DOMAIN s = 1..Len(s) /\ Len(s) \in Nat
         /\ DOMAIN Append(s, e) = 1..Len(s) + 1
         /\ \A n \in 1..Len(s) : Append(s, e)[n] = s[n]
         /\ Append(s, e)[Len(s) + 1] = e
         /\ {Append(s, e)[n] : n \in DOMAIN Append(s, e)} = {s[n] : n \in DOMAIN s} \cup {e}
<1>1. /\ Append(s, e) \in Seq(Calls) /\ DOMAIN s = 1..Len(s) /\ Len(s) \in Nat
      /\ DOMAIN Append(s, e) = 1..Len(s) + 1
      /\ \A n \in 1..Len(s) : Append(s, e)[n] = s[n]
      /\ Append(s, e)[Len(s) + 1] = e
  BY AppendProperties
<1>2. {Append(s, e)[n] : n \in 1..Len(s) + 1} = {s[n] : n \in 1..Len(s)} \cup {e}
  <2>1. \A n \in 1..Len(s) + 1 : n \in 1..Len(s) \/ n = Len(s) + 1
    BY <1>1
  <2>2. Len(s) + 1 \in 1..Len(s) + 1 /\ 1..Len(s) \subseteq 1..Len(s) + 1
    BY <1>1
  <2> HIDE DEF Calls
  <2> DEFINE a == Append(s, e)
  <2>3. (\A n \in 1..Len(s) : a[n] = s[n]) /\ a[Len(s) + 1] = e
    BY <1>1
  <2> HIDE DEF a
  <2>4. {a[n] : n \in 1..Len(s) + 1} = {s[n] : n \in 1..Len(s)} \cup {e}
    BY <2>1, <2>2, <2>3
  <2> QED BY <2>4 DEF a
<1> QED BY <1>1, <1>2

\* What is on its way is a message, and SentFor() it holds.
LEMMA OnWayTyped == ASSUME HistoryTypeOK PROVE OnWay \subseteq Calls /\ \A n \in DOMAIN calls : calls[n] \in OnWay
<1>1. calls \in Seq(Calls) /\ encoding \subseteq Calls
  BY TypesAre
<1>2. \A n \in DOMAIN calls : calls[n] \in Calls
  BY <1>1
<1> QED BY <1>1, <1>2 DEF OnWay

\* The command that is handled, and what it comes to.
LEMMA HeadOutcome ==
  ASSUME HistoryTypeOK, Papers, calls # << >>, Head(calls).do = "save" => given + 1 \in Ids,
         NEW steps \in StepsOf(Head(calls)), NEW k \in 0..Len(steps), Upto(steps, k)
  PROVE  /\ Outcome(Head(calls), steps, k) /\ StoreTyped' /\ torn' \subseteq Ids
         /\ Head(calls).do = "save" /\ k = Len(steps) => \E q, n : Pruned(Head(calls), q, n)
         /\ Head(calls) \in Calls /\ Head(calls) \in OnWay /\ SentFor(Head(calls))
<1> DEFINE m == Head(calls)
<1>1. m \in Calls /\ m \in OnWay /\ SentFor(m)
  BY CallsOff, OnWayTyped DEF Papers
<1> HIDE DEF m
<1>2. Outcome(m, steps, k) /\ (m.do = "save" /\ k = Len(steps) => \E q, n : Pruned(m, q, n))
  BY <1>1, CommandOutcome DEF m
<1>3. StoreTyped'
  BY <1>1, <1>2, StoreStays
<1>4. torn' \subseteq Ids
  <2>1. torn \subseteq Ids /\ Kept(store) \subseteq Ids
    BY TypesAre DEF Kept
  <2>2. m.do \in Update \cup {"delete"} => m.id \in Ids
    BY <1>1 DEF SentFor, Calls
  <2>3. m.do = "save" => given + 1 \in Ids
    BY DEF m
  <2> QED BY <1>2, <2>1, <2>2, <2>3 DEF Outcome, Reach
<1> QED BY <1>1, <1>2, <1>3, <1>4 DEF m

\* What a command that is handled does: its steps, of one outcome.
Handles(m, steps, k) ==
  /\ calls # << >> /\ m = Head(calls) /\ steps \in StepsOf(m) /\ k \in 0..Len(steps)
  /\ Upto(steps, k) /\ Outcome(m, steps, k)
  /\ m.do = "save" /\ k = Len(steps) => \E q, n : Pruned(m, q, n)
  /\ StoreTyped' /\ torn' \subseteq Ids
  /\ m \in Calls /\ m \in OnWay /\ SentFor(m)
  /\ deeds' \in {deeds, deeds + 1} /\ deeds' \in 0..MaxDeeds

\* A save is handled up to some step, and its page hears how it ended.
LEMMA SaveHandles ==
  ASSUME HistoryTypeOK, Papers, SaveCapture
  PROVE  \E steps : \E k \in 0..Len(steps) :
           LET m == Head(calls)
           IN /\ Handles(m, steps, k) /\ m.do = "save" /\ given + 1 \in Ids
              /\ doc' = IF ~Waits(m) THEN doc
                        ELSE IF k < Len(steps) THEN [doc EXCEPT ![m.page].saver = "failed"]
                        ELSE [doc EXCEPT ![m.page].saver = "saved", ![m.page].id = given + 1, ![m.page].told = m.stamp]
<1> DEFINE m == Head(calls)
<1>1. calls # << >> /\ m.do = "save" /\ given + 1 \in Ids
  BY TypesAre, HistoryConstants DEF SaveCapture, Ids
<1>2. PICK steps \in Saves(m) : \E k \in 0..Len(steps) :
        /\ Run(steps, k)
        /\ doc' = IF ~Waits(m) THEN doc
                  ELSE IF k < Len(steps) THEN [doc EXCEPT ![m.page].saver = "failed"]
                  ELSE [doc EXCEPT ![m.page].saver = "saved", ![m.page].id = given + 1, ![m.page].told = m.stamp]
  BY DEF SaveCapture
<1>3. PICK k \in 0..Len(steps) :
        /\ Run(steps, k)
        /\ doc' = IF ~Waits(m) THEN doc
                  ELSE IF k < Len(steps) THEN [doc EXCEPT ![m.page].saver = "failed"]
                  ELSE [doc EXCEPT ![m.page].saver = "saved", ![m.page].id = given + 1, ![m.page].told = m.stamp]
  BY <1>2
<1>4. steps \in StepsOf(m) /\ Upto(steps, k)
  BY <1>1, <1>3 DEF StepsOf, Run
<1>5. deeds' \in {deeds, deeds + 1} /\ deeds' \in 0..MaxDeeds
  BY <1>3, TypesAre, HistoryConstants DEF Run, MayDo
<1>6. Handles(m, steps, k)
  BY <1>1, <1>4, <1>5, HeadOutcome DEF Handles
<1> QED BY <1>1, <1>3, <1>6

\* So is an edit, which leaves behind who shows something else.
LEMMA UpdateHandles ==
  ASSUME HistoryTypeOK, Papers, UpdateCapture
  PROVE  \E k \in 0..Len(Updates(Head(calls))) :
           LET m == Head(calls)
               others == {w \in Pages \ {m.page} : doc[w].open /\ doc[w].id = m.id}
               late == IF Waits(m) /\ m.stamp < doc[m.page].told THEN {m.page} ELSE {}
           IN /\ Handles(m, Updates(m), k) /\ m.do \in Update /\ Amended(m, k)
              /\ behind' = behind \cup others \cup late \cup (IF k < Len(Updates(m)) THEN {m.page} ELSE {})
<1> DEFINE m == Head(calls)
           others == {w \in Pages \ {m.page} : doc[w].open /\ doc[w].id = m.id}
           late == IF Waits(m) /\ m.stamp < doc[m.page].told THEN {m.page} ELSE {}
<1>1. calls # << >> /\ m.do \in Update /\ m.do # "save"
  BY DEF UpdateCapture, Update
<1>2. PICK k \in 0..Len(Updates(m)) :
        /\ Run(Updates(m), k)
        /\ behind' = behind \cup others \cup late \cup (IF k < Len(Updates(m)) THEN {m.page} ELSE {})
  BY DEF UpdateCapture
<1>3. Updates(m) \in StepsOf(m) /\ Upto(Updates(m), k)
  BY <1>1, <1>2 DEF StepsOf, Run, Update
<1>4. deeds' \in {deeds, deeds + 1} /\ deeds' \in 0..MaxDeeds
  BY <1>2, TypesAre, HistoryConstants DEF Run, MayDo
<1>5. Handles(m, Updates(m), k)
  BY <1>1, <1>3, <1>4, HeadOutcome DEF Handles
<1>6. Amended(m, k)
  BY <1>1, <1>3, <1>5, UpdateOutcome DEF Handles
<1> QED BY <1>1, <1>2, <1>5, <1>6

\* So is the removal of captures.
LEMMA RemoveHandles ==
  ASSUME HistoryTypeOK, Papers, RemoveCaptures
  PROVE  \E steps : \E k \in 0..Len(steps) :
           LET m == Head(calls)
           IN /\ Handles(m, steps, k) /\ m.do \in {"delete", "clear"}
              /\ calls' \in {Tail(calls), Append(Tail(calls), Message("close", m.page))}
              /\ calls' # Tail(calls) => m.page \in Pages
<1> DEFINE m == Head(calls)
<1>1. calls # << >> /\ m.do \in {"delete", "clear"} /\ m.do # "save"
  BY DEF RemoveCaptures
<1>2. PICK steps \in StepsOf(m) : \E k \in 0..Len(steps) :
        /\ Run(steps, k)
        /\ calls' = IF k = Len(steps) /\ Waits(m) THEN Append(Tail(calls), Message("close", m.page)) ELSE Tail(calls)
  BY DEF RemoveCaptures
<1>3. PICK k \in 0..Len(steps) :
        /\ Run(steps, k)
        /\ calls' = IF k = Len(steps) /\ Waits(m) THEN Append(Tail(calls), Message("close", m.page)) ELSE Tail(calls)
  BY <1>2
<1>4. Upto(steps, k)
  BY <1>3 DEF Run
<1>5. deeds' \in {deeds, deeds + 1} /\ deeds' \in 0..MaxDeeds
  BY <1>3, TypesAre, HistoryConstants DEF Run, MayDo
<1>6. Handles(m, steps, k)
  BY <1>1, <1>2, <1>4, <1>5, HeadOutcome DEF Handles
<1> QED BY <1>1, <1>3, <1>6 DEF Waits

\* And so is the command that the end of the process cuts short.
LEMMA StopHandles ==
  ASSUME HistoryTypeOK, Papers, Stops
  PROVE  /\ deeds' = deeds + 1 /\ deeds' \in 0..MaxDeeds /\ StoreTyped' /\ torn' \subseteq Ids
         /\ \/ UNCHANGED <<store, torn, given>>
            \/ /\ \E steps : \E k \in 0..Len(steps) : Handles(Head(calls), steps, k)
               /\ Head(calls).do = "save" => given + 1 \in Ids
               /\ given' = IF Head(calls).do = "save" THEN given + 1 ELSE given
<1>1. deeds' = deeds + 1 /\ deeds' \in 0..MaxDeeds
  BY TypesAre, HistoryConstants DEF Stops, MayDo
<1>2. CASE calls = << >>
  BY <1>1, <1>2, TypesAre DEF Stops, StoreTyped
<1>3. CASE calls # << >>
  <2>1. Head(calls).do = "save" => given + 1 \in Ids
    BY <1>3, TypesAre, HistoryConstants DEF Stops, Ids
  <2>2. PICK steps \in StepsOf(Head(calls)) : \E k \in 0..Len(steps) : Upto(steps, k)
    BY <1>3 DEF Stops
  <2>3. PICK k \in 0..Len(steps) : Upto(steps, k)
    BY <2>2
  <2>4. Handles(Head(calls), steps, k)
    BY <1>1, <1>3, <2>1, <2>3, HeadOutcome DEF Handles
  <2> QED BY <1>1, <1>3, <2>1, <2>4 DEF Stops, Handles
<1> QED BY <1>2, <1>3

-----------------------------------------------------------------------------
\* What the steps do to the tables, to what is on its way and to the pages

\* Steps that leave the tables alone.
Asides ==
  \/ \E w \in Windows : StartSave(w) \/ Leaves(w) \/ \E k \in Weights : Arrives(w, k)
  \/ \E w \in Pages, what \in Update : Persist(w, what) \/ Alter(w, what)
  \/ \E e \in encoding : Send(e)
  \/ \E w \in Pages : Discard(w)
  \/ \E i \in Ids : OpenView(i)
  \/ \E i \in Ids \cup {0} : Strike(i)
  \/ CloseEditor

\* What they leave alone.
LEMMA AsidesLeave ==
  ASSUME HistoryTypeOK, Asides
  PROVE  UNCHANGED <<store, torn, given, evicted, limit>> /\ deeds' \in {deeds, deeds + 1} /\ deeds' \in 0..MaxDeeds
<1>1. UNCHANGED <<store, torn, given, evicted, limit>> /\ (deeds' = deeds \/ MayDo)
  BY DEF Asides, StartSave, Leaves, Vanish, Arrives, Appear, Persist, Alter, Send, Discard, OpenView, Strike, CloseEditor, ghosts
<1> QED BY <1>1, TypesAre, HistoryConstants DEF MayDo

\* Numbers only grow, and the tables stay tables.
LEMMA Grows ==
  ASSUME HistoryTypeOK, Papers, HistoryMove
  PROVE  /\ given \in Nat /\ deeds \in Nat /\ given' \in {given, given + 1} /\ deeds' \in {deeds, deeds + 1}
         /\ given' \in 0..MaxIds /\ deeds' \in 0..MaxDeeds
         /\ limit' = limit /\ StoreTyped' /\ torn' \subseteq Ids
<1>0. given \in 0..MaxIds /\ given \in Nat /\ deeds \in Nat /\ StoreTyped /\ torn \subseteq Ids
  BY TypesAre, HistoryConstants
<1>1. CASE Asides
  BY <1>0, <1>1, AsidesLeave DEF StoreTyped
<1>2. CASE SaveCapture
  <2>1. PICK steps : \E k \in 0..Len(steps) : Handles(Head(calls), steps, k) /\ given + 1 \in Ids
    BY <1>2, SaveHandles
  <2>2. PICK k \in 0..Len(steps) : Handles(Head(calls), steps, k) /\ given + 1 \in Ids
    BY <2>1
  <2>3. given' = given + 1 /\ limit' = limit
    BY <1>2 DEF SaveCapture
  <2>4. given + 1 \in 0..MaxIds
    BY <2>2, HistoryConstants DEF Ids
  <2> QED BY <1>0, <2>2, <2>3, <2>4 DEF Handles
<1>3. CASE UpdateCapture
  <2>1. PICK k \in 0..Len(Updates(Head(calls))) : Handles(Head(calls), Updates(Head(calls)), k)
    BY <1>3, UpdateHandles
  <2>2. given' = given /\ limit' = limit
    BY <1>3 DEF UpdateCapture
  <2> QED BY <1>0, <2>1, <2>2 DEF Handles
<1>4. CASE RemoveCaptures
  <2>1. PICK steps : \E k \in 0..Len(steps) : Handles(Head(calls), steps, k)
    BY <1>4, RemoveHandles
  <2>2. given' = given /\ limit' = limit
    BY <1>4 DEF RemoveCaptures
  <2> QED BY <1>0, <2>1, <2>2 DEF Handles
<1>5. CASE Stops
  <2>1. limit' = limit /\ deeds' = deeds + 1 /\ deeds' \in 0..MaxDeeds /\ StoreTyped' /\ torn' \subseteq Ids
    BY <1>5, StopHandles DEF Stops
  <2>2. given' = given \/ (given + 1 \in Ids /\ given' = given + 1)
    BY <1>5, StopHandles
  <2>3. given + 1 \in Ids => given + 1 \in 0..MaxIds
    BY HistoryConstants DEF Ids
  <2> QED BY <1>0, <2>1, <2>2, <2>3
<1> QED BY <1>1, <1>2, <1>3, <1>4, <1>5 DEF HistoryMove, Asides

\* The messages that are new: a save of a page that starts one, an edit that a page pushes,
\* or one that concerns neither.
Saved(w, e) == w \in Windows /\ StartSave(w) /\ e = Message("save", w)
Pushes(w, what, e) == w \in Pages /\ what \in Update /\ Persist(w, what) /\ doc[w].id # 0 /\ e = Message(what, w)
Otherwise(e) ==
  /\ e \in Calls /\ e.do \in {"delete", "clear", "close"} /\ e.id \in 0..given /\ (e.do = "delete" => e.id # 0)
  /\ e.stamp <= deeds

\* A message of a page is numbered as its capture is.
LEMMA MessageFits ==
  ASSUME HistoryTypeOK, Papers, NEW w \in Pages, doc[w].open, NEW what \in {"save", "meta", "content", "delete", "clear", "close"}
  PROVE  /\ Message(what, w) \in Calls
         /\ Message(what, w).stamp <= deeds /\ Message(what, w).id \in 0..given /\ Message(what, w).do = what
         /\ Message(what, w).page = w /\ Message(what, w).time = doc[w].time /\ Message(what, w).id = doc[w].id
         /\ Message(what, w).note = doc[w].note /\ Message(what, w).content = doc[w].content
         /\ Message(what, w).stamp = Larger(doc[w].content, doc[w].note)
<1>1. Message(what, w) \in Calls
  BY MessageTyped
<1>2. doc[w].content \in 0..deeds /\ doc[w].note \in Nothing..deeds /\ doc[w].id \in 0..given /\ deeds \in Nat
  BY TypesAre, HistoryConstants DEF Papers, ShownDoc
<1>3. Larger(doc[w].content, doc[w].note) <= deeds
  BY <1>2 DEF Larger
<1> QED BY <1>1, <1>2, <1>3 DEF Message

\* What is on its way after a step.
LEMMA OnWayMoves ==
  ASSUME HistoryTypeOK, Stocked, Papers, HistoryMove
  PROVE  /\ encoding' \subseteq Calls /\ calls' \in Seq(Calls)
         /\ \A e \in OnWay' : \/ e \in OnWay \/ Otherwise(e)
                              \/ \E w \in Windows : Saved(w, e)
                              \/ \E w \in Pages, what \in Update : Pushes(w, what, e)
<1>0. calls \in Seq(Calls) /\ encoding \subseteq Calls /\ OnWay = encoding \cup {calls[n] : n \in DOMAIN calls}
  BY TypesAre DEF OnWay
<1> DEFINE G(e) == \/ e \in OnWay \/ Otherwise(e)
                   \/ \E w \in Windows : Saved(w, e)
                   \/ \E w \in Pages, what \in Update : Pushes(w, what, e)
<1>a. ASSUME NEW e \in Calls, G(e), calls' = Append(calls, e), encoding' \subseteq encoding
      PROVE  encoding' \subseteq Calls /\ calls' \in Seq(Calls) /\ \A f \in OnWay' : G(f)
  <2>1. calls' \in Seq(Calls) /\ {calls'[n] : n \in DOMAIN calls'} = {calls[n] : n \in DOMAIN calls} \cup {e}
    BY <1>0, <1>a, CallsOn
  <2>2. OnWay' \subseteq OnWay \cup {e}
    BY <1>0, <1>a, <2>1 DEF OnWay
  <2> QED BY <1>0, <1>a, <2>1, <2>2
<1>b. ASSUME NEW e \in Calls, G(e), calls' = calls, encoding' \subseteq encoding \cup {e}
      PROVE  encoding' \subseteq Calls /\ calls' \in Seq(Calls) /\ \A f \in OnWay' : G(f)
  <2>1. OnWay' \subseteq OnWay \cup {e}
    BY <1>0, <1>b DEF OnWay
  <2> QED BY <1>0, <1>b, <2>1
<1>c. ASSUME calls # << >>, calls' = Tail(calls), encoding' \subseteq encoding
      PROVE  encoding' \subseteq Calls /\ calls' \in Seq(Calls) /\ \A f \in OnWay' : f \in OnWay
  <2>1. Tail(calls) \in Seq(Calls) /\ \A n \in DOMAIN Tail(calls) : Tail(calls)[n] = calls[n + 1] /\ n + 1 \in DOMAIN calls
    BY <1>c, CallsOff
  <2>2. OnWay' \subseteq OnWay
    BY <1>0, <1>c, <2>1 DEF OnWay
  <2> QED BY <1>0, <1>c, <2>1, <2>2
<1>d. ASSUME calls' = calls, encoding' \subseteq encoding
      PROVE  encoding' \subseteq Calls /\ calls' \in Seq(Calls) /\ \A f \in OnWay' : f \in OnWay
  BY <1>0, <1>d DEF OnWay
<1>1. ASSUME NEW w \in Windows, StartSave(w) PROVE encoding' \subseteq Calls /\ calls' \in Seq(Calls) /\ \A f \in OnWay' : G(f)
  <2>1. w \in Pages
    BY DEF Windows, Pages
  <2>2. Message("save", w) \in Calls /\ Saved(w, Message("save", w))
    BY <1>1, <2>1, MessageTyped DEF Saved
  <2>3. calls' = calls /\ encoding' \subseteq encoding \cup {Message("save", w)}
    BY <1>1 DEF StartSave
  <2> QED BY <1>b, <2>2, <2>3
<1>2. ASSUME NEW w \in Pages, NEW what \in Update, Persist(w, what)
      PROVE  encoding' \subseteq Calls /\ calls' \in Seq(Calls) /\ \A f \in OnWay' : G(f)
  <2>1. CASE doc[w].id = 0
    <3>1. calls' = calls /\ encoding' \subseteq encoding
      BY <1>2, <2>1 DEF Persist
    <3> QED BY <1>d, <3>1
  <2>2. CASE doc[w].id # 0
    <3>1. Message(what, w) \in Calls /\ Pushes(w, what, Message(what, w))
      BY <1>2, <2>2, MessageTyped DEF Pushes, Update
    <3>2. CASE what = "meta"
      <4>1. calls' = Append(calls, Message(what, w)) /\ encoding' \subseteq encoding
        BY <1>2, <2>2, <3>2 DEF Persist
      <4> HIDE DEF G
      <4>2. G(Message(what, w))
        BY <3>1 DEF G
      <4> QED BY <1>a, <3>1, <4>1, <4>2
    <3>3. CASE what # "meta"
      <4>1. calls' = calls /\ encoding' \subseteq encoding \cup {Message(what, w)}
        BY <1>2, <2>2, <3>3 DEF Persist
      <4> HIDE DEF G
      <4>2. G(Message(what, w))
        BY <3>1 DEF G
      <4> QED BY <1>b, <3>1, <4>1, <4>2
    <3> QED BY <3>2, <3>3
  <2> QED BY <2>1, <2>2
<1>3. ASSUME NEW e \in encoding, Send(e) PROVE encoding' \subseteq Calls /\ calls' \in Seq(Calls) /\ \A f \in OnWay' : G(f)
  <2>1. e \in Calls /\ G(e)
    BY <1>0
  <2>2. calls' = Append(calls, e) /\ encoding' \subseteq encoding
    BY <1>3 DEF Send
  <2> HIDE DEF G
  <2> QED BY <1>a, <2>1, <2>2
<1>4. ASSUME NEW w \in Pages, Discard(w) PROVE encoding' \subseteq Calls /\ calls' \in Seq(Calls) /\ \A f \in OnWay' : G(f)
  <2> DEFINE e == Message(IF doc[w].id # 0 THEN "delete" ELSE "close", w)
  <2>1. doc[w].open /\ calls' = Append(calls, e) /\ encoding' \subseteq encoding
    BY <1>4 DEF Discard
  <2>2. e \in Calls /\ Otherwise(e)
    BY <2>1, MessageFits DEF Otherwise
  <2> HIDE DEF e
  <2>3. G(e)
    BY <2>2
  <2> HIDE DEF G
  <2> QED BY <1>a, <2>1, <2>2, <2>3
<1>5. ASSUME NEW i \in Ids \cup {0}, Strike(i) PROVE encoding' \subseteq Calls /\ calls' \in Seq(Calls) /\ \A f \in OnWay' : G(f)
  <2> DEFINE e == FromList(IF i = 0 THEN "clear" ELSE "delete", i)
  <2>1. calls' = Append(calls, e) /\ encoding' \subseteq encoding /\ (i = 0 \/ i \in Kept(store))
    BY <1>5 DEF Strike
  <2>2. e \in Calls
    BY FromListTyped
  <2>3. Otherwise(e)
    <3>1. i \in 0..given
      BY <2>1, TypesAre DEF Stocked
    <3>2. deeds \in Nat
      BY TypesAre, HistoryConstants
    <3> QED BY <2>2, <3>1, <3>2 DEF Otherwise, FromList, Nothing
  <2> HIDE DEF e
  <2>4. G(e)
    BY <2>3
  <2> HIDE DEF G
  <2> QED BY <1>a, <2>1, <2>2, <2>4
<1>6. ASSUME SaveCapture \/ UpdateCapture
      PROVE  encoding' \subseteq Calls /\ calls' \in Seq(Calls) /\ \A f \in OnWay' : G(f)
  <2>1. calls # << >> /\ calls' = Tail(calls) /\ encoding' \subseteq encoding
    BY <1>6 DEF SaveCapture, UpdateCapture
  <2> QED BY <1>c, <2>1
<1>7. ASSUME RemoveCaptures
      PROVE  encoding' \subseteq Calls /\ calls' \in Seq(Calls) /\ \A f \in OnWay' : G(f)
  <2>1. calls # << >> /\ encoding' \subseteq encoding
    BY <1>7 DEF RemoveCaptures
  <2>2. CASE calls' = Tail(calls)
    BY <1>c, <2>1, <2>2
  <2>3. CASE calls' # Tail(calls)
    <3> DEFINE m == Head(calls)
               e == Message("close", m.page)
    <3>1. calls' = Append(Tail(calls), e) /\ m.page \in Pages /\ doc[m.page].open
      BY <1>7, <2>3 DEF RemoveCaptures, Waits
    <3>2. e \in Calls /\ Otherwise(e)
      BY <3>1, MessageFits DEF Otherwise
    <3> HIDE DEF e, m
    <3>3. Tail(calls) \in Seq(Calls) /\ \A n \in DOMAIN Tail(calls) : Tail(calls)[n] = calls[n + 1] /\ n + 1 \in DOMAIN calls
      BY <2>1, CallsOff
    <3>4. calls' \in Seq(Calls) /\ {calls'[n] : n \in DOMAIN calls'} = {Tail(calls)[n] : n \in DOMAIN Tail(calls)} \cup {e}
      BY <3>1, <3>2, <3>3, CallsOn
    <3>5. OnWay' \subseteq OnWay \cup {e}
      BY <1>0, <2>1, <3>3, <3>4 DEF OnWay
    <3> QED BY <1>0, <2>1, <3>2, <3>4, <3>5
  <2> QED BY <2>2, <2>3
<1>8. ASSUME CloseEditor
      PROVE  encoding' \subseteq Calls /\ calls' \in Seq(Calls) /\ \A f \in OnWay' : G(f)
  <2>1. calls # << >> /\ calls' = Tail(calls) /\ encoding' \subseteq encoding
    BY <1>8 DEF CloseEditor, Vanish
  <2> QED BY <1>c, <2>1
<1>9. ASSUME Stops
      PROVE  encoding' \subseteq Calls /\ calls' \in Seq(Calls) /\ \A f \in OnWay' : G(f)
  <2>1. encoding' = {} /\ calls' = << >>
    BY <1>9 DEF Stops
  <2>2. OnWay' = {} /\ calls' \in Seq(Calls)
    BY <2>1 DEF OnWay
  <2> QED BY <2>1, <2>2
<1>10. ASSUME NEW w \in Windows, Leaves(w) \/ \E k \in Weights : Arrives(w, k)
       PROVE  encoding' \subseteq Calls /\ calls' \in Seq(Calls) /\ \A f \in OnWay' : G(f)
  <2>1. calls' = calls /\ encoding' \subseteq encoding
    BY <1>10 DEF Leaves, Vanish, Arrives, Appear
  <2> QED BY <1>d, <2>1
<1>11. ASSUME \/ \E w \in Pages, what \in Update : Alter(w, what)
              \/ \E i \in Ids : OpenView(i)
       PROVE  encoding' \subseteq Calls /\ calls' \in Seq(Calls) /\ \A f \in OnWay' : G(f)
  <2>1. calls' = calls /\ encoding' \subseteq encoding
    BY <1>11 DEF Alter, OpenView
  <2> QED BY <1>d, <2>1
<1> HIDE DEF G
<1>12. encoding' \subseteq Calls /\ calls' \in Seq(Calls) /\ \A f \in OnWay' : G(f)
  <2>1. \A f \in OnWay : G(f)
    BY DEF G
  <2>2. CASE \E w \in Windows : StartSave(w) \/ Leaves(w) \/ \E k \in Weights : Arrives(w, k)
    BY <1>1, <1>10, <2>1, <2>2
  <2>3. CASE \/ \E w \in Pages, what \in Update : Persist(w, what) \/ Alter(w, what)
             \/ \E i \in Ids : OpenView(i)
    BY <1>2, <1>11, <2>1, <2>3
  <2>4. CASE \/ \E e \in encoding : Send(e)
             \/ \E w \in Pages : Discard(w)
             \/ \E i \in Ids \cup {0} : Strike(i)
    BY <1>3, <1>4, <1>5, <2>4
  <2>5. CASE SaveCapture \/ UpdateCapture \/ RemoveCaptures \/ CloseEditor \/ Stops
    BY <1>6, <1>7, <1>8, <1>9, <2>1, <2>5
  <2> QED BY <2>2, <2>3, <2>4, <2>5 DEF HistoryMove
<1> QED BY <1>12 DEF G

\* What becomes of a page: it stays or goes, ...
Alters(w, what) ==
  /\ Alter(w, what)
  /\ \E k \in Weights \cup {doc[w].weight} :
       doc'[w] = [doc[w] EXCEPT !.content = IF what = "content" THEN deeds' ELSE @, !.weight = k,
                                !.note = IF what = "meta" THEN deeds' ELSE @, !.owes = @ \cup {what}]
Starts(w) == w \in Windows /\ StartSave(w) /\ doc'[w] = [doc[w] EXCEPT !.saver = "saving"]
Settles(w, what) == Persist(w, what) /\ doc'[w] = [doc[w] EXCEPT !.owes = @ \ {what}]
\* ... gets a capture or a row to show, ...
Comes(w, k) ==
  /\ w \in Windows /\ Arrives(w, k)
  /\ doc'[w] = [NoDoc EXCEPT !.open = TRUE, !.time = page[w].token, !.weight = k, !.content = 0, !.note = 0]
Views(w, i) ==
  /\ w = "view" /\ OpenView(i)
  /\ doc'[w] = [NoDoc EXCEPT !.open = TRUE, !.time = store.rows[i].time, !.weight = store.rows[i].weight,
                             !.id = i, !.content = store.full[i], !.note = store.rows[i].note]
\* ... or hears of its save, or of an edit.
Told(w) == calls # << >> /\ Waits(Head(calls)) /\ w = Head(calls).page
HearsNo(w) == SaveCapture /\ Told(w) /\ given + 1 \in torn' /\ doc'[w] = [doc[w] EXCEPT !.saver = "failed"]
HearsYes(w) ==
  /\ SaveCapture /\ Told(w)
  /\ doc'[w] = [doc[w] EXCEPT !.saver = "saved", !.id = given + 1, !.told = Head(calls).stamp]
Hears(w) ==
  /\ UpdateCapture /\ Told(w)
  /\ doc'[w] = [doc[w] EXCEPT !.told = Larger(@, Head(calls).stamp)]

DocMove(w) ==
  \/ doc'[w] = doc[w] \/ doc'[w] = NoDoc
  \/ Starts(w) \/ \E what \in Update : Settles(w, what) \/ Alters(w, what)
  \/ \E k \in Weights : Comes(w, k)
  \/ \E i \in Ids : Views(w, i)
  \/ HearsNo(w) \/ HearsYes(w) \/ Hears(w)

\* Every page moves so.
LEMMA DocMoves == ASSUME HistoryTypeOK, Papers, HistoryMove, NEW w \in Pages PROVE DocMove(w) /\ DOMAIN doc' = Pages /\ doc' = [v \in Pages |-> doc'[v]]
<1>0. doc \in [Pages -> DocRec] /\ Windows \subseteq Pages
  BY TypesAre DEF Windows, Pages
<1>a. ASSUME NEW v \in Pages, NEW d, doc' = [doc EXCEPT ![v] = d], v = w => (doc'[w] = d => DocMove(w))
      PROVE  DocMove(w) /\ DOMAIN doc' = Pages /\ doc' = [u \in Pages |-> doc'[u]]
  <2>1. CASE v = w
    BY <1>0, <1>a, <2>1
  <2>2. CASE v # w
    <3>1. doc'[w] = doc[w]
      BY <1>0, <1>a, <2>2
    <3> QED BY <1>0, <1>a, <3>1 DEF DocMove
  <2> QED BY <2>1, <2>2
<1>b. ASSUME doc' = doc PROVE DocMove(w) /\ DOMAIN doc' = Pages /\ doc' = [u \in Pages |-> doc'[u]]
  BY <1>0, <1>b DEF DocMove
<1>1. ASSUME NEW v \in Windows, StartSave(v) PROVE DocMove(w) /\ DOMAIN doc' = Pages /\ doc' = [u \in Pages |-> doc'[u]]
  <2> DEFINE d == [doc[v] EXCEPT !.saver = "saving"]
  <2>1. doc' = [doc EXCEPT ![v] = d] /\ v \in Pages
    BY <1>0, <1>1 DEF StartSave
  <2>2. v = w => (doc'[w] = d => DocMove(w))
    BY <1>1 DEF DocMove, Starts
  <2> HIDE DEF d
  <2> QED BY <1>a, <2>1, <2>2
<1>2. ASSUME NEW v \in Windows, Leaves(v) PROVE DocMove(w) /\ DOMAIN doc' = Pages /\ doc' = [u \in Pages |-> doc'[u]]
  <2>1. doc' = [doc EXCEPT ![v] = NoDoc] /\ v \in Pages
    BY <1>0, <1>2 DEF Leaves, Vanish
  <2> QED BY <1>a, <2>1 DEF DocMove
<1>3. ASSUME NEW v \in Windows, NEW k \in Weights, Arrives(v, k) PROVE DocMove(w) /\ DOMAIN doc' = Pages /\ doc' = [u \in Pages |-> doc'[u]]
  <2> DEFINE d == [NoDoc EXCEPT !.open = TRUE, !.time = page[v].token, !.weight = k, !.content = 0, !.note = 0]
  <2>1. doc' = [doc EXCEPT ![v] = d] /\ v \in Pages
    BY <1>0, <1>3 DEF Arrives, Appear
  <2>2. v = w => (doc'[w] = d => DocMove(w))
    BY <1>3 DEF DocMove, Comes
  <2> HIDE DEF d
  <2> QED BY <1>a, <2>1, <2>2
<1>4. ASSUME NEW v \in Pages, NEW what \in Update, Persist(v, what) PROVE DocMove(w) /\ DOMAIN doc' = Pages /\ doc' = [u \in Pages |-> doc'[u]]
  <2> DEFINE d == [doc[v] EXCEPT !.owes = @ \ {what}]
  <2>1. doc' = [doc EXCEPT ![v] = d]
    BY <1>4 DEF Persist
  <2>2. v = w => (doc'[w] = d => DocMove(w))
    BY <1>4 DEF DocMove, Settles
  <2> HIDE DEF d
  <2> QED BY <1>a, <2>1, <2>2
<1>5. ASSUME NEW v \in Pages, NEW what \in Update, Alter(v, what) PROVE DocMove(w) /\ DOMAIN doc' = Pages /\ doc' = [u \in Pages |-> doc'[u]]
  <2> DEFINE d(k) == [doc[v] EXCEPT !.content = IF what = "content" THEN deeds' ELSE @, !.weight = k,
                                !.note = IF what = "meta" THEN deeds' ELSE @, !.owes = @ \cup {what}]
  <2>1. \E k \in Weights \cup {doc[v].weight} :
          doc' = [doc EXCEPT ![v].content = IF what = "content" THEN deeds' ELSE @, ![v].weight = k,
                             ![v].note = IF what = "meta" THEN deeds' ELSE @, ![v].owes = @ \cup {what}]
    BY <1>5 DEF Alter
  <2>2. PICK k \in Weights \cup {doc[v].weight} :
          doc' = [doc EXCEPT ![v].content = IF what = "content" THEN deeds' ELSE @, ![v].weight = k,
                             ![v].note = IF what = "meta" THEN deeds' ELSE @, ![v].owes = @ \cup {what}]
    BY <2>1
  <2>3. doc' = [doc EXCEPT ![v] = d(k)]
    BY <1>0, <2>2
  <2>4. v = w => (doc'[w] = d(k) => DocMove(w))
    BY <1>5 DEF DocMove, Alters
  <2> HIDE DEF d
  <2> QED BY <1>a, <2>3, <2>4
<1>6. ASSUME \/ \E e \in encoding : Send(e)
             \/ \E v \in Pages : Discard(v)
             \/ \E i \in Ids \cup {0} : Strike(i)
             \/ RemoveCaptures
      PROVE  DocMove(w) /\ DOMAIN doc' = Pages /\ doc' = [u \in Pages |-> doc'[u]]
  <2>1. doc' = doc
    BY <1>6 DEF Send, Discard, Strike, RemoveCaptures
  <2> QED BY <1>b, <2>1
<1>7. ASSUME NEW i \in Ids, OpenView(i) PROVE DocMove(w) /\ DOMAIN doc' = Pages /\ doc' = [u \in Pages |-> doc'[u]]
  <2> DEFINE d == [NoDoc EXCEPT !.open = TRUE, !.time = store.rows[i].time, !.weight = store.rows[i].weight,
                             !.id = i, !.content = store.full[i], !.note = store.rows[i].note]
  <2>1. doc' = [doc EXCEPT !["view"] = d] /\ "view" \in Pages
    BY <1>7 DEF OpenView, Pages
  <2>2. "view" = w => (doc'[w] = d => DocMove(w))
    BY <1>7 DEF DocMove, Views
  <2> HIDE DEF d
  <2> QED BY <1>a, <2>1, <2>2
<1>8. ASSUME SaveCapture PROVE DocMove(w) /\ DOMAIN doc' = Pages /\ doc' = [u \in Pages |-> doc'[u]]
  <2> DEFINE m == Head(calls)
             no == [doc[m.page] EXCEPT !.saver = "failed"]
             yes == [doc[m.page] EXCEPT !.saver = "saved", !.id = given + 1, !.told = m.stamp]
  <2>1. PICK steps : \E k \in 0..Len(steps) :
          /\ Handles(m, steps, k) /\ m.do = "save"
          /\ doc' = IF ~Waits(m) THEN doc
                    ELSE IF k < Len(steps) THEN [doc EXCEPT ![m.page].saver = "failed"]
                    ELSE [doc EXCEPT ![m.page].saver = "saved", ![m.page].id = given + 1, ![m.page].told = m.stamp]
    BY <1>8, SaveHandles
  <2>2. PICK k \in 0..Len(steps) :
          /\ Handles(m, steps, k) /\ m.do = "save"
          /\ doc' = IF ~Waits(m) THEN doc
                    ELSE IF k < Len(steps) THEN [doc EXCEPT ![m.page].saver = "failed"]
                    ELSE [doc EXCEPT ![m.page].saver = "saved", ![m.page].id = given + 1, ![m.page].told = m.stamp]
    BY <2>1
  <2>3. CASE ~Waits(m)
    BY <1>b, <2>2, <2>3
  <2>4. CASE Waits(m) /\ k < Len(steps)
    <3>1. m.page \in Pages /\ doc' = [doc EXCEPT ![m.page] = no]
      BY <1>0, <2>2, <2>4 DEF Waits
    <3>2. given + 1 \in torn' /\ calls # << >>
      BY <2>2, <2>4 DEF Handles, Outcome
    <3>3. m.page = w => (doc'[w] = no => DocMove(w))
      BY <1>8, <2>4, <3>2 DEF DocMove, HearsNo, Told
    <3> HIDE DEF no, m
    <3> QED BY <1>a, <3>1, <3>3
  <2>5. CASE Waits(m) /\ ~(k < Len(steps))
    <3>1. m.page \in Pages /\ doc' = [doc EXCEPT ![m.page] = yes]
      BY <1>0, <2>2, <2>5 DEF Waits
    <3>2. calls # << >>
      BY <2>2 DEF Handles
    <3>3. m.page = w => (doc'[w] = yes => DocMove(w))
      BY <1>8, <2>5, <3>2 DEF DocMove, HearsYes, Told
    <3> HIDE DEF yes, m
    <3> QED BY <1>a, <3>1, <3>3
  <2> QED BY <2>3, <2>4, <2>5
<1>9. ASSUME UpdateCapture PROVE DocMove(w) /\ DOMAIN doc' = Pages /\ doc' = [u \in Pages |-> doc'[u]]
  <2> DEFINE m == Head(calls)
             d == [doc[m.page] EXCEPT !.told = Larger(@, m.stamp)]
  <2>1. calls # << >> /\ doc' = IF Waits(m) THEN [doc EXCEPT ![m.page].told = Larger(@, m.stamp)] ELSE doc
    BY <1>9 DEF UpdateCapture
  <2>2. CASE ~Waits(m)
    BY <1>b, <2>1, <2>2
  <2>3. CASE Waits(m)
    <3>1. m.page \in Pages /\ doc' = [doc EXCEPT ![m.page] = d]
      BY <1>0, <2>1, <2>3 DEF Waits
    <3>2. m.page = w => (doc'[w] = d => DocMove(w))
      BY <1>9, <2>1, <2>3 DEF DocMove, Hears, Told
    <3> HIDE DEF d, m
    <3> QED BY <1>a, <3>1, <3>2
  <2> QED BY <2>2, <2>3
<1>10. ASSUME CloseEditor PROVE DocMove(w) /\ DOMAIN doc' = Pages /\ doc' = [u \in Pages |-> doc'[u]]
  <2>1. doc' = [doc EXCEPT !["editor"] = NoDoc] /\ "editor" \in Pages
    BY <1>10 DEF CloseEditor, Vanish, Pages
  <2> QED BY <1>a, <2>1 DEF DocMove
<1>11. ASSUME Stops PROVE DocMove(w) /\ DOMAIN doc' = Pages /\ doc' = [u \in Pages |-> doc'[u]]
  <2>1. doc' = [v \in Pages |-> NoDoc]
    BY <1>11 DEF Stops
  <2>2. DOMAIN doc' = Pages /\ doc'[w] = NoDoc /\ \A v \in Pages : doc'[v] = NoDoc
    BY <2>1
  <2> QED BY <2>1, <2>2 DEF DocMove
<1>12. CASE \E v \in Windows : StartSave(v) \/ Leaves(v) \/ \E k \in Weights : Arrives(v, k)
  BY <1>1, <1>2, <1>3, <1>12
<1>13. CASE \E v \in Pages, what \in Update : Persist(v, what) \/ Alter(v, what)
  BY <1>4, <1>5, <1>13
<1> QED BY <1>6, <1>7, <1>8, <1>9, <1>10, <1>11, <1>12, <1>13 DEF HistoryMove

-----------------------------------------------------------------------------
\* Types, what is stored, and what is shown and on its way

\* What is changed of a page has its type.
LEMMA DocParts ==
  ASSUME NEW d \in DocRec
  PROVE  /\ \A s \in {"no", "saving", "saved", "failed"} : [d EXCEPT !.saver = s] \in DocRec
         /\ \A o \in SUBSET {"meta", "content"} : [d EXCEPT !.owes = o] \in DocRec
         /\ \A n \in Versions : [d EXCEPT !.told = n] \in DocRec
         /\ \A i \in Ids, n \in Versions : [d EXCEPT !.saver = "saved", !.id = i, !.told = n] \in DocRec
         /\ \A c, n \in Versions, k \in Weights \cup {0}, o \in SUBSET {"meta", "content"} :
              [d EXCEPT !.content = c, !.weight = k, !.note = n, !.owes = o] \in DocRec
         /\ \A c, n \in Versions, k \in Weights \cup {0}, t \in Times \cup {0} :
              [d EXCEPT !.open = TRUE, !.time = t, !.weight = k, !.content = c, !.note = n] \in DocRec
         /\ \A c, n \in Versions, k \in Weights \cup {0}, t \in Times \cup {0}, i \in Ids :
              [d EXCEPT !.open = TRUE, !.time = t, !.weight = k, !.id = i, !.content = c, !.note = n] \in DocRec
<1> USE DEF DocRec
<1>1. /\ \A s \in {"no", "saving", "saved", "failed"} : [d EXCEPT !.saver = s] \in DocRec
      /\ \A o \in SUBSET {"meta", "content"} : [d EXCEPT !.owes = o] \in DocRec
      /\ \A n \in Versions : [d EXCEPT !.told = n] \in DocRec
      /\ \A i \in Ids, n \in Versions : [d EXCEPT !.saver = "saved", !.id = i, !.told = n] \in DocRec
  OBVIOUS
<1>2. \A c, n \in Versions, k \in Weights \cup {0}, o \in SUBSET {"meta", "content"} :
        [d EXCEPT !.content = c, !.weight = k, !.note = n, !.owes = o] \in DocRec
  OBVIOUS
<1>3. \A c, n \in Versions, k \in Weights \cup {0}, t \in Times \cup {0} :
        [d EXCEPT !.open = TRUE, !.time = t, !.weight = k, !.content = c, !.note = n] \in DocRec
  OBVIOUS
<1>4. \A c, n \in Versions, k \in Weights \cup {0}, t \in Times \cup {0}, i \in Ids :
        [d EXCEPT !.open = TRUE, !.time = t, !.weight = k, !.id = i, !.content = c, !.note = n] \in DocRec
  OBVIOUS
<1> QED BY <1>1, <1>2, <1>3, <1>4

\* A page shows what is of its type.
LEMMA DocTyped ==
  ASSUME Sound, HistoryTypeOK, Papers, HistoryMove, NEW w \in Pages PROVE doc'[w] \in DocRec
<1>0. /\ doc[w] \in DocRec /\ DocMove(w) /\ deeds' \in Versions /\ Images = {"full", "thumb"}
      /\ doc[w].content \in Versions /\ doc[w].note \in Versions /\ doc[w].told \in Versions
      /\ doc[w].weight \in Weights \cup {0} /\ doc[w].owes \subseteq {"meta", "content"}
  BY TypesAre, DocMoves, Grows, Versions0 DEF Images, DocRec
<1>1. CASE doc'[w] = doc[w] \/ doc'[w] = NoDoc
  BY <1>0, <1>1, Versions0
<1>2. CASE Starts(w) \/ HearsNo(w) \/ \E what \in Update : Settles(w, what)
  <2>1. ASSUME NEW what \in Update, Settles(w, what) PROVE doc'[w] \in DocRec
    <3>1. doc[w].owes \ {what} \in SUBSET {"meta", "content"}
      BY <1>0
    <3>2. [doc[w] EXCEPT !.owes = doc[w].owes \ {what}] \in DocRec
      BY <1>0, <3>1, DocParts
    <3> QED BY <2>1, <3>2 DEF Settles
  <2>2. [doc[w] EXCEPT !.saver = "saving"] \in DocRec /\ [doc[w] EXCEPT !.saver = "failed"] \in DocRec
    BY <1>0, DocParts
  <2> QED BY <1>2, <2>1, <2>2 DEF Starts, HearsNo
<1>3. ASSUME NEW what \in Update, Alters(w, what) PROVE doc'[w] \in DocRec
  <2>1. PICK k \in Weights \cup {doc[w].weight} :
       doc'[w] = [doc[w] EXCEPT !.content = IF what = "content" THEN deeds' ELSE @, !.weight = k,
                                !.note = IF what = "meta" THEN deeds' ELSE @, !.owes = @ \cup {what}]
    BY <1>3 DEF Alters
  <2> DEFINE c == IF what = "content" THEN deeds' ELSE doc[w].content
             n == IF what = "meta" THEN deeds' ELSE doc[w].note
             o == doc[w].owes \cup {what}
  <2>2. c \in Versions /\ n \in Versions /\ o \in SUBSET {"meta", "content"}
    BY <1>0 DEF Update
  <2>3. doc'[w] = [doc[w] EXCEPT !.content = c, !.weight = k, !.note = n, !.owes = o]
    BY <2>1
  <2> HIDE DEF c, n, o
  <2>4. [doc[w] EXCEPT !.content = c, !.weight = k, !.note = n, !.owes = o] \in DocRec
    <3>1. doc[w] \in DocRec /\ k \in Weights \cup {0}
      BY <1>0
    <3> QED BY <2>2, <3>1, DocParts
  <2> QED BY <2>3, <2>4
<1>4. ASSUME NEW k \in Weights, Comes(w, k) PROVE doc'[w] \in DocRec
  <2>1. page[w].token \in Times \cup {0}
    BY <1>4, SessionConstants DEF Sound, TypeOK, Comes, Nobody
  <2> DEFINE t == page[w].token
  <2>2. doc'[w] = [NoDoc EXCEPT !.open = TRUE, !.time = t, !.weight = k, !.content = 0, !.note = 0]
    BY <1>4 DEF Comes
  <2>3. t \in Times \cup {0} /\ k \in Weights \cup {0} /\ NoDoc \in DocRec /\ 0 \in Versions
    BY <2>1, Versions0
  <2> HIDE DEF t
  <2>4. [NoDoc EXCEPT !.open = TRUE, !.time = t, !.weight = k, !.content = 0, !.note = 0] \in DocRec
    BY <2>3, DocParts
  <2> QED BY <2>2, <2>4
<1>5. ASSUME NEW i \in Ids, Views(w, i) PROVE doc'[w] \in DocRec
  <2>1. store.rows[i] \in RowRec /\ store.full[i] \in Versions
    BY <1>0, TypesAre DEF StoreTyped
  <2>2. store.rows[i].time \in Times \cup {0} /\ store.rows[i].weight \in Weights \cup {0} /\ store.rows[i].note \in Versions
    BY <2>1 DEF RowRec
  <2> DEFINE t == store.rows[i].time
             k == store.rows[i].weight
             n == store.rows[i].note
             c == store.full[i]
  <2>3. doc'[w] = [NoDoc EXCEPT !.open = TRUE, !.time = t, !.weight = k, !.id = i, !.content = c, !.note = n]
    BY <1>5 DEF Views
  <2>4. t \in Times \cup {0} /\ k \in Weights \cup {0} /\ NoDoc \in DocRec /\ n \in Versions /\ c \in Versions
    BY <2>1, <2>2, Versions0
  <2> HIDE DEF t, k, n, c
  <2>5. [NoDoc EXCEPT !.open = TRUE, !.time = t, !.weight = k, !.id = i, !.content = c, !.note = n] \in DocRec
    BY <2>4, DocParts
  <2> QED BY <2>3, <2>5
<1>6. CASE HearsYes(w)
  <2>1. given + 1 \in Ids /\ Head(calls) \in Calls
    BY <1>6, TypesAre, CallsOff, HistoryConstants DEF HearsYes, Told, SaveCapture, Ids
  <2>2. Head(calls).stamp \in Versions
    BY <2>1 DEF Calls
  <2> DEFINE n == Head(calls).stamp
             i == given + 1
  <2>3. doc'[w] = [doc[w] EXCEPT !.saver = "saved", !.id = i, !.told = n] /\ i \in Ids /\ n \in Versions /\ doc[w] \in DocRec
    BY <1>0, <1>6, <2>1, <2>2 DEF HearsYes
  <2> HIDE DEF n, i
  <2>4. [doc[w] EXCEPT !.saver = "saved", !.id = i, !.told = n] \in DocRec
    BY <2>3, DocParts
  <2> QED BY <2>3, <2>4
<1>7. CASE Hears(w)
  <2>1. Head(calls) \in Calls
    BY <1>7, CallsOff DEF Hears, Told
  <2>2. Larger(doc[w].told, Head(calls).stamp) \in Versions
    BY <1>0, <2>1, Versions0 DEF DocRec, Calls
  <2> DEFINE n == Larger(doc[w].told, Head(calls).stamp)
  <2>3. doc'[w] = [doc[w] EXCEPT !.told = n] /\ n \in Versions /\ doc[w] \in DocRec
    BY <1>0, <1>7, <2>2 DEF Hears
  <2> HIDE DEF n
  <2> QED BY <2>3, DocParts
<1> QED BY <1>0, <1>1, <1>2, <1>3, <1>4, <1>5, <1>6, <1>7 DEF DocMove

\* The types of the history stay.
LEMMA HistoryTypes == ASSUME Sound, HistoryTypeOK, Stocked, Papers, HistoryMove PROVE HistoryTypeOK'
<1>1. StoreTyped' /\ given' \in 0..MaxIds /\ deeds' \in 0..MaxDeeds /\ torn' \subseteq Ids /\ limit' \in Limits
  BY Grows, TypesAre
<1>2. encoding' \subseteq Calls /\ calls' \in Seq(Calls)
  BY OnWayMoves
<1>3. doc' \in [Pages -> DocRec]
  <2>1. "view" \in Pages
    BY DEF Pages
  <2>2. DOMAIN doc' = Pages /\ doc' = [v \in Pages |-> doc'[v]]
    BY <2>1, DocMoves
  <2> QED BY <2>2, DocTyped
<1>4. behind' \subseteq Pages
  <2>0. behind \subseteq Pages
    BY TypesAre
  <2>1. CASE UpdateCapture
    <3> DEFINE m == Head(calls)
               others == {w \in Pages \ {m.page} : doc[w].open /\ doc[w].id = m.id}
               late == IF Waits(m) /\ m.stamp < doc[m.page].told THEN {m.page} ELSE {}
    <3>1. PICK k \in 0..Len(Updates(m)) :
            /\ Handles(m, Updates(m), k) /\ m.do \in Update
            /\ behind' = behind \cup others \cup late \cup (IF k < Len(Updates(m)) THEN {m.page} ELSE {})
      BY <2>1, UpdateHandles
    <3>2. m.page \in Pages
      BY <3>1 DEF Handles, SentFor
    <3> QED BY <2>0, <3>1, <3>2
  <2>2. CASE ~UpdateCapture
    BY <2>0, <2>2 DEF HistoryMove, StartSave, Leaves, Vanish, Arrives, Appear, Persist, Alter, Send, Discard,
                      OpenView, Strike, SaveCapture, RemoveCaptures, CloseEditor, Stops, ghosts
  <2> QED BY <2>1, <2>2
<1>5. evicted' \subseteq Times
  <2>0. evicted \subseteq Times
    BY TypesAre
  <2>1. CASE SaveCapture
    <3> DEFINE m == Head(calls)
    <3>1. m \in Calls /\ m.time # 0 /\ given + 1 \in Ids
      <4>1. PICK steps : \E k \in 0..Len(steps) : Handles(m, steps, k) /\ m.do = "save" /\ given + 1 \in Ids
        BY <2>1, SaveHandles
      <4> QED BY <4>1 DEF Handles, SentFor, Saving
    <3>2. evicted' \subseteq evicted \cup {Inserted(m).rows[i].time : i \in Kept(Inserted(m))}
      BY <2>1 DEF SaveCapture
    <3>3. ASSUME NEW i \in Kept(Inserted(m)) PROVE Inserted(m).rows[i].time \in Times
      <4> HIDE DEF m
      <4>1. CASE i = given + 1
        <5>1. Inserted(m).rows[i] = RowOf(m) /\ m.time \in Times
          BY <3>1, <4>1, InsertedIs DEF Calls
        <5> QED BY <5>1 DEF RowOf
      <4>2. CASE i # given + 1
        <5>1. i \in Ids \ {given + 1} /\ i \in Kept(store)
          BY <3>1, <4>2, InsertedIs DEF Kept
        <5>2. Inserted(m).rows[i] = store.rows[i]
          BY <3>1, <5>1, InsertedIs DEF Tables
        <5>3. store.rows[i].time # 0 /\ store.rows[i] \in RowRec
          BY <5>1, TypesAre DEF Stocked, StoreTyped
        <5> QED BY <5>2, <5>3 DEF RowRec
      <4> QED BY <4>1, <4>2
    <3> QED BY <2>0, <3>2, <3>3
  <2>2. CASE ~SaveCapture
    BY <2>0, <2>2 DEF HistoryMove, StartSave, Leaves, Vanish, Arrives, Appear, Persist, Alter, Send, Discard,
                      OpenView, Strike, UpdateCapture, RemoveCaptures, CloseEditor, Stops, ghosts
  <2> QED BY <2>1, <2>2
<1> QED BY <1>1, <1>2, <1>3, <1>4, <1>5, TypesAre DEF HistoryTypeOK, StoreTyped, RowRec, DocRec

\* A command leaves rows and images matched, wherever it was not cut short.
LEMMA StockedAfter ==
  ASSUME HistoryTypeOK, Stocked, NEW m, NEW steps, NEW k, Handles(m, steps, k),
         m.do = "save" => given + 1 \in Ids, given' = IF m.do = "save" THEN given + 1 ELSE given
  PROVE  Stocked'
<1>0. /\ given \in Nat /\ m \in Calls /\ SentFor(m) /\ Outcome(m, steps, k)
      /\ "rows" \in Tables /\ Images \subseteq Tables /\ "rows" \notin Images
  BY TypesAre, HistoryConstants DEF Handles, Tables, Images
<1>1. 1..given \subseteq 1..given' /\ (m.do = "save" => given + 1 \in 1..given')
  BY <1>0
<1>2. ASSUME NEW i \in Kept(store') PROVE i \in 1..given' /\ store'.rows[i].time # 0
  <2>0. i \in Ids /\ store'.rows[i] # NoRow /\ PartRow(m, i)
    BY <1>0 DEF Kept, Outcome
  <2>1. CASE store'.rows[i] = store.rows[i]
    <3>1. i \in Kept(store)
      BY <2>0, <2>1 DEF Kept
    <3> QED BY <1>1, <2>1, <3>1 DEF Stocked
  <2>2. CASE m.do = "save" /\ i = given + 1 /\ store'.rows[i] = RowOf(m)
    BY <1>0, <1>1, <2>2 DEF RowOf, SentFor, Saving
  <2>3. CASE i = m.id /\ i \in Kept(store) /\ store'.rows[i] = EditOf(m)
    <3>1. store.rows[i] \in RowRec /\ store.rows[i].time # 0 /\ i \in 1..given
      BY <2>0, <2>3, TypesAre DEF StoreTyped, Stocked
    <3>2. EditOf(m).time = store.rows[i].time
      BY <2>3, <3>1 DEF EditOf, RowRec
    <3> QED BY <1>1, <2>3, <3>1, <3>2
  <2> QED BY <2>0, <2>1, <2>2, <2>3 DEF PartRow
<1>3. torn' \subseteq 1..given'
  <2>1. torn' \subseteq torn \cup Reach(m)
    BY <1>0 DEF Outcome
  <2>2. m.do \in Update \cup {"delete"} => m.id \in 1..given
    BY <1>0 DEF SentFor
  <2> QED BY <1>1, <2>1, <2>2 DEF Reach, Stocked
<1>4. ASSUME NEW i \in Ids \ torn', NEW f \in Images
      PROVE  IF i \in Kept(store') THEN store'[f][i] = store'.rows[i].of /\ store'[f][i] # Nothing ELSE store'[f][i] = Nothing
  <2>0. i \in Ids \ torn
    BY <1>0 DEF Outcome
  <2>1. CASE SameAt(i)
    <3>1. store'[f][i] = store[f][i] /\ store'.rows[i] = store.rows[i]
      BY <1>0, <2>1 DEF SameAt
    <3>2. i \in Kept(store') <=> i \in Kept(store)
      BY <2>0, <3>1 DEF Kept
    <3> QED BY <2>0, <3>1, <3>2 DEF Stocked
  <2>2. CASE GoneAt(i)
    BY <2>2 DEF GoneAt, Kept
  <2>3. CASE m.do = "save" /\ i = given + 1 /\ NewAt(m)
    <3>1. m.content >= 0 /\ m.time # 0 /\ store'.rows[i] = RowOf(m) /\ store'[f][i] = m.content
      BY <1>0, <2>3 DEF SentFor, Saving, NewAt
    <3>2. m.content # Nothing
      BY <3>1 DEF Nothing
    <3>3. RowOf(m).of = m.content /\ RowOf(m) # NoRow
      BY <3>1 DEF RowOf, NoRow
    <3>4. i \in Kept(store')
      BY <2>0, <3>1, <3>3 DEF Kept
    <3> QED BY <3>1, <3>2, <3>3, <3>4
  <2>4. CASE m.do \in Update /\ i = m.id /\ EditedAt(m)
    <3>1. /\ i \in Kept(store) /\ store'.rows[i] = EditOf(m) /\ store.rows[i] \in RowRec
          /\ store'[f][i] = IF m.do = "content" THEN m.content ELSE store[f][i]
      BY <2>0, <2>4, TypesAre DEF EditedAt, StoreTyped
    <3>2. EditOf(m).of = IF m.do = "content" THEN m.content ELSE store.rows[i].of
      BY <2>4, <3>1 DEF EditOf, RowRec
    <3>3. EditOf(m).time # 0 /\ EditOf(m) # NoRow
      <4>1. EditOf(m).time = store.rows[i].time
        BY <2>4, <3>1 DEF EditOf, RowRec
      <4>2. store.rows[i].time # 0
        BY <3>1 DEF Stocked
      <4> QED BY <4>1, <4>2 DEF NoRow
    <3>4. i \in Kept(store')
      BY <2>0, <3>1, <3>3 DEF Kept
    <3>5. store[f][i] = store.rows[i].of /\ store[f][i] # Nothing
      BY <2>0, <3>1 DEF Stocked
    <3>6. m.content >= 0 /\ m.content # Nothing
      BY <1>0, <2>4, Versions0 DEF SentFor, Nothing
    <3> QED BY <3>1, <3>2, <3>4, <3>5, <3>6
  <2> QED BY <1>0, <2>1, <2>2, <2>3, <2>4 DEF Outcome
<1>5. Kept(store)' = Kept(store')
  BY DEF Kept
<1> QED BY <1>2, <1>3, <1>4, <1>5 DEF Stocked

\* Every step leaves rows and images matched.
LEMMA StockedStep == ASSUME HistoryTypeOK, Stocked, Papers, HistoryMove PROVE Stocked'
<1>1. CASE Asides
  BY <1>1, AsidesLeave DEF Stocked, Kept
<1>2. CASE SaveCapture
  <2>1. PICK steps : \E k \in 0..Len(steps) : Handles(Head(calls), steps, k) /\ Head(calls).do = "save" /\ given + 1 \in Ids
    BY <1>2, SaveHandles
  <2>2. PICK k \in 0..Len(steps) : Handles(Head(calls), steps, k) /\ Head(calls).do = "save" /\ given + 1 \in Ids
    BY <2>1
  <2>3. given' = given + 1
    BY <1>2 DEF SaveCapture
  <2> QED BY <2>2, <2>3, StockedAfter
<1>3. CASE UpdateCapture
  <2>1. PICK k \in 0..Len(Updates(Head(calls))) : Handles(Head(calls), Updates(Head(calls)), k) /\ Head(calls).do \in Update
    BY <1>3, UpdateHandles
  <2>2. given' = given /\ Head(calls).do # "save"
    BY <1>3, <2>1 DEF UpdateCapture, Update
  <2> QED BY <2>1, <2>2, StockedAfter
<1>4. CASE RemoveCaptures
  <2>1. PICK steps : \E k \in 0..Len(steps) : Handles(Head(calls), steps, k) /\ Head(calls).do \in {"delete", "clear"}
    BY <1>4, RemoveHandles
  <2>2. PICK k \in 0..Len(steps) : Handles(Head(calls), steps, k) /\ Head(calls).do \in {"delete", "clear"}
    BY <2>1
  <2>3. given' = given /\ Head(calls).do # "save"
    BY <1>4, <2>2 DEF RemoveCaptures
  <2> QED BY <2>2, <2>3, StockedAfter
<1>5. CASE Stops
  <2>1. CASE UNCHANGED <<store, torn, given>>
    BY <2>1 DEF Stocked, Kept
  <2>2. CASE \E steps : \E k \in 0..Len(steps) : Handles(Head(calls), steps, k)
    <3>1. PICK steps : \E k \in 0..Len(steps) : Handles(Head(calls), steps, k)
      BY <2>2
    <3>2. PICK k \in 0..Len(steps) : Handles(Head(calls), steps, k)
      BY <3>1
    <3>3. \/ UNCHANGED <<store, torn, given>>
          \/ /\ Head(calls).do = "save" => given + 1 \in Ids
             /\ given' = IF Head(calls).do = "save" THEN given + 1 ELSE given
      BY <1>5, StopHandles
    <3> QED BY <2>1, <3>2, <3>3, StockedAfter
  <2> QED BY <1>5, <2>1, <2>2, StopHandles
<1> QED BY <1>1, <1>2, <1>3, <1>4, <1>5 DEF HistoryMove, Asides

\* The pages that go away, and what goes with them.
LEMMA Closing ==
  ASSUME HistoryTypeOK, Papers, HistoryMove, NEW w \in Pages, doc[w].open, ~doc'[w].open
  PROVE  (w \in Windows /\ Leaves(w)) \/ (w = "editor" /\ CloseEditor) \/ Stops
<1>0. doc \in [Pages -> DocRec] /\ doc[w] \in DocRec
  BY TypesAre
<1>1. ASSUME NEW v \in Windows, StartSave(v) PROVE doc'[w].open
  BY <1>0, <1>1 DEF StartSave, DocRec, Windows, Pages
<1>2. ASSUME NEW v \in Windows, Leaves(v), v # w PROVE doc'[w].open
  BY <1>0, <1>2 DEF Leaves, Vanish, Windows, Pages
<1>3. ASSUME NEW v \in Windows, NEW k \in Weights, Arrives(v, k) PROVE doc'[w].open
  BY <1>0, <1>3 DEF Arrives, Appear, Windows, Pages, NoDoc
<1>4. ASSUME NEW v \in Pages, NEW what \in Update, Persist(v, what) PROVE doc'[w].open
  BY <1>0, <1>4 DEF Persist, DocRec
<1>5. ASSUME NEW v \in Pages, NEW what \in Update, Alter(v, what) PROVE doc'[w].open
  <2>1. PICK k : doc' = [doc EXCEPT ![v].content = IF what = "content" THEN deeds' ELSE @, ![v].weight = k,
                                    ![v].note = IF what = "meta" THEN deeds' ELSE @, ![v].owes = @ \cup {what}]
    BY <1>5 DEF Alter
  <2> QED BY <1>0, <2>1 DEF DocRec
<1>6. ASSUME \/ \E e \in encoding : Send(e)
             \/ \E v \in Pages : Discard(v)
             \/ \E i \in Ids \cup {0} : Strike(i)
             \/ RemoveCaptures
      PROVE  doc'[w].open
  <2>1. doc' = doc
    BY <1>6 DEF Send, Discard, Strike, RemoveCaptures
  <2> QED BY <2>1
<1>7. ASSUME NEW i \in Ids, OpenView(i) PROVE doc'[w].open
  BY <1>0, <1>7 DEF OpenView, NoDoc, Pages
<1>8. ASSUME SaveCapture \/ UpdateCapture PROVE doc'[w].open
  <2>2. CASE SaveCapture
    <3>1. \/ doc' = doc
          \/ \E v \in Pages : doc' = [doc EXCEPT ![v].saver = "failed"]
          \/ \E v \in Pages : \E n : doc' = [doc EXCEPT ![v].saver = "saved", ![v].id = given + 1, ![v].told = n]
      BY <2>2 DEF SaveCapture, Waits
    <3>2. CASE doc' = doc
      BY <3>2
    <3>3. ASSUME NEW v \in Pages, doc' = [doc EXCEPT ![v].saver = "failed"] PROVE doc'[w].open
      BY <1>0, <3>3 DEF DocRec
    <3>4. ASSUME NEW v \in Pages, NEW n, doc' = [doc EXCEPT ![v].saver = "saved", ![v].id = given + 1, ![v].told = n] PROVE doc'[w].open
      <4> DEFINE d == [doc[v] EXCEPT !.saver = "saved", !.id = given + 1, !.told = n]
      <4>1. doc' = [doc EXCEPT ![v] = d]
        BY <1>0, <3>4
      <4>2. d.open = doc[v].open
        BY <1>0 DEF DocRec
      <4> HIDE DEF d
      <4> QED BY <1>0, <4>1, <4>2
    <3> QED BY <3>1, <3>2, <3>3, <3>4
  <2>3. CASE UpdateCapture
    <3> DEFINE m == Head(calls)
               n == Larger(doc[m.page].told, m.stamp)
    <3>1. doc' = doc \/ (m.page \in Pages /\ doc' = [doc EXCEPT ![m.page].told = n])
      BY <2>3 DEF UpdateCapture, Waits
    <3> DEFINE p == m.page
    <3>2. doc' = doc \/ (p \in Pages /\ doc' = [doc EXCEPT ![p].told = n])
      BY <3>1
    <3> HIDE DEF m, n, p
    <3>3. CASE p = w /\ doc' = [doc EXCEPT ![p].told = n]
      BY <1>0, <3>3 DEF DocRec
    <3>4. CASE p # w /\ p \in Pages /\ doc' = [doc EXCEPT ![p].told = n]
      BY <1>0, <3>4
    <3> QED BY <3>2, <3>3, <3>4
  <2> QED BY <1>8, <2>2, <2>3
<1>9. ASSUME CloseEditor, w # "editor" PROVE doc'[w].open
  BY <1>0, <1>9 DEF CloseEditor, Vanish, Pages
<1>10. CASE \E v \in Windows : StartSave(v) \/ Leaves(v) \/ \E k \in Weights : Arrives(v, k)
  BY <1>1, <1>2, <1>3, <1>10
<1>11. CASE \E v \in Pages, what \in Update : Persist(v, what) \/ Alter(v, what)
  BY <1>4, <1>5, <1>11
<1> QED BY <1>6, <1>7, <1>8, <1>9, <1>10, <1>11 DEF HistoryMove

\* A command leaves only notes and pictures that were made.
LEMMA NotesAfter ==
  ASSUME HistoryTypeOK, Papers, NEW m, NEW steps, NEW k, Handles(m, steps, k), NEW i \in Ids
  PROVE  store'.rows[i].note <= deeds /\ \A f \in Images : store'[f][i] <= deeds
<1>0. m \in Calls /\ SentFor(m) /\ Outcome(m, steps, k) /\ deeds \in Nat /\ store.rows[i].note <= deeds
      /\ \A f \in Images : store[f][i] <= deeds
  BY TypesAre, HistoryConstants DEF Handles, Papers
<1>1. m.do \in {"save"} \cup Update => m.note <= deeds /\ m.content <= deeds
  <2> SUFFICES ASSUME m.do \in {"save"} \cup Update PROVE m.note <= deeds /\ m.content <= deeds
    OBVIOUS
  <2>1. m.stamp = Larger(m.content, m.note) /\ m.stamp <= deeds
    BY <1>0 DEF SentFor
  <2>2. m.content \in Versions /\ m.note \in Versions
    BY <1>0 DEF Calls
  <2>3. m.stamp \in Int /\ m.content \in Int /\ m.note \in Int /\ m.content <= m.stamp /\ m.note <= m.stamp
    BY <2>1, <2>2, Versions0
  <2> QED BY <1>0, <2>1, <2>3
<1>2. store'.rows[i].note <= deeds
  <2>1. PartRow(m, i)
    BY <1>0 DEF Outcome
  <2>2. NoRow.note <= deeds
    BY <1>0 DEF NoRow, Nothing
  <2>3. m.do = "save" => RowOf(m).note <= deeds
    BY <1>1 DEF RowOf
  <2>4. m.do \in Update /\ i = m.id => EditOf(m).note <= deeds
    <3>1. store.rows[i] \in RowRec
      BY TypesAre DEF StoreTyped
    <3>2. m.do \in Update /\ i = m.id => EditOf(m).note = m.note
      BY <3>1 DEF EditOf, RowRec
    <3> QED BY <1>1, <3>2
  <2> QED BY <1>0, <2>1, <2>2, <2>3, <2>4 DEF PartRow
<1>3. ASSUME NEW f \in Images PROVE store'[f][i] <= deeds
  <2>1. PartImage(m, f, i)
    BY <1>0 DEF Outcome
  <2>2. Nothing <= deeds
    BY <1>0 DEF Nothing
  <2>3. m.do = "content" => m.do \in Update
    BY DEF Update
  <2> QED BY <1>0, <1>1, <2>1, <2>2, <2>3 DEF PartImage
<1> QED BY <1>2, <1>3

\* The notes and pictures in the tables were made.
LEMMA NotesStep ==
  ASSUME HistoryTypeOK, Stocked, Papers, HistoryMove, NEW i \in Ids
  PROVE  store'.rows[i].note <= deeds' /\ \A f \in Images : store'[f][i] <= deeds'
<1>0. /\ deeds \in Nat /\ deeds' \in {deeds, deeds + 1} /\ store.rows[i].note <= deeds
      /\ (\A f \in Images : store[f][i] <= deeds) /\ StoreTyped' /\ StoreTyped
  BY Grows, TypesAre DEF Papers
<1>1. \A f \in Images : store'[f][i] \in Int /\ store[f][i] \in Int
  BY <1>0, Versions0 DEF StoreTyped
<1>2. store'.rows[i].note \in Int /\ store.rows[i].note \in Int
  BY <1>0, Versions0 DEF StoreTyped, RowRec
<1>3. ASSUME store'.rows[i].note <= deeds, \A f \in Images : store'[f][i] <= deeds
      PROVE  store'.rows[i].note <= deeds' /\ \A f \in Images : store'[f][i] <= deeds'
  BY <1>0, <1>1, <1>2, <1>3
<1>4. CASE UNCHANGED store
  BY <1>0, <1>3, <1>4
<1>5. CASE \E steps : \E k \in 0..Len(steps) : Handles(Head(calls), steps, k)
  <2>1. PICK steps : \E k \in 0..Len(steps) : Handles(Head(calls), steps, k)
    BY <1>5
  <2>2. PICK k \in 0..Len(steps) : Handles(Head(calls), steps, k)
    BY <2>1
  <2> QED BY <1>3, <2>2, NotesAfter
<1>6. CASE Asides
  BY <1>4, <1>6, AsidesLeave
<1>7. CASE SaveCapture \/ RemoveCaptures
  <2>1. \E steps : \E k \in 0..Len(steps) : Handles(Head(calls), steps, k)
    BY <1>7, SaveHandles, RemoveHandles
  <2> QED BY <1>5, <2>1
<1>8. CASE UpdateCapture
  <2>1. PICK k \in 0..Len(Updates(Head(calls))) : Handles(Head(calls), Updates(Head(calls)), k)
    BY <1>8, UpdateHandles
  <2> QED BY <1>3, <2>1, NotesAfter
<1>9. CASE Stops
  BY <1>4, <1>5, <1>9, StopHandles
<1> QED BY <1>6, <1>7, <1>8, <1>9 DEF HistoryMove, Asides

\* What a page that goes on showing its capture keeps.
LEMMA DocKeeps ==
  ASSUME HistoryTypeOK, Papers, HistoryMove, NEW w \in Pages, doc'[w].open,
         ~\E k \in Weights : Comes(w, k), ~\E i \in Ids : Views(w, i)
  PROVE  /\ doc[w].open /\ doc'[w].time = doc[w].time
         /\ ~HearsYes(w) => doc'[w].id = doc[w].id
         /\ doc'[w].saver = doc[w].saver \/ Starts(w) \/ HearsNo(w) \/ HearsYes(w)
         /\ doc'[w].told = doc[w].told \/ HearsYes(w) \/ Hears(w)
         /\ doc'[w].note = doc[w].note \/ (Alters(w, "meta") /\ doc'[w].note = deeds' /\ "meta" \in doc'[w].owes)
         /\ doc'[w].content = doc[w].content \/ (Alters(w, "content") /\ doc'[w].content = deeds' /\ "content" \in doc'[w].owes)
         /\ doc[w].owes \subseteq doc'[w].owes \/ \E what \in Update : Settles(w, what)
         /\ doc'[w].owes \subseteq doc[w].owes \/ \E what \in Update : Alters(w, what)
<1>0. doc[w] \in DocRec /\ DocMove(w) /\ ~NoDoc.open /\ ShownDoc(w) /\ NoDoc.owes = {}
  BY TypesAre, DocMoves DEF NoDoc, Papers
<1> DEFINE G ==
         /\ doc[w].open /\ doc'[w].time = doc[w].time
         /\ ~HearsYes(w) => doc'[w].id = doc[w].id
         /\ doc'[w].saver = doc[w].saver \/ Starts(w) \/ HearsNo(w) \/ HearsYes(w)
         /\ doc'[w].told = doc[w].told \/ HearsYes(w) \/ Hears(w)
         /\ doc'[w].note = doc[w].note \/ (Alters(w, "meta") /\ doc'[w].note = deeds' /\ "meta" \in doc'[w].owes)
         /\ doc'[w].content = doc[w].content \/ (Alters(w, "content") /\ doc'[w].content = deeds' /\ "content" \in doc'[w].owes)
         /\ doc[w].owes \subseteq doc'[w].owes \/ \E what \in Update : Settles(w, what)
         /\ doc'[w].owes \subseteq doc[w].owes \/ \E what \in Update : Alters(w, what)
<1>1. CASE doc'[w] = doc[w]
  BY <1>1
<1>2. CASE Starts(w)
  <2>1. doc[w].open /\ doc'[w] = [doc[w] EXCEPT !.saver = "saving"]
    BY <1>2 DEF Starts, StartSave
  <2> QED BY <1>0, <1>2, <2>1 DEF DocRec
<1>3. ASSUME NEW what \in Update, Settles(w, what) PROVE G
  <2>1. doc[w].open
    BY <1>0, <1>3 DEF Settles, Persist, ShownDoc
  <2>2. doc'[w] = [doc[w] EXCEPT !.owes = doc[w].owes \ {what}]
    BY <1>3 DEF Settles
  <2> QED BY <1>0, <1>3, <2>1, <2>2 DEF DocRec
<1>4. ASSUME NEW what \in Update, Alters(w, what) PROVE G
  <2>1. PICK k \in Weights \cup {doc[w].weight} :
       doc'[w] = [doc[w] EXCEPT !.content = IF what = "content" THEN deeds' ELSE @, !.weight = k,
                                !.note = IF what = "meta" THEN deeds' ELSE @, !.owes = @ \cup {what}]
    BY <1>4 DEF Alters
  <2> DEFINE c == IF what = "content" THEN deeds' ELSE doc[w].content
             n == IF what = "meta" THEN deeds' ELSE doc[w].note
             o == doc[w].owes \cup {what}
  <2>2. doc'[w] = [doc[w] EXCEPT !.content = c, !.weight = k, !.note = n, !.owes = o]
    BY <2>1
  <2>3. doc[w].open
    BY <1>4 DEF Alters, Alter
  <2> HIDE DEF c, n, o
  <2>4. /\ doc'[w].time = doc[w].time /\ doc'[w].id = doc[w].id /\ doc'[w].saver = doc[w].saver /\ doc'[w].told = doc[w].told
        /\ doc'[w].content = c /\ doc'[w].note = n /\ doc'[w].owes = o
    BY <1>0, <2>2 DEF DocRec
  <2>5. what = "meta" \/ what = "content"
    BY DEF Update
  <2>6. CASE what = "meta"
    <3>1. doc'[w].content = doc[w].content /\ doc'[w].note = deeds' /\ "meta" \in doc'[w].owes /\ doc[w].owes \subseteq doc'[w].owes
      BY <2>4, <2>6 DEF c, n, o
    <3> QED BY <1>4, <2>3, <2>4, <2>6, <3>1
  <2>7. CASE what = "content"
    <3>1. doc'[w].note = doc[w].note /\ doc'[w].content = deeds' /\ "content" \in doc'[w].owes /\ doc[w].owes \subseteq doc'[w].owes
      BY <2>4, <2>7 DEF c, n, o
    <3> QED BY <1>4, <2>3, <2>4, <2>7, <3>1
  <2> QED BY <2>5, <2>6, <2>7
<1>5. CASE HearsNo(w)
  <2>1. doc[w].open /\ doc'[w] = [doc[w] EXCEPT !.saver = "failed"]
    BY <1>5 DEF HearsNo, Told, Waits
  <2> QED BY <1>0, <1>5, <2>1 DEF DocRec
<1>6. CASE HearsYes(w)
  <2> DEFINE n == Head(calls).stamp
  <2>1. doc[w].open /\ doc'[w] = [doc[w] EXCEPT !.saver = "saved", !.id = given + 1, !.told = n]
    BY <1>6 DEF HearsYes, Told, Waits
  <2> HIDE DEF n
  <2>2. doc'[w].time = doc[w].time /\ doc'[w].note = doc[w].note /\ doc'[w].content = doc[w].content /\ doc'[w].owes = doc[w].owes
    BY <1>0, <2>1 DEF DocRec
  <2> QED BY <1>6, <2>1, <2>2
<1>7. CASE Hears(w)
  <2> DEFINE n == Larger(doc[w].told, Head(calls).stamp)
  <2>1. doc[w].open /\ doc'[w] = [doc[w] EXCEPT !.told = n]
    BY <1>7 DEF Hears, Told, Waits
  <2> HIDE DEF n
  <2>2. /\ doc'[w].time = doc[w].time /\ doc'[w].id = doc[w].id /\ doc'[w].saver = doc[w].saver
        /\ doc'[w].note = doc[w].note /\ doc'[w].content = doc[w].content /\ doc'[w].owes = doc[w].owes
    BY <1>0, <2>1 DEF DocRec
  <2> QED BY <1>7, <2>1, <2>2
<1>8. doc'[w] # NoDoc
  BY <1>0
<1>9. CASE \E what \in Update : Settles(w, what) \/ Alters(w, what)
  <2> HIDE DEF G
  <2>1. G
    BY <1>3, <1>4, <1>9
  <2> QED BY <2>1 DEF G
<1>10. \/ doc'[w] = doc[w] \/ Starts(w) \/ \E what \in Update : Settles(w, what) \/ Alters(w, what)
       \/ HearsNo(w) \/ HearsYes(w) \/ Hears(w)
  BY <1>0, <1>8 DEF DocMove
<1> QED BY <1>1, <1>2, <1>5, <1>6, <1>7, <1>9, <1>10

\* What a page hears is a number of its type.
LEMMA Hearing ==
  ASSUME HistoryTypeOK, Papers, calls # << >>
  PROVE  LET m == Head(calls) IN m \in Calls /\ m \in OnWay /\ SentFor(m) /\ m.stamp \in Int /\ Nothing <= m.stamp /\ m.stamp <= deeds
<1>1. Head(calls) \in Calls /\ Head(calls) \in OnWay /\ SentFor(Head(calls))
  BY CallsOff, OnWayTyped DEF Papers
<1> QED BY <1>1, Versions0 DEF SentFor, Calls

\* What the page shows after a step was made by then.
LEMMA ShownStep ==
  ASSUME HistoryTypeOK, Stocked, Papers, Apart, HistoryMove, NEW w \in Pages PROVE ShownDoc(w)'
<1>0. /\ doc[w] \in DocRec /\ DocMove(w) /\ ShownDoc(w)
      /\ given \in Nat /\ deeds \in Nat /\ given' \in {given, given + 1} /\ deeds' \in {deeds, deeds + 1}
  BY TypesAre, DocMoves, Grows DEF Papers
<1>1. CASE ~doc'[w].open
  <2>1. \/ doc'[w] = doc[w] \/ doc'[w] = NoDoc
    <3>0. "open" \in {"open"} /\ \A what \in Update : Settles(w, what) => doc[w].open
      BY <1>0 DEF Settles, Persist, ShownDoc, NoDoc
    <3>1. ~Starts(w) /\ ~HearsNo(w)
      BY <1>0, <1>1 DEF Starts, StartSave, HearsNo, Told, Waits, DocRec
    <3>2. \A what \in Update : ~Settles(w, what)
      BY <1>0, <1>1, <3>0 DEF Settles, DocRec
    <3>3. ASSUME NEW what \in Update PROVE ~Alters(w, what)
      <4>1. SUFFICES ASSUME Alters(w, what) PROVE FALSE
        OBVIOUS
      <4>2. PICK k \in Weights \cup {doc[w].weight} :
              doc'[w] = [doc[w] EXCEPT !.content = IF what = "content" THEN deeds' ELSE @, !.weight = k,
                                !.note = IF what = "meta" THEN deeds' ELSE @, !.owes = @ \cup {what}]
        BY <4>1 DEF Alters
      <4>3. doc[w].open
        BY <4>1 DEF Alters, Alter
      <4> QED BY <1>0, <1>1, <4>2, <4>3 DEF DocRec
    <3>4. \A k \in Weights : ~Comes(w, k)
      BY <1>1 DEF Comes, NoDoc
    <3>5. \A i \in Ids : ~Views(w, i)
      BY <1>1 DEF Views, NoDoc
    <3>6. ~HearsYes(w)
      BY <1>0, <1>1 DEF HearsYes, Told, Waits, DocRec
    <3>7. ~Hears(w)
      BY <1>0, <1>1 DEF Hears, Told, Waits, DocRec
    <3> QED BY <1>0, <3>1, <3>2, <3>3, <3>4, <3>5, <3>6, <3>7 DEF DocMove
  <2> QED BY <1>0, <1>1, <2>1 DEF ShownDoc
<1>2. ASSUME NEW k \in Weights, Comes(w, k) PROVE ShownDoc(w)'
  <2>1. page[w].token # 0
    BY <1>2 DEF Comes, Arrives, Apart
  <2>2. doc'[w].open /\ doc'[w].time = page[w].token /\ doc'[w].content = 0 /\ doc'[w].note = 0 /\ doc'[w].id = 0
        /\ doc'[w].told = Nothing /\ doc'[w].owes = {}
    BY <1>2 DEF Comes, NoDoc
  <2>3. 0 \in 0..deeds' /\ 0 \in Nothing..deeds' /\ 0 \in 0..given' /\ Nothing \in Nothing..deeds'
    BY <1>0 DEF Nothing
  <2> QED BY <2>1, <2>2, <2>3 DEF ShownDoc
<1>3. ASSUME NEW i \in Ids, Views(w, i) PROVE ShownDoc(w)'
  <2>1. i \in Kept(store) /\ store.full[i] # Nothing
    BY <1>3 DEF Views, OpenView
  <2>2. i \in 1..given /\ store.rows[i].time # 0 /\ store.rows[i].note <= deeds /\ store.full[i] <= deeds
    BY <2>1 DEF Stocked, Papers, Images
  <2>3. store.rows[i] \in RowRec /\ store.full[i] \in Versions
    BY TypesAre DEF StoreTyped, Images
  <2>4. store.full[i] \in 0..deeds' /\ store.rows[i].note \in Nothing..deeds' /\ i \in 0..given' /\ Nothing \in Nothing..deeds'
    <3>1. store.rows[i].note \in Versions
      BY <2>3 DEF RowRec
    <3>2. store.full[i] \in Int /\ 0 <= store.full[i] /\ store.rows[i].note \in Int /\ Nothing <= store.rows[i].note
      BY <2>1, <2>3, <3>1, Versions0
    <3> QED BY <1>0, <2>2, <3>2 DEF Nothing
  <2>5. doc'[w].open /\ doc'[w].time = store.rows[i].time /\ doc'[w].content = store.full[i] /\ doc'[w].note = store.rows[i].note
        /\ doc'[w].id = i /\ doc'[w].told = Nothing /\ doc'[w].owes = {}
    BY <1>3 DEF Views, NoDoc
  <2> QED BY <2>2, <2>4, <2>5 DEF ShownDoc
<1>4. ASSUME doc'[w].open, ~\E k \in Weights : Comes(w, k), ~\E i \in Ids : Views(w, i) PROVE ShownDoc(w)'
  <2>0. /\ doc[w].open /\ doc'[w].time = doc[w].time
        /\ ~HearsYes(w) => doc'[w].id = doc[w].id
        /\ doc'[w].told = doc[w].told \/ HearsYes(w) \/ Hears(w)
        /\ doc'[w].note = doc[w].note \/ (Alters(w, "meta") /\ doc'[w].note = deeds' /\ "meta" \in doc'[w].owes)
        /\ doc'[w].content = doc[w].content \/ (Alters(w, "content") /\ doc'[w].content = deeds' /\ "content" \in doc'[w].owes)
        /\ doc'[w].owes \subseteq doc[w].owes \/ \E what \in Update : Alters(w, what)
    BY <1>4, DocKeeps
  <2>1. doc[w].time # 0 /\ doc[w].content \in 0..deeds /\ doc[w].note \in Nothing..deeds /\ doc[w].id \in 0..given
        /\ doc[w].told \in Nothing..deeds /\ ("content" \in doc[w].owes => doc[w].content # 0)
    BY <1>0, <2>0 DEF ShownDoc
  <2>2. doc'[w].content \in 0..deeds' /\ doc'[w].note \in Nothing..deeds'
    BY <1>0, <2>0, <2>1 DEF Nothing
  <2>3. doc'[w].id \in 0..given'
    <3>1. CASE HearsYes(w)
      <4>1. doc'[w].id = given + 1 /\ given' = given + 1
        BY <1>0, <3>1 DEF HearsYes, SaveCapture, DocRec
      <4> QED BY <1>0, <4>1
    <3>2. CASE ~HearsYes(w)
      BY <1>0, <2>0, <2>1, <3>2
    <3> QED BY <3>1, <3>2
  <2>4. doc'[w].told \in Nothing..deeds'
    <3>1. CASE HearsYes(w)
      <4> DEFINE n == Head(calls).stamp
      <4>1. n \in Nothing..deeds
        BY <1>0, <3>1, Hearing DEF HearsYes, Told, Nothing
      <4>2. doc'[w] = [doc[w] EXCEPT !.saver = "saved", !.id = given + 1, !.told = n]
        BY <3>1 DEF HearsYes
      <4> HIDE DEF n
      <4>3. doc'[w].told = n
        BY <1>0, <4>2 DEF DocRec
      <4> QED BY <1>0, <4>1, <4>3 DEF Nothing
    <3>2. CASE Hears(w)
      <4> DEFINE n == Larger(doc[w].told, Head(calls).stamp)
      <4>1. Head(calls).stamp \in Nothing..deeds
        BY <1>0, <3>2, Hearing DEF Hears, Told, Nothing
      <4>2. n \in Nothing..deeds
        BY <2>1, <4>1 DEF Larger
      <4>3. doc'[w] = [doc[w] EXCEPT !.told = n]
        BY <3>2 DEF Hears
      <4> HIDE DEF n
      <4>4. doc'[w].told = n
        BY <1>0, <4>3 DEF DocRec
      <4> QED BY <1>0, <4>2, <4>4 DEF Nothing
    <3>3. CASE doc'[w].told = doc[w].told
      BY <1>0, <2>1, <3>3 DEF Nothing
    <3> QED BY <2>0, <3>1, <3>2, <3>3
  <2>5. "content" \in doc'[w].owes => doc'[w].content # 0
    <3>1. ASSUME NEW what \in Update, Alters(w, what), "content" \in doc'[w].owes PROVE doc'[w].content # 0
      <4>1. PICK k \in Weights \cup {doc[w].weight} :
              doc'[w] = [doc[w] EXCEPT !.content = IF what = "content" THEN deeds' ELSE @, !.weight = k,
                                !.note = IF what = "meta" THEN deeds' ELSE @, !.owes = @ \cup {what}]
        BY <3>1 DEF Alters
      <4>2. deeds' = deeds + 1
        BY <3>1 DEF Alters, Alter, MayDo
      <4>3. what = "content" => doc'[w].content = deeds'
        BY <1>0, <4>1 DEF DocRec
      <4>4. what # "content" => doc'[w].content = doc[w].content /\ "content" \in doc[w].owes
        BY <1>0, <3>1, <4>1 DEF DocRec
      <4> QED BY <1>0, <2>1, <4>2, <4>3, <4>4
    <3>2. CASE doc'[w].owes \subseteq doc[w].owes
      <4>1. "content" \in doc'[w].owes => "content" \in doc[w].owes
        BY <3>2
      <4>2. doc'[w].content = doc[w].content \/ Alters(w, "content")
        BY <2>0
      <4> QED BY <2>1, <3>1, <4>1, <4>2 DEF Update
    <3> QED BY <2>0, <3>1, <3>2
  <2> QED BY <1>4, <2>0, <2>1, <2>2, <2>3, <2>4, <2>5 DEF ShownDoc
<1> QED BY <1>1, <1>2, <1>3, <1>4

\* What is on its way after a step was sent as pages send.
LEMMA SentStep ==
  ASSUME HistoryTypeOK, Stocked, Papers, Known, HistoryMove, NEW e \in OnWay' PROVE SentFor(e)'
<1>0. /\ given \in Nat /\ deeds \in Nat /\ given' \in {given, given + 1} /\ deeds' \in {deeds, deeds + 1}
      /\ "save" \notin Update /\ "delete" \notin Update /\ "clear" \notin Update /\ "close" \notin Update
  BY Grows DEF Update
<1>1. ASSUME e.id \in 0..given, e.stamp <= deeds, e \in Calls PROVE e.id \in 0..given' /\ e.stamp <= deeds'
  <2>1. e.stamp \in Int
    BY <1>1, Versions0 DEF Calls
  <2> QED BY <1>0, <1>1, <2>1
<1>2. CASE e \in OnWay
  <2>1. SentFor(e) /\ e \in Calls
    BY <1>2, OnWayTyped DEF Papers
  <2> QED BY <1>1, <2>1 DEF SentFor, Saving
<1>3. CASE Otherwise(e)
  <2>1. e.id \in 0..given' /\ e.stamp <= deeds'
    BY <1>1, <1>3 DEF Otherwise
  <2> QED BY <1>0, <1>3, <2>1 DEF Otherwise, SentFor, Saving
<1>4. ASSUME NEW w \in Windows, Saved(w, e) PROVE SentFor(e)'
  <2>1. w \in Pages /\ doc[w].open /\ doc[w].saver # "saved" /\ e = Message("save", w)
    BY <1>4 DEF Saved, StartSave, NotSaved, Windows, Pages
  <2>2. doc[w].id = 0 /\ doc[w].time # 0 /\ doc[w].content \in 0..deeds
    BY <2>1 DEF Known, Papers, ShownDoc
  <2>3. /\ e \in Calls /\ e.stamp <= deeds /\ e.id \in 0..given /\ e.do = "save" /\ e.page = w /\ e.time = doc[w].time
        /\ e.id = doc[w].id /\ e.stamp = Larger(e.content, e.note) /\ e.content = doc[w].content
    BY <2>1, MessageFits
  <2>4. e.id \in 0..given' /\ e.stamp <= deeds' /\ e.content >= 0
    BY <1>0, <1>1, <2>2, <2>3
  <2> QED BY <1>0, <2>2, <2>3, <2>4 DEF SentFor, Saving
<1>5. ASSUME NEW w \in Pages, NEW what \in Update, Pushes(w, what, e) PROVE SentFor(e)'
  <2>1. what \in doc[w].owes /\ doc[w].id # 0 /\ e = Message(what, w) /\ NoDoc.owes = {}
    BY <1>5 DEF Pushes, Persist, NoDoc
  <2>2. doc[w].open /\ doc[w].content \in 0..deeds /\ ("content" \in doc[w].owes => doc[w].content # 0)
    BY <2>1 DEF Papers, ShownDoc
  <2>3. /\ e \in Calls /\ e.stamp <= deeds /\ e.id \in 0..given /\ e.do = what /\ e.page = w
        /\ e.id = doc[w].id /\ e.stamp = Larger(e.content, e.note) /\ e.content = doc[w].content
    BY <2>1, <2>2, MessageFits DEF Update
  <2>4. e.id \in 0..given' /\ e.stamp <= deeds' /\ e.content >= 0
    BY <1>0, <1>1, <2>2, <2>3
  <2> QED BY <1>0, <2>1, <2>2, <2>3, <2>4 DEF SentFor, Saving
<1> QED BY <1>2, <1>3, <1>4, <1>5, OnWayMoves

\* What pages encode after a step: it was encoded before, or the page takes a snapshot.
LEMMA EncodingOrigin ==
  ASSUME HistoryMove, NEW e \in encoding'
  PROVE  e \in encoding \/ (\E w \in Windows : Saved(w, e)) \/ \E w \in Pages : Pushes(w, "content", e)
<1>1. CASE encoding' \subseteq encoding
  BY <1>1
<1>2. ASSUME NEW w \in Windows, StartSave(w) PROVE e \in encoding \/ Saved(w, e)
  BY <1>2 DEF StartSave, Saved
<1>3. ASSUME NEW w \in Pages, NEW what \in Update, Persist(w, what) PROVE e \in encoding \/ Pushes(w, "content", e)
  BY <1>3 DEF Persist, Pushes, Update
<1>4. CASE \E w \in Windows : StartSave(w)
  BY <1>2, <1>4
<1>5. CASE \E w \in Pages, what \in Update : Persist(w, what)
  BY <1>3, <1>5
<1>6. \/ encoding' \subseteq encoding
      \/ \E w \in Windows : StartSave(w)
      \/ \E w \in Pages, what \in Update : Persist(w, what)
  BY DEF HistoryMove, Leaves, Vanish, Arrives, Appear, Alter, Send, Discard, OpenView, Strike,
         SaveCapture, UpdateCapture, RemoveCaptures, CloseEditor, Stops
<1> QED BY <1>1, <1>4, <1>5, <1>6

\* A page that encodes something goes on showing it.
LEMMA EncodingStep ==
  ASSUME HistoryTypeOK, Stocked, Papers, Apart, HistoryMove, NEW e \in encoding'
  PROVE  e.do \in {"save", "content"} /\ e.page \in Pages /\ doc'[e.page].open /\ doc'[e.page].time = e.time
<1>0. doc \in [Pages -> DocRec] /\ Windows \subseteq Pages
  BY TypesAre DEF Windows, Pages
<1>1. CASE e \in encoding
  <2> DEFINE w == e.page
  <2>1. e.do \in {"save", "content"} /\ w \in Pages /\ doc[w].open /\ doc[w].time = e.time
    BY <1>1 DEF Papers
  <2>2. doc'[w].open
    <3>1. (w \in Windows /\ Leaves(w)) => e \notin encoding'
      BY DEF Leaves, Vanish
    <3>2. w = "editor" /\ CloseEditor => e \notin encoding'
      BY DEF CloseEditor, Vanish
    <3>3. Stops => e \notin encoding'
      BY DEF Stops
    <3> HIDE DEF w
    <3> QED BY <2>1, <3>1, <3>2, <3>3, Closing
  <2>3. ~\E k \in Weights : Comes(w, k)
    <3>1. ASSUME NEW k \in Weights, Comes(w, k) PROVE FALSE
      BY <2>1, <3>1 DEF Comes, Arrives, Apart
    <3> QED BY <3>1
  <2>4. ~\E i \in Ids : Views(w, i)
    BY DEF Views, OpenView
  <2> HIDE DEF w
  <2>5. doc'[w].time = doc[w].time
    BY <2>1, <2>2, <2>3, <2>4, DocKeeps
  <2> QED BY <2>1, <2>2, <2>5 DEF w
<1>2. ASSUME NEW w \in Windows, Saved(w, e) PROVE e.do = "save" /\ e.page = w /\ doc'[w].open /\ doc'[w].time = e.time
  <2>1. e.do = "save" /\ e.page = w /\ e.time = doc[w].time
    BY <1>2 DEF Saved, Message
  <2>2. doc[w].open /\ doc' = [doc EXCEPT ![w].saver = "saving"] /\ w \in Pages
    BY <1>0, <1>2 DEF Saved, StartSave
  <2>3. doc'[w].open /\ doc'[w].time = doc[w].time
    BY <1>0, <2>2 DEF DocRec
  <2> QED BY <2>1, <2>3
<1>3. ASSUME NEW w \in Pages, Pushes(w, "content", e) PROVE e.do = "content" /\ e.page = w /\ doc'[w].open /\ doc'[w].time = e.time
  <2>1. e.do = "content" /\ e.page = w /\ e.time = doc[w].time
    BY <1>3 DEF Pushes, Message
  <2>2. doc[w].open /\ doc' = [doc EXCEPT ![w].owes = @ \ {"content"}]
    BY <1>3 DEF Pushes, Persist, Papers, ShownDoc, NoDoc
  <2>3. doc'[w].open /\ doc'[w].time = doc[w].time
    BY <1>0, <2>2 DEF DocRec
  <2> QED BY <2>1, <2>3
<1> QED BY <1>0, <1>1, <1>2, <1>3, EncodingOrigin

\* Every step leaves what is shown, sent and kept as it was made.
LEMMA PapersStep == ASSUME HistoryTypeOK, Stocked, Papers, Known, Apart, HistoryMove PROVE Papers'
<1>1. \A w \in Pages : ShownDoc(w)'
  BY ShownStep
<1>2. \A e \in OnWay' : SentFor(e)'
  BY SentStep
<1>3. \A e \in encoding' :
        e.do \in {"save", "content"} /\ e.page \in Pages /\ doc'[e.page].open /\ doc'[e.page].time = e.time
  BY EncodingStep
<1>4. \A i \in Ids : store'.rows[i].note <= deeds' /\ \A f \in Images : store'[f][i] <= deeds'
  BY NotesStep
<1> QED BY <1>1, <1>2, <1>3, <1>4 DEF Papers

-----------------------------------------------------------------------------
\* A capture is in the history, or on its way there, once

\* The rows that are whole after a command: those that were, but for the new one of a save.
LEMMA WholeAfter ==
  ASSUME HistoryTypeOK, NEW m, NEW steps, NEW k, Handles(m, steps, k), NEW i \in Whole'
  PROVE  \/ i \in Whole /\ store'.rows[i].time = store.rows[i].time
         \/ m.do = "save" /\ i = given + 1 /\ store'.rows[i].time = m.time
<1>0. i \in Ids \ torn' /\ i \in Ids \ torn /\ store'.rows[i] # NoRow /\ "rows" \in Tables
  BY DEF Whole, Kept, Handles, Outcome, Tables
<1>1. CASE SameAt(i)
  <2>1. store'.rows[i] = store.rows[i]
    BY <1>0, <1>1 DEF SameAt
  <2> QED BY <1>0, <2>1 DEF Whole, Kept
<1>2. CASE GoneAt(i)
  BY <1>0, <1>2 DEF GoneAt
<1>3. CASE m.do = "save" /\ i = given + 1 /\ NewAt(m)
  BY <1>3 DEF NewAt, RowOf
<1>4. CASE m.do \in Update /\ i = m.id /\ EditedAt(m)
  <2>1. i \in Kept(store) /\ store'.rows[i] = EditOf(m) /\ store.rows[i] \in RowRec
    BY <1>0, <1>4, TypesAre DEF EditedAt, StoreTyped
  <2>2. EditOf(m).time = store.rows[i].time
    BY <1>4, <2>1 DEF EditOf, RowRec
  <2> QED BY <1>0, <2>1, <2>2 DEF Whole
<1> QED BY <1>0, <1>1, <1>2, <1>3, <1>4 DEF Handles, Outcome

\* And after any step.
LEMMA WholeMoves ==
  ASSUME HistoryTypeOK, Papers, HistoryMove, NEW i \in Whole'
  PROVE  \/ i \in Whole /\ store'.rows[i].time = store.rows[i].time
         \/ /\ SaveCapture \/ Stops
            /\ calls # << >> /\ Saving(Head(calls)) /\ i = given + 1 /\ store'.rows[i].time = Head(calls).time
<1>1. CASE UNCHANGED <<store, torn>>
  BY <1>1 DEF Whole, Kept
<1>2. CASE Asides
  BY <1>1, <1>2, AsidesLeave
<1>3. ASSUME \E steps : \E k \in 0..Len(steps) : Handles(Head(calls), steps, k)
      PROVE  \/ i \in Whole /\ store'.rows[i].time = store.rows[i].time
             \/ calls # << >> /\ Saving(Head(calls)) /\ i = given + 1 /\ store'.rows[i].time = Head(calls).time
  <2>1. PICK steps : \E k \in 0..Len(steps) : Handles(Head(calls), steps, k)
    BY <1>3
  <2>2. PICK k \in 0..Len(steps) : Handles(Head(calls), steps, k)
    BY <2>1
  <2>3. calls # << >>
    BY <2>2 DEF Handles
  <2> QED BY <2>2, <2>3, WholeAfter DEF Saving
<1>4. CASE SaveCapture
  <2>1. \E steps : \E k \in 0..Len(steps) : Handles(Head(calls), steps, k)
    BY <1>4, SaveHandles
  <2> QED BY <1>3, <1>4, <2>1
<1>5. CASE RemoveCaptures
  <2>1. \E steps : \E k \in 0..Len(steps) : Handles(Head(calls), steps, k)
    BY <1>5, RemoveHandles
  <2>2. ~Saving(Head(calls))
    BY <1>5 DEF RemoveCaptures, Saving
  <2> QED BY <1>3, <2>1, <2>2
<1>6. CASE UpdateCapture
  <2>1. \E steps : \E k \in 0..Len(steps) : Handles(Head(calls), steps, k)
    BY <1>6, UpdateHandles
  <2>2. ~Saving(Head(calls))
    BY <1>6 DEF UpdateCapture, Saving
  <2> QED BY <1>3, <2>1, <2>2
<1>7. CASE Stops
  BY <1>1, <1>3, <1>7, StopHandles
<1> QED BY <1>2, <1>4, <1>5, <1>6, <1>7 DEF HistoryMove, Asides

\* A save that is on its way was before, or a page starts it.
LEMMA SavesMove ==
  ASSUME HistoryTypeOK, Stocked, Papers, HistoryMove, NEW e \in OnWay', Saving(e)
  PROVE  e \in OnWay \/ \E w \in Windows : Saved(w, e)
<1>1. ~Otherwise(e)
  BY DEF Otherwise, Saving
<1>2. ASSUME NEW w \in Pages, NEW what \in Update PROVE ~Pushes(w, what, e)
  BY DEF Pushes, Message, Saving, Update
<1> QED BY <1>1, <1>2, OnWayMoves

\* A capture that is not in the history, nor on its way there, comes to it by its own page.
LEMMA UnusedStays ==
  ASSUME HistoryTypeOK, Stocked, Papers, HistoryMove, NEW t, Unused(t), \A w \in Windows : StartSave(w) => doc[w].time # t
  PROVE  Unused(t)'
<1>1. ASSUME NEW i \in Whole' PROVE store'.rows[i].time # t
  <2>1. calls # << >> => Head(calls) \in OnWay
    BY Hearing
  <2> QED BY <2>1, WholeMoves DEF Unused
<1>2. ASSUME NEW e \in OnWay', Saving(e) PROVE e.time # t
  <2>1. \A w \in Windows : Saved(w, e) => e.time = doc[w].time /\ StartSave(w)
    BY DEF Saved, Message
  <2> QED BY <1>2, <2>1, SavesMove DEF Unused
<1> QED BY <1>1, <1>2 DEF Unused

\* No two saves are of one capture.
Spread(enc, way) ==
  /\ \A e, f \in enc : Saving(e) /\ Saving(f) /\ e.time = f.time => e = f
  /\ \A m, n \in DOMAIN way : Saving(way[m]) /\ Saving(way[n]) /\ way[m].time = way[n].time => m = n
  /\ \A e \in enc, n \in DOMAIN way : Saving(e) /\ Saving(way[n]) => e.time # way[n].time

\* Nor are they when there are fewer, ...
LEMMA SpreadFewer ==
  ASSUME NEW enc, NEW few, NEW way, Spread(enc, way), \A e \in few : Saving(e) => e \in enc PROVE Spread(few, way)
<1> SUFFICES ASSUME TRUE PROVE /\ \A e, f \in few : Saving(e) /\ Saving(f) /\ e.time = f.time => e = f
                               /\ \A e \in few, n \in DOMAIN way : Saving(e) /\ Saving(way[n]) => e.time # way[n].time
  BY DEF Spread
<1> QED BY DEF Spread

\* ... when the first is handled, which differs from the others, ...
LEMMA SpreadOff ==
  ASSUME HistoryTypeOK, calls # << >>, Spread(encoding, calls)
  PROVE  /\ Spread(encoding, Tail(calls))
         /\ Saving(Head(calls)) =>
              /\ \A e \in encoding : Saving(e) => e.time # Head(calls).time
              /\ \A n \in DOMAIN Tail(calls) : Saving(Tail(calls)[n]) => Tail(calls)[n].time # Head(calls).time
<1>1. /\ 1 \in DOMAIN calls /\ Head(calls) = calls[1] /\ DOMAIN Tail(calls) = 1..Len(calls) - 1
      /\ \A n \in 1..Len(calls) - 1 : Tail(calls)[n] = calls[n + 1] /\ n + 1 \in DOMAIN calls /\ n + 1 # 1
  BY CallsOff
<1>2. Saving(Head(calls)) =>
        /\ \A e \in encoding : Saving(e) => e.time # Head(calls).time
        /\ \A n \in DOMAIN Tail(calls) : Saving(Tail(calls)[n]) => Tail(calls)[n].time # Head(calls).time
  BY <1>1 DEF Spread
<1>3. ASSUME NEW m \in DOMAIN Tail(calls), NEW n \in DOMAIN Tail(calls), Saving(Tail(calls)[m]), Saving(Tail(calls)[n]),
             Tail(calls)[m].time = Tail(calls)[n].time
      PROVE  m = n
  <2>1. m + 1 = n + 1
    BY <1>1, <1>3 DEF Spread
  <2>2. m \in Int /\ n \in Int
    BY <1>1
  <2> QED BY <2>1, <2>2
<1>4. \A e \in encoding, n \in DOMAIN Tail(calls) : Saving(e) /\ Saving(Tail(calls)[n]) => e.time # Tail(calls)[n].time
  BY <1>1 DEF Spread
<1> QED BY <1>2, <1>3, <1>4 DEF Spread

\* ... and when one of no other capture is sent.
LEMMA SpreadOn ==
  ASSUME NEW enc, NEW way \in Seq(Calls), NEW x \in Calls, Spread(enc, way),
         Saving(x) => /\ \A e \in enc : Saving(e) => e.time # x.time
                      /\ \A n \in DOMAIN way : Saving(way[n]) => way[n].time # x.time
  PROVE  Spread(enc, Append(way, x))
<1> DEFINE a == Append(way, x)
<1>1. /\ DOMAIN way = 1..Len(way) /\ Len(way) \in Nat /\ DOMAIN a = 1..Len(way) + 1
      /\ \A n \in 1..Len(way) : a[n] = way[n]
      /\ a[Len(way) + 1] = x
  BY CallsOn
<1>2. \A n \in DOMAIN a : n \in DOMAIN way \/ n = Len(way) + 1
  BY <1>1
<1> HIDE DEF a
<1>3. ASSUME NEW m \in DOMAIN a, NEW n \in DOMAIN a, Saving(a[m]), Saving(a[n]), a[m].time = a[n].time PROVE m = n
  BY <1>1, <1>2, <1>3 DEF Spread
<1>4. \A e \in enc, n \in DOMAIN a : Saving(e) /\ Saving(a[n]) => e.time # a[n].time
  BY <1>1, <1>2 DEF Spread
<1> QED BY <1>3, <1>4 DEF Spread, a

\* Every step leaves the saves that are on their way of different captures.
LEMMA SpreadStep ==
  ASSUME HistoryTypeOK, Papers, Known, Spread(encoding, calls), HistoryMove PROVE Spread(encoding', calls')
<1>0. calls \in Seq(Calls) /\ encoding \subseteq Calls
  BY TypesAre
<1>1. ASSUME calls' = calls, \A e \in encoding' : Saving(e) => e \in encoding PROVE Spread(encoding', calls')
  <2>1. Spread(encoding', calls)
    BY <1>1, SpreadFewer
  <2> QED BY <1>1, <2>1
<1>2. ASSUME NEW x \in Calls, ~Saving(x), calls' = Append(calls, x), encoding' \subseteq encoding PROVE Spread(encoding', calls')
  <2>1. Spread(encoding', calls)
    BY <1>2, SpreadFewer
  <2>2. Spread(encoding', Append(calls, x))
    BY <1>0, <1>2, <2>1, SpreadOn
  <2> QED BY <1>2, <2>2
<1>3. ASSUME calls # << >>, calls' = Tail(calls), encoding' \subseteq encoding PROVE Spread(encoding', calls')
  <2>1. Spread(encoding, Tail(calls))
    BY <1>3, SpreadOff
  <2>2. Spread(encoding', Tail(calls))
    BY <1>3, <2>1, SpreadFewer
  <2> QED BY <1>3, <2>2
<1>4. ASSUME NEW w \in Windows, StartSave(w) PROVE Spread(encoding', calls')
  <2> DEFINE x == Message("save", w)
  <2>1. calls' = calls /\ encoding' = encoding \cup {x} /\ x.time = doc[w].time /\ Unused(doc[w].time)
    BY <1>4 DEF StartSave, NotSaved, Known, Message
  <2>2. ASSUME NEW e \in OnWay, Saving(e) PROVE e.time # x.time
    BY <2>1, <2>2 DEF Unused
  <2>3. encoding \subseteq OnWay /\ \A n \in DOMAIN calls : calls[n] \in OnWay
    BY DEF OnWay
  <2> HIDE DEF x
  <2>4. ASSUME NEW e \in encoding', NEW f \in encoding', Saving(e), Saving(f), e.time = f.time PROVE e = f
    BY <2>1, <2>2, <2>3, <2>4 DEF Spread
  <2>5. ASSUME NEW e \in encoding', NEW n \in DOMAIN calls, Saving(e), Saving(calls[n]) PROVE e.time # calls[n].time
    BY <2>1, <2>2, <2>3, <2>5 DEF Spread
  <2> QED BY <2>1, <2>4, <2>5 DEF Spread
<1>5. ASSUME NEW w \in Windows, Leaves(w) \/ \E k \in Weights : Arrives(w, k) PROVE Spread(encoding', calls')
  <2>1. calls' = calls /\ encoding' \subseteq encoding
    BY <1>5 DEF Leaves, Vanish, Arrives, Appear
  <2> QED BY <1>1, <2>1
<1>6. ASSUME NEW w \in Pages, NEW what \in Update, Persist(w, what) PROVE Spread(encoding', calls')
  <2> DEFINE x == Message(what, w)
  <2>1. x \in Calls /\ ~Saving(x)
    BY MessageTyped DEF Update, Saving, Message
  <2>2. \/ calls' = calls /\ encoding' \subseteq encoding \cup {x}
        \/ calls' = Append(calls, x) /\ encoding' \subseteq encoding
    BY <1>6 DEF Persist
  <2> HIDE DEF x
  <2> QED BY <1>1, <1>2, <2>1, <2>2
<1>7. ASSUME NEW w \in Pages, NEW what \in Update, Alter(w, what) PROVE Spread(encoding', calls')
  <2>1. calls' = calls /\ encoding' = encoding
    BY <1>7 DEF Alter
  <2> QED BY <1>1, <2>1
<1>8. ASSUME NEW x \in encoding, Send(x) PROVE Spread(encoding', calls')
  <2>1. x \in Calls /\ calls' = Append(calls, x) /\ encoding' = encoding \ {x}
    BY <1>0, <1>8 DEF Send
  <2>2. Spread(encoding', calls)
    BY <2>1, SpreadFewer
  <2>3. Saving(x) => /\ \A e \in encoding' : Saving(e) => e.time # x.time
                     /\ \A n \in DOMAIN calls : Saving(calls[n]) => calls[n].time # x.time
    BY <2>1 DEF Spread
  <2>4. Spread(encoding', Append(calls, x))
    BY <1>0, <2>1, <2>2, <2>3, SpreadOn
  <2> QED BY <2>1, <2>4
<1>9. ASSUME NEW w \in Pages, Discard(w) PROVE Spread(encoding', calls')
  <2> DEFINE x == Message(IF doc[w].id # 0 THEN "delete" ELSE "close", w)
  <2>1. x \in Calls /\ ~Saving(x) /\ calls' = Append(calls, x) /\ encoding' = encoding
    BY <1>9, MessageTyped DEF Discard, Saving, Message
  <2> HIDE DEF x
  <2> QED BY <1>2, <2>1
<1>10. ASSUME NEW i \in Ids \cup {0}, Strike(i) PROVE Spread(encoding', calls')
  <2> DEFINE x == FromList(IF i = 0 THEN "clear" ELSE "delete", i)
  <2>1. x \in Calls /\ ~Saving(x) /\ calls' = Append(calls, x) /\ encoding' = encoding
    BY <1>10, FromListTyped DEF Strike, Saving, FromList
  <2> HIDE DEF x
  <2> QED BY <1>2, <2>1
<1>11. ASSUME \E i \in Ids : OpenView(i) PROVE Spread(encoding', calls')
  <2>1. calls' = calls /\ encoding' \subseteq encoding
    BY <1>11 DEF OpenView
  <2> QED BY <1>1, <2>1
<1>12. ASSUME SaveCapture \/ UpdateCapture \/ CloseEditor PROVE Spread(encoding', calls')
  <2>1. calls # << >> /\ calls' = Tail(calls) /\ encoding' \subseteq encoding
    BY <1>12 DEF SaveCapture, UpdateCapture, CloseEditor, Vanish
  <2> QED BY <1>3, <2>1
<1>13. ASSUME RemoveCaptures PROVE Spread(encoding', calls')
  <2> DEFINE x == Message("close", Head(calls).page)
  <2>1. /\ calls # << >> /\ encoding' = encoding /\ calls' \in {Tail(calls), Append(Tail(calls), x)}
        /\ calls' # Tail(calls) => Head(calls).page \in Pages
    BY <1>13, RemoveHandles DEF RemoveCaptures
  <2>2. CASE calls' = Tail(calls)
    BY <1>3, <2>1, <2>2
  <2>3. CASE calls' # Tail(calls)
    <3>1. x \in Calls /\ ~Saving(x) /\ calls' = Append(Tail(calls), x)
      BY <2>1, <2>3, MessageTyped DEF Saving, Message
    <3>2. Spread(encoding, Tail(calls)) /\ Tail(calls) \in Seq(Calls)
      BY <2>1, SpreadOff, CallsOff
    <3> HIDE DEF x
    <3>3. Spread(encoding, Append(Tail(calls), x))
      BY <3>1, <3>2, SpreadOn
    <3> QED BY <2>1, <3>1, <3>3
  <2> QED BY <2>2, <2>3
<1>14. ASSUME Stops PROVE Spread(encoding', calls')
  <2>1. encoding' = {} /\ DOMAIN calls' = {}
    BY <1>14 DEF Stops
  <2> QED BY <2>1 DEF Spread
<1>15. CASE \E w \in Windows : StartSave(w) \/ Leaves(w) \/ \E k \in Weights : Arrives(w, k)
  BY <1>4, <1>5, <1>15
<1>16. CASE \E w \in Pages, what \in Update : Persist(w, what) \/ Alter(w, what)
  BY <1>6, <1>7, <1>16
<1> QED BY <1>8, <1>9, <1>10, <1>11, <1>12, <1>13, <1>14, <1>15, <1>16 DEF HistoryMove

\* The save that is handled is the only one of its capture.
LEMMA HandledOnce ==
  ASSUME HistoryTypeOK, Spread(encoding, calls), SaveCapture, NEW e \in OnWay', Saving(e)
  PROVE  e \in OnWay /\ e.time # Head(calls).time
<1>1. calls # << >> /\ Saving(Head(calls)) /\ calls' = Tail(calls) /\ encoding' = encoding
  BY DEF SaveCapture, Saving
<1>2. e \in encoding \/ \E n \in DOMAIN Tail(calls) : e = Tail(calls)[n]
  BY <1>1 DEF OnWay
<1>3. \A n \in DOMAIN Tail(calls) : Tail(calls)[n] = calls[n + 1] /\ n + 1 \in DOMAIN calls
  BY <1>1, CallsOff
<1>4. e \in OnWay
  BY <1>2, <1>3 DEF OnWay
<1> QED BY <1>1, <1>2, <1>4, SpreadOff

\* Every step leaves a capture in the history, or on its way there, once.
LEMMA OnceStep ==
  ASSUME HistoryTypeOK, Stocked, Papers, OnceEach, Known, HistoryMove PROVE OnceEach'
<1>0. Spread(encoding, calls) /\ Spread(encoding', calls')
  <2>1. Spread(encoding, calls)
    BY DEF OnceEach, Spread
  <2> QED BY <2>1, SpreadStep
<1>1. calls # << >> => Head(calls) \in OnWay
  BY Hearing
<1>2. ASSUME NEW i \in Whole', NEW j \in Whole', store'.rows[i].time = store'.rows[j].time PROVE i = j
  <2>1. \A a, b \in Whole : store.rows[a].time = store.rows[b].time => a = b
    BY DEF OnceEach, Once, Whole
  <2>2. calls # << >> /\ Saving(Head(calls)) => \A a \in Whole : store.rows[a].time # Head(calls).time
    BY <1>1 DEF OnceEach
  <2>3. \/ i \in Whole /\ store'.rows[i].time = store.rows[i].time
        \/ calls # << >> /\ Saving(Head(calls)) /\ i = given + 1 /\ store'.rows[i].time = Head(calls).time
    BY WholeMoves
  <2>4. \/ j \in Whole /\ store'.rows[j].time = store.rows[j].time
        \/ calls # << >> /\ Saving(Head(calls)) /\ j = given + 1 /\ store'.rows[j].time = Head(calls).time
    BY WholeMoves
  <2> QED BY <1>2, <2>1, <2>2, <2>3, <2>4
<1>3. ASSUME NEW e \in OnWay', Saving(e), NEW i \in Whole' PROVE store'.rows[i].time # e.time
  <2>1. CASE i \in Whole /\ store'.rows[i].time = store.rows[i].time
    <3>1. CASE e \in OnWay
      BY <1>3, <2>1, <3>1 DEF OnceEach
    <3>2. ASSUME NEW w \in Windows, Saved(w, e) PROVE store'.rows[i].time # e.time
      <4>1. Unused(doc[w].time) /\ e.time = doc[w].time
        BY <3>2 DEF Saved, StartSave, NotSaved, Known, Message
      <4> QED BY <2>1, <4>1 DEF Unused
    <3> QED BY <1>3, <3>1, <3>2, SavesMove
  <2>2. CASE SaveCapture /\ store'.rows[i].time = Head(calls).time
    BY <1>0, <1>3, <2>2, HandledOnce
  <2>3. CASE Stops
    BY <2>3 DEF Stops, OnWay
  <2> QED BY <2>1, <2>2, <2>3, WholeMoves
<1>4. Once'
  BY <1>2 DEF Once, Whole
<1> QED BY <1>0, <1>3, <1>4 DEF OnceEach, Spread

-----------------------------------------------------------------------------
\* What pages know of their saves

\* No two windows show one capture.
LEMMA OneShows ==
  ASSUME Apart, NEW v \in Windows, NEW w \in Windows, doc[v].open, doc[w].open, doc[v].time = doc[w].time PROVE v = w
<1>1. page[v].token = doc[v].time /\ page[w].token = doc[w].time /\ page[w].at # "none"
  BY DEF Apart
<1> QED BY <1>1 DEF Apart

\* A window that gets its capture has not saved it.
LEMMA KnownComes ==
  ASSUME HistoryTypeOK, Stocked, Papers, Known, Apart, HistoryMove, NEW w \in Windows, NEW k \in Weights, Comes(w, k)
  PROVE  doc'[w].saver = "no" /\ doc'[w].id = 0 /\ Unused(doc[w].time)'
<1>1. doc'[w].saver = "no" /\ doc'[w].id = 0 /\ doc'[w].time = page[w].token /\ page[w].at = "loading"
  BY DEF Comes, NoDoc, Arrives
<1>2. PICK t : t = page[w].token
  OBVIOUS
<1>3. ASSUME NEW v \in Windows, StartSave(v) PROVE doc[v].time # t
  <2>1. doc[v].open /\ page[v].at \in {"working", "done"} /\ page[v].token = doc[v].time
    BY <1>3 DEF StartSave, Apart
  <2>2. v # w
    BY <1>1, <2>1
  <2> QED BY <1>1, <1>2, <2>1, <2>2 DEF Apart
<1>4. Unused(t)
  BY <1>1, <1>2 DEF Apart
<1>5. Unused(t)'
  BY <1>3, <1>4, UnusedStays
<1> QED BY <1>1, <1>2, <1>5 DEF Unused

\* What a window that goes on showing its capture knows of it.
LEMMA KnownKeeps ==
  ASSUME HistoryTypeOK, Stocked, Papers, OnceEach, Known, Apart, HistoryMove, NEW w \in Windows, doc'[w].open,
         ~\E k \in Weights : Comes(w, k)
  PROVE  /\ doc'[w].saver \in {"no", "failed"} => Unused(doc[w].time)'
         /\ doc'[w].saver # "saved" => doc'[w].id = 0
         /\ \A e \in OnWay' : Saving(e) /\ e.time = doc'[w].time => e.page = w /\ doc'[w].saver = "saving"
<1>0. doc \in [Pages -> DocRec] /\ w \in Pages /\ w # "view" /\ Spread(encoding, calls)
  BY TypesAre DEF Windows, Pages, OnceEach, Spread
<1>1. ~\E i \in Ids : Views(w, i)
  BY <1>0 DEF Views
<1>2. /\ doc[w].open /\ doc'[w].time = doc[w].time
      /\ ~HearsYes(w) => doc'[w].id = doc[w].id
      /\ doc'[w].saver = doc[w].saver \/ Starts(w) \/ HearsNo(w) \/ HearsYes(w)
  BY <1>0, <1>1, DocKeeps
<1>3. Starts(w) => doc'[w].saver = "saving" /\ NotSaved(w) /\ doc[w].saver # "saved"
  BY <1>0 DEF Starts, StartSave, NotSaved, DocRec
<1>4. HearsYes(w) => doc'[w].saver = "saved" /\ SaveCapture /\ Head(calls).time = doc[w].time
  BY <1>0 DEF HearsYes, DocRec, Told, Waits
<1>5. HearsNo(w) => SaveCapture /\ calls # << >> /\ Saving(Head(calls)) /\ Head(calls).time = doc[w].time /\ given + 1 \in torn'
  BY DEF HearsNo, Told, Waits, SaveCapture, Saving
<1>6. calls # << >> => Head(calls) \in OnWay
  BY Hearing
<1>7. HearsNo(w) => doc[w].saver = "saving"
  BY <1>2, <1>5, <1>6 DEF Known
<1>8. ASSUME NEW e \in OnWay', Saving(e), e.time = doc[w].time PROVE e.page = w /\ doc'[w].saver = "saving"
  <2>1. CASE e \in OnWay
    <3>1. e.page = w /\ doc[w].saver = "saving"
      BY <1>2, <1>8, <2>1 DEF Known
    <3>2. ~NotSaved(w)
      BY <3>1 DEF NotSaved
    <3>3. SaveCapture => e.time # Head(calls).time
      BY <1>0, <1>8, HandledOnce
    <3> QED BY <1>2, <1>3, <1>4, <1>5, <1>8, <3>1, <3>2, <3>3
  <2>2. ASSUME NEW v \in Windows, Saved(v, e) PROVE e.page = w /\ doc'[w].saver = "saving"
    <3>1. StartSave(v) /\ e.page = v /\ e.time = doc[v].time /\ doc[v].open
      BY <2>2 DEF Saved, Message, StartSave
    <3>2. v = w
      BY <1>2, <1>8, <3>1, OneShows
    <3> QED BY <1>0, <3>1, <3>2 DEF StartSave, DocRec
  <2> QED BY <1>8, <2>1, <2>2, SavesMove
<1>9. ASSUME doc'[w].saver \in {"no", "failed"} PROVE Unused(doc[w].time)'
  <2>0. PICK t : t = doc[w].time
    OBVIOUS
  <2>1. CASE doc'[w].saver = doc[w].saver
    <3>1. Unused(t)
      BY <1>2, <1>9, <2>0, <2>1 DEF Known
    <3>2. ASSUME NEW v \in Windows, StartSave(v) PROVE doc[v].time # t
      <4>1. v # w
        BY <1>0, <1>9, <3>2 DEF StartSave, DocRec
      <4>2. doc[v].open
        BY <3>2 DEF StartSave
      <4> QED BY <1>2, <2>0, <4>1, <4>2, OneShows
    <3>3. Unused(t)'
      BY <3>1, <3>2, UnusedStays
    <3> QED BY <1>2, <2>0, <3>3 DEF Unused
  <2>2. CASE HearsNo(w)
    <3>1. ASSUME NEW i \in Whole' PROVE store'.rows[i].time # t
      <4>1. i \notin torn'
        BY DEF Whole
      <4>2. i \in Whole /\ store'.rows[i].time = store.rows[i].time
        BY <1>5, <2>2, <4>1, WholeMoves
      <4> QED BY <1>5, <1>6, <2>0, <2>2, <4>2 DEF OnceEach
    <3>2. ASSUME NEW e \in OnWay', Saving(e) PROVE e.time # t
      BY <1>0, <1>5, <2>0, <2>2, <3>2, HandledOnce
    <3> QED BY <1>2, <2>0, <3>1, <3>2 DEF Unused
  <2> QED BY <1>2, <1>3, <1>4, <1>9, <2>1, <2>2
<1>10. doc'[w].saver # "saved" => doc'[w].id = 0
  BY <1>2, <1>3, <1>4, <1>7 DEF Known
<1> QED BY <1>2, <1>8, <1>9, <1>10

\* Every step leaves windows knowing.
LEMMA KnownStep == ASSUME HistoryTypeOK, Stocked, Papers, OnceEach, Known, Apart, HistoryMove PROVE Known'
<1> SUFFICES ASSUME NEW w \in Windows, doc'[w].open
    PROVE  /\ doc'[w].saver \in {"no", "failed"} => Unused(doc[w].time)'
           /\ doc'[w].saver # "saved" => doc'[w].id = 0
           /\ \A e \in OnWay' : Saving(e) /\ e.time = doc'[w].time => e.page = w /\ doc'[w].saver = "saving"
  BY DEF Known
<1>1. ASSUME NEW k \in Weights, Comes(w, k)
      PROVE  /\ doc'[w].saver \in {"no", "failed"} => Unused(doc[w].time)'
             /\ doc'[w].saver # "saved" => doc'[w].id = 0
             /\ \A e \in OnWay' : Saving(e) /\ e.time = doc'[w].time => e.page = w /\ doc'[w].saver = "saving"
  <2>1. doc'[w].saver = "no" /\ doc'[w].id = 0 /\ Unused(doc[w].time)'
    BY <1>1, KnownComes
  <2> QED BY <2>1 DEF Unused
<1> QED BY <1>1, KnownKeeps

-----------------------------------------------------------------------------
\* The edits of a page that are on their way

\* A page that goes on showing a row without having heard of a new one.
Stays(w) ==
  /\ doc[w].open /\ doc'[w].open /\ doc'[w].id = doc[w].id /\ doc'[w].time = doc[w].time
  /\ ~HearsYes(w) /\ (~\E k \in Weights : Comes(w, k)) /\ ~\E i \in Ids : Views(w, i)

\* A page that shows something stays, hears of its row, or gets what it shows.
LEMMA PageMoves ==
  ASSUME HistoryTypeOK, Papers, HistoryMove, NEW w \in Pages, doc'[w].open
  PROVE  Stays(w) \/ HearsYes(w) \/ (\E k \in Weights : Comes(w, k)) \/ \E i \in Ids : Views(w, i)
BY DocKeeps DEF Stays

\* A page that has a new capture or a new row has no edits of it on their way.
LEMMA NoEdits ==
  ASSUME HistoryTypeOK, Stocked, Papers, Known, HistoryMove, NEW w \in Pages,
         HearsYes(w) \/ (\E k \in Weights : Comes(w, k)) \/ \E i \in Ids : Views(w, i)
  PROVE  Edits(w)' = {}
<1> SUFFICES ASSUME NEW e \in Edits(w)' PROVE FALSE
  OBVIOUS
<1>0. e \in OnWay' /\ e.do \in Update /\ e.page = w /\ e.id = doc'[w].id
  BY DEF Edits
<1>1. ASSUME NEW k \in Weights, Comes(w, k) PROVE FALSE
  <2>1. doc'[w].id = 0
    BY <1>1 DEF Comes, NoDoc
  <2>2. SentFor(e)'
    BY <1>0, SentStep
  <2> QED BY <1>0, <2>1, <2>2 DEF SentFor
<1>2. ASSUME NEW i \in Ids, Views(w, i) PROVE FALSE
  <2>1. w = "view" /\ calls = << >> /\ calls' = calls /\ encoding' = {f \in encoding : f.page # "view"}
    BY <1>2 DEF Views, OpenView
  <2> QED BY <1>0, <2>1 DEF OnWay
<1>3. ASSUME HearsYes(w) PROVE FALSE
  <2>1. doc[w] \in DocRec /\ given \in Nat
    BY TypesAre, HistoryConstants
  <2>2. doc'[w].id = given + 1 /\ SaveCapture
    BY <1>3, <2>1 DEF HearsYes, DocRec
  <2>3. e \in OnWay
    <3>1. calls # << >> /\ calls' = Tail(calls) /\ encoding' = encoding
      BY <2>2 DEF SaveCapture
    <3>2. \A n \in DOMAIN Tail(calls) : Tail(calls)[n] = calls[n + 1] /\ n + 1 \in DOMAIN calls
      BY <3>1, CallsOff
    <3> QED BY <1>0, <3>1, <3>2 DEF OnWay
  <2>4. e.id \in 0..given
    BY <2>3 DEF Papers, SentFor
  <2> QED BY <1>0, <2>1, <2>2, <2>4
<1> QED BY <1>1, <1>2, <1>3

\* The edits of a page that stays were on their way, or it pushes them.
LEMMA EditsMove ==
  ASSUME HistoryTypeOK, Stocked, Papers, HistoryMove, NEW w \in Pages, Stays(w), NEW e \in Edits(w)'
  PROVE  e \in Edits(w) \/ \E what \in Update : Pushes(w, what, e)
<1>1. e \in OnWay' /\ e.do \in Update /\ e.page = w /\ e.id = doc[w].id
  BY DEF Edits, Stays
<1>2. ~Otherwise(e)
  BY <1>1 DEF Otherwise, Update
<1>3. ASSUME NEW v \in Windows PROVE ~Saved(v, e)
  BY <1>1 DEF Saved, Message, Update
<1>4. ASSUME NEW v \in Pages, NEW what \in Update, Pushes(v, what, e) PROVE v = w
  BY <1>1, <1>4 DEF Pushes, Message
<1> QED BY <1>1, <1>2, <1>3, <1>4, OnWayMoves DEF Edits

\* What a page shows when it pushes an edit of it.
LEMMA PushShows ==
  ASSUME HistoryTypeOK, NEW w \in Pages, NEW what \in Update, Persist(w, what)
  PROVE  /\ doc'[w].note = doc[w].note /\ doc'[w].content = doc[w].content /\ doc'[w].time = doc[w].time
         /\ doc'[w].id = doc[w].id /\ doc'[w].told = doc[w].told /\ doc'[w].owes = doc[w].owes \ {what}
<1>1. doc \in [Pages -> DocRec] /\ doc[w] \in DocRec
  BY TypesAre
<1>2. doc'[w] = [doc[w] EXCEPT !.owes = @ \ {what}]
  BY <1>1 DEF Persist
<1> QED BY <1>1, <1>2 DEF DocRec

\* Every step leaves the edits on their way older than what they differ in.
LEMMA OlderStep == ASSUME HistoryTypeOK, Stocked, Papers, Known, EditsOlder, HistoryMove PROVE EditsOlder'
<1> SUFFICES ASSUME NEW w \in Pages, doc'[w].open, NEW e \in Edits(w)'
             PROVE  /\ e.time = doc'[w].time
                    /\ e.note # doc'[w].note => e.stamp < doc'[w].note
                    /\ e.content # doc'[w].content => e.stamp < doc'[w].content
  BY DEF EditsOlder
<1>1. Stays(w)
  BY PageMoves, NoEdits
<1>2. CASE e \in Edits(w)
  <2>1. /\ e.time = doc[w].time
        /\ e.note # doc[w].note => e.stamp < doc[w].note
        /\ e.content # doc[w].content => e.stamp < doc[w].content
    BY <1>1, <1>2 DEF EditsOlder, Stays
  <2>2. e \in Calls /\ e.stamp <= deeds /\ e.stamp \in Int /\ deeds \in Nat
    <3>1. e \in OnWay /\ SentFor(e)
      BY <1>2 DEF Edits, Papers
    <3>2. e \in Calls /\ deeds \in Nat
      BY <3>1, OnWayTyped, TypesAre, HistoryConstants
    <3> QED BY <3>1, <3>2, Versions0 DEF SentFor, Calls
  <2>3. ASSUME NEW what \in Update, Alters(w, what) PROVE e.stamp < deeds'
    <3>1. deeds' = deeds + 1
      BY <2>3 DEF Alters, Alter, MayDo
    <3> QED BY <2>2, <3>1
  <2>4. /\ doc'[w].note = doc[w].note \/ (Alters(w, "meta") /\ doc'[w].note = deeds')
        /\ doc'[w].content = doc[w].content \/ (Alters(w, "content") /\ doc'[w].content = deeds')
    BY <1>1, DocKeeps DEF Stays
  <2> QED BY <1>1, <2>1, <2>3, <2>4 DEF Stays, Update
<1>3. ASSUME NEW what \in Update, Pushes(w, what, e) PROVE e.time = doc'[w].time /\ e.note = doc'[w].note /\ e.content = doc'[w].content
  BY <1>3, PushShows DEF Pushes, Message
<1> QED BY <1>1, <1>2, <1>3, EditsMove

-----------------------------------------------------------------------------
\* What a page shows comes to its row

\* A page that is behind stays so while it shows what it shows.
LEMMA BehindKeeps ==
  ASSUME HistoryTypeOK, Papers, HistoryMove, NEW w \in Pages, doc'[w].open, ~\E i \in Ids : Views(w, i), w \in behind
  PROVE  w \in behind'
<1>0. doc \in [Pages -> DocRec] /\ Windows \subseteq Pages
  BY TypesAre DEF Windows, Pages
<1>1. ASSUME NEW v \in Windows, StartSave(v) \/ Leaves(v) \/ \E k \in Weights : Arrives(v, k) PROVE w \in behind'
  <2>1. CASE Leaves(v)
    <3>1. behind' = behind \ {v} /\ (v = w => doc'[w] = NoDoc)
      BY <1>0, <2>1 DEF Leaves, Vanish
    <3> QED BY <3>1 DEF NoDoc
  <2>2. CASE StartSave(v) \/ \E k \in Weights : Arrives(v, k)
    BY <2>2 DEF StartSave, Arrives, Appear, ghosts
  <2> QED BY <1>1, <2>1, <2>2
<1>2. ASSUME NEW v \in Pages, NEW what \in Update, Persist(v, what) \/ Alter(v, what) PROVE w \in behind'
  BY <1>2 DEF Persist, Alter, ghosts
<1>3. ASSUME NEW i \in Ids, OpenView(i) PROVE w \in behind'
  <2>1. behind' = behind \ {"view"}
    BY <1>3 DEF OpenView
  <2>2. w # "view"
    <3> SUFFICES ASSUME w = "view" PROVE Views(w, i)
      OBVIOUS
    <3> QED BY <1>0, <1>3 DEF Views, OpenView
  <2> QED BY <2>1, <2>2
<1>4. ASSUME CloseEditor PROVE w \in behind'
  <2>1. behind' = behind \ {"editor"} /\ (w = "editor" => doc'[w] = NoDoc)
    BY <1>0, <1>4 DEF CloseEditor, Vanish
  <2> QED BY <2>1 DEF NoDoc
<1>5. ASSUME Stops PROVE FALSE
  <2>1. doc'[w] = NoDoc
    BY <1>5 DEF Stops
  <2> QED BY <2>1 DEF NoDoc
<1>6. ASSUME SaveCapture \/ RemoveCaptures PROVE w \in behind'
  BY <1>6 DEF SaveCapture, RemoveCaptures
<1>7. ASSUME UpdateCapture PROVE w \in behind'
  BY <1>7 DEF UpdateCapture
<1>8. ASSUME \/ \E e \in encoding : Send(e)
             \/ \E v \in Pages : Discard(v)
             \/ \E i \in Ids \cup {0} : Strike(i)
      PROVE  w \in behind'
  BY <1>8 DEF Send, Discard, Strike, ghosts
<1> QED BY <1>1, <1>2, <1>3, <1>4, <1>5, <1>6, <1>7, <1>8 DEF HistoryMove

\* An edit of a page that stays is on its way until it is handled.
LEMMA EditsStay ==
  ASSUME HistoryTypeOK, Papers, HistoryMove, NEW w \in Pages, Stays(w), NEW e \in Edits(w),
         ~(UpdateCapture /\ Head(calls) = e)
  PROVE  e \in Edits(w)'
<1>0. /\ e \in OnWay /\ e.do \in Update /\ e.page = w /\ e.id = doc'[w].id /\ doc'[w].open
      /\ doc \in [Pages -> DocRec] /\ calls \in Seq(Calls) /\ Windows \subseteq Pages
  BY TypesAre DEF Edits, Stays, Windows, Pages
<1>a. ASSUME NEW x \in Calls, calls' = Append(calls, x), encoding' = encoding \/ encoding' = encoding \ {x} PROVE e \in OnWay'
  <2>1. {calls'[n] : n \in DOMAIN calls'} = {calls[n] : n \in DOMAIN calls} \cup {x}
    <3>1. {Append(calls, x)[n] : n \in DOMAIN Append(calls, x)} = {calls[n] : n \in DOMAIN calls} \cup {x}
      BY <1>0, <1>a, CallsOn
    <3> QED BY <1>a, <3>1
  <2> QED BY <1>0, <1>a, <2>1 DEF OnWay
<1>b. ASSUME calls # << >>, calls' = Tail(calls), encoding' = encoding \/ encoding' = {f \in encoding : f.page # "editor"},
             e # Head(calls), e \in encoding => e \in encoding'
      PROVE  e \in OnWay'
  <2>1. CASE e \in encoding
    BY <1>b, <2>1 DEF OnWay
  <2>2. CASE e \notin encoding
    <3>1. PICK n \in DOMAIN calls : e = calls[n]
      BY <1>0, <2>2 DEF OnWay
    <3>2. /\ Head(calls) = calls[1] /\ DOMAIN calls = 1..Len(calls) /\ Len(calls) \in Nat
          /\ DOMAIN Tail(calls) = 1..Len(calls) - 1
          /\ \A j \in 1..Len(calls) - 1 : Tail(calls)[j] = calls[j + 1]
      BY <1>b, CallsOff
    <3>3. n - 1 \in 1..Len(calls) - 1 /\ n - 1 + 1 = n
      BY <1>b, <3>1, <3>2
    <3>4. Tail(calls)[n - 1] = e
      BY <3>1, <3>2, <3>3
    <3> QED BY <1>b, <3>2, <3>3, <3>4 DEF OnWay
  <2> QED BY <2>1, <2>2
<1>c. ASSUME calls' = calls, \A f \in encoding : f.page = w => f \in encoding' PROVE e \in OnWay'
  BY <1>0, <1>c DEF OnWay
<1>1. ASSUME NEW v \in Windows, StartSave(v) \/ Leaves(v) \/ \E k \in Weights : Arrives(v, k) PROVE e \in OnWay'
  <2>1. CASE Leaves(v)
    <3>1. v # w
      <4>1. v = w => doc'[w] = NoDoc
        BY <1>0, <2>1 DEF Leaves, Vanish
      <4> QED BY <1>0, <4>1 DEF NoDoc
    <3> QED BY <1>c, <2>1, <3>1 DEF Leaves, Vanish
  <2>2. CASE StartSave(v) \/ \E k \in Weights : Arrives(v, k)
    BY <1>c, <2>2 DEF StartSave, Arrives, Appear
  <2> QED BY <1>1, <2>1, <2>2
<1>2. ASSUME NEW v \in Pages, NEW what \in Update, Persist(v, what) PROVE e \in OnWay'
  <2>1. Message(what, v) \in Calls
    BY MessageTyped DEF Update
  <2>2. CASE doc[v].id # 0 /\ what = "meta"
    <3>1. calls' = Append(calls, Message(what, v)) /\ encoding' = encoding
      BY <1>2, <2>2 DEF Persist
    <3> QED BY <1>a, <2>1, <3>1
  <2>3. CASE ~(doc[v].id # 0 /\ what = "meta")
    BY <1>2, <1>c, <2>3 DEF Persist
  <2> QED BY <2>2, <2>3
<1>3. ASSUME NEW v \in Pages, NEW what \in Update, Alter(v, what) PROVE e \in OnWay'
  BY <1>3, <1>c DEF Alter
<1>4. ASSUME NEW x \in encoding, Send(x) PROVE e \in OnWay'
  <2>1. x \in Calls
    BY TypesAre
  <2> QED BY <1>4, <1>a, <2>1 DEF Send
<1>5. ASSUME NEW v \in Pages, Discard(v) PROVE e \in OnWay'
  <2>1. \E x \in Calls : calls' = Append(calls, x)
    BY <1>5, MessageTyped DEF Discard
  <2> QED BY <1>5, <1>a, <2>1 DEF Discard
<1>6. ASSUME NEW i \in Ids \cup {0}, Strike(i) PROVE e \in OnWay'
  <2>1. \E x \in Calls : calls' = Append(calls, x)
    BY <1>6, FromListTyped DEF Strike
  <2> QED BY <1>6, <1>a, <2>1 DEF Strike
<1>7. ASSUME NEW i \in Ids, OpenView(i) PROVE e \in OnWay'
  <2>1. w # "view"
    <3> SUFFICES ASSUME w = "view" PROVE Views(w, i)
      BY DEF Stays
    <3> QED BY <1>0, <1>7 DEF Views, OpenView
  <2> QED BY <1>7, <1>c, <2>1 DEF OpenView
<1>8. ASSUME SaveCapture PROVE e \in OnWay'
  <2>1. Head(calls).do = "save" /\ calls # << >> /\ calls' = Tail(calls) /\ encoding' = encoding
    BY <1>8 DEF SaveCapture
  <2>2. e # Head(calls)
    BY <1>0, <2>1 DEF Update
  <2> QED BY <1>b, <2>1, <2>2
<1>9. ASSUME UpdateCapture PROVE e \in OnWay'
  <2>1. calls # << >> /\ calls' = Tail(calls) /\ encoding' = encoding /\ e # Head(calls)
    BY <1>9 DEF UpdateCapture
  <2> QED BY <1>b, <2>1
<1>10. ASSUME CloseEditor PROVE e \in OnWay'
  <2>1. calls # << >> /\ calls' = Tail(calls) /\ encoding' = {f \in encoding : f.page # "editor"} /\ Head(calls).do = "close"
        /\ (w = "editor" => doc'[w] = NoDoc)
    BY <1>0, <1>10 DEF CloseEditor, Vanish
  <2>2. e # Head(calls) /\ w # "editor"
    BY <1>0, <2>1 DEF Update, NoDoc
  <2>3. e \in encoding => e \in encoding'
    BY <1>0, <2>1, <2>2
  <2> QED BY <1>b, <2>1, <2>2, <2>3
<1>11. ASSUME RemoveCaptures PROVE e \in OnWay'
  <2>1. /\ calls # << >> /\ Head(calls).do \in {"delete", "clear"} /\ encoding' = encoding
        /\ calls' \in {Tail(calls), Append(Tail(calls), Message("close", Head(calls).page))}
        /\ calls' # Tail(calls) => Head(calls).page \in Pages
    BY <1>11, RemoveHandles DEF RemoveCaptures
  <2>2. e # Head(calls)
    BY <1>0, <2>1 DEF Update
  <2>3. e \in encoding \/ \E n \in DOMAIN Tail(calls) : e = Tail(calls)[n]
    <3> SUFFICES ASSUME e \notin encoding PROVE \E n \in DOMAIN Tail(calls) : e = Tail(calls)[n]
      OBVIOUS
    <3>1. PICK n \in DOMAIN calls : e = calls[n]
      BY <1>0 DEF OnWay
    <3>2. /\ Head(calls) = calls[1] /\ DOMAIN calls = 1..Len(calls) /\ Len(calls) \in Nat
          /\ DOMAIN Tail(calls) = 1..Len(calls) - 1
          /\ \A j \in 1..Len(calls) - 1 : Tail(calls)[j] = calls[j + 1]
      BY <2>1, CallsOff
    <3>3. n - 1 \in 1..Len(calls) - 1 /\ n - 1 + 1 = n
      BY <2>2, <3>1, <3>2
    <3> QED BY <3>1, <3>2, <3>3
  <2>4. CASE calls' = Tail(calls)
    BY <2>1, <2>3, <2>4 DEF OnWay
  <2>5. CASE calls' # Tail(calls)
    <3>1. Message("close", Head(calls).page) \in Calls /\ Tail(calls) \in Seq(Calls)
      BY <2>1, <2>5, MessageTyped, CallsOff
    <3> DEFINE a == Append(Tail(calls), Message("close", Head(calls).page))
    <3>2. {a[n] : n \in DOMAIN a} = {Tail(calls)[n] : n \in DOMAIN Tail(calls)} \cup {Message("close", Head(calls).page)}
      BY <3>1, CallsOn
    <3>3. calls' = a
      BY <2>1, <2>5
    <3> HIDE DEF a
    <3>4. {calls'[n] : n \in DOMAIN calls'} = {a[n] : n \in DOMAIN a}
      BY <3>3
    <3> QED BY <2>1, <2>3, <3>2, <3>4 DEF OnWay
  <2> QED BY <2>4, <2>5
<1>12. ASSUME Stops PROVE FALSE
  BY <1>0, <1>12 DEF Stops, NoDoc
<1>13. e \in OnWay'
  <2>1. CASE \E v \in Windows : StartSave(v) \/ Leaves(v) \/ \E k \in Weights : Arrives(v, k)
    BY <1>1, <2>1
  <2>2. CASE \E v \in Pages, what \in Update : Persist(v, what) \/ Alter(v, what)
    BY <1>2, <1>3, <2>2
  <2>3. CASE \/ \E x \in encoding : Send(x)
             \/ \E v \in Pages : Discard(v)
             \/ \E i \in Ids \cup {0} : Strike(i)
             \/ \E i \in Ids : OpenView(i)
    BY <1>4, <1>5, <1>6, <1>7, <2>3
  <2>4. CASE SaveCapture \/ UpdateCapture \/ RemoveCaptures \/ CloseEditor \/ Stops
    BY <1>8, <1>9, <1>10, <1>11, <1>12, <2>4
  <2> QED BY <2>1, <2>2, <2>3, <2>4 DEF HistoryMove
<1> QED BY <1>0, <1>13 DEF Edits

\* A row that is whole before and after a step is as it was, but for an edit of it.
LEMMA RowStays ==
  ASSUME HistoryTypeOK, Stocked, Papers, HistoryMove, NEW i \in Whole, i \in Whole', ~(UpdateCapture /\ Head(calls).id = i), ~Stops
  PROVE  SameAt(i)
<1>0. i \in Ids \ torn' /\ store'.rows[i] # NoRow /\ i \in 1..given /\ given \in Nat
  BY TypesAre, HistoryConstants DEF Whole, Kept, Stocked
<1>1. CASE UNCHANGED store
  BY <1>1 DEF SameAt
<1>2. ASSUME NEW m, NEW steps, NEW k, Handles(m, steps, k), ~(m.do \in Update /\ m.id = i) PROVE SameAt(i)
  <2>1. ~GoneAt(i) /\ i # given + 1
    BY <1>0 DEF GoneAt
  <2> QED BY <1>0, <1>2, <2>1 DEF Handles, Outcome
<1>3. CASE Asides
  BY <1>1, <1>3, AsidesLeave
<1>4. CASE SaveCapture
  <2>1. PICK steps : \E k \in 0..Len(steps) : Handles(Head(calls), steps, k) /\ Head(calls).do = "save"
    BY <1>4, SaveHandles
  <2> QED BY <1>2, <2>1 DEF Update
<1>5. CASE RemoveCaptures
  <2>1. PICK steps : \E k \in 0..Len(steps) : Handles(Head(calls), steps, k) /\ Head(calls).do \in {"delete", "clear"}
    BY <1>5, RemoveHandles
  <2> QED BY <1>2, <2>1 DEF Update
<1>6. CASE UpdateCapture
  <2>1. \E k \in 0..Len(Updates(Head(calls))) : Handles(Head(calls), Updates(Head(calls)), k)
    BY <1>6, UpdateHandles
  <2> QED BY <1>2, <1>6, <2>1
<1> QED BY <1>3, <1>4, <1>5, <1>6 DEF HistoryMove, Asides

\* A window on the history shows its row.
LEMMA PushedViews ==
  ASSUME HistoryTypeOK, Stocked, Papers, Known, HistoryMove, NEW w \in Pages, NEW i \in Ids, Views(w, i), doc'[w].id \in Whole'
  PROVE  NoteComes(w)' /\ PictureComes(w)'
<1>1. Edits(w)' = {}
  BY NoEdits
<1>2. /\ doc'[w].id = i /\ doc'[w].content = store.full[i] /\ doc'[w].note = store.rows[i].note
      /\ store' = store /\ torn' = torn /\ i \in Kept(store)
  <2>1. doc'[w].id = i /\ doc'[w].content = store.full[i] /\ doc'[w].note = store.rows[i].note
    BY DEF Views, NoDoc
  <2>2. store' = store /\ torn' = torn /\ i \in Kept(store)
    BY DEF Views, OpenView
  <2> QED BY <2>1, <2>2
<1>3. store.full[i] = store.rows[i].of
  BY <1>2 DEF Whole, Stocked, Images
<1> QED BY <1>1, <1>2, <1>3 DEF NoteComes, PictureComes

\* A page hears of a row that holds what it shows, or that it has yet to push.
LEMMA PushedHears ==
  ASSUME HistoryTypeOK, Stocked, Papers, Known, SnapshotsGood, HistoryMove, NEW w \in Pages, HearsYes(w), w \notin behind',
         doc'[w].id \in Whole'
  PROVE  NoteComes(w)' /\ PictureComes(w)'
<1> DEFINE m == Head(calls)
<1>0. doc \in [Pages -> DocRec] /\ doc[w] \in DocRec
  BY TypesAre
<1>1. Edits(w)' = {}
  BY NoEdits
<1>2. /\ doc'[w].id = given + 1 /\ doc'[w].note = doc[w].note /\ doc'[w].content = doc[w].content /\ doc'[w].owes = doc[w].owes
      /\ SaveCapture /\ doc[w].open /\ doc[w].time = m.time /\ w = m.page /\ Saving(m)
  BY <1>0 DEF HearsYes, DocRec, Told, Waits, SaveCapture, Saving
<1>3. m \in OnWay /\ SentFor(m)
  BY <1>2, Hearing DEF SaveCapture
<1>4. w \in Windows /\ w \notin behind
  BY <1>2, <1>3 DEF SentFor, SaveCapture
<1>5. /\ m.note = doc[w].note \/ "meta" \in doc[w].owes
      /\ m.content = doc[w].content \/ "content" \in doc[w].owes
  BY <1>2, <1>3, <1>4 DEF SnapshotsGood
<1>6. PICK steps : \E k \in 0..Len(steps) : Handles(m, steps, k)
  BY <1>2, SaveHandles
<1>7. given + 1 \in Ids \ torn' /\ given + 1 \notin Kept(store) /\ store'.rows[given + 1] # NoRow
  <2>1. given \in Nat
    BY TypesAre, HistoryConstants
  <2>2. given + 1 \notin 1..given
    BY <2>1
  <2> QED BY <1>2, <2>2 DEF Whole, Kept, Stocked
<1>8. NewAt(m)
  <2>1. ~SameAt(given + 1) /\ ~GoneAt(given + 1)
    BY <1>7 DEF SameAt, GoneAt, Kept, Tables
  <2>2. m.do \notin Update
    BY <1>2 DEF Saving, Update
  <2> QED BY <1>6, <1>7, <2>1, <2>2 DEF Handles, Outcome
<1>9. store'.rows[given + 1].note = m.note /\ store'.rows[given + 1].of = m.content
  BY <1>8 DEF NewAt, RowOf
<1> HIDE DEF m
<1> QED BY <1>1, <1>2, <1>5, <1>9 DEF NoteComes, PictureComes

\* A page whose row an edit of its own has reached in time: what that edit leaves open comes.
LEMMA PushedEdited ==
  ASSUME HistoryTypeOK, Stocked, Papers, EditsOlder, Pushed, HistoryMove, NEW w \in Pages, Stays(w), w \notin behind,
         w \notin behind', doc[w].id \in Whole, UpdateCapture, Head(calls).id = doc[w].id
  PROVE  NoteComes(w)' /\ PictureComes(w)'
<1> DEFINE m == Head(calls)
           i == doc[w].id
<1>0. doc \in [Pages -> DocRec] /\ doc[w] \in DocRec /\ doc[w].open
  BY TypesAre DEF Stays
<1>1. calls # << >> /\ m \in Calls /\ m \in OnWay /\ SentFor(m) /\ m.do \in Update
  BY Hearing DEF UpdateCapture, Update
<1>2. PICK k \in 0..Len(Updates(m)) :
        /\ Amended(m, k)
        /\ behind' = behind \cup {v \in Pages \ {m.page} : doc[v].open /\ doc[v].id = m.id}
                            \cup (IF Waits(m) /\ m.stamp < doc[m.page].told THEN {m.page} ELSE {})
                            \cup (IF k < Len(Updates(m)) THEN {m.page} ELSE {})
  BY UpdateHandles
<1>3. w = m.page
  BY <1>0, <1>2
<1>4. m \in Edits(w)
  BY <1>1, <1>3 DEF Edits
<1>5. Waits(m)
  BY <1>0, <1>3, <1>4 DEF Waits, EditsOlder
<1>6. doc[w].told \in Int /\ m.stamp \in Int /\ m.note \in Int /\ m.content \in Int /\ doc[w].note \in Int /\ doc[w].content \in Int
  BY <1>0, <1>1, Versions0 DEF DocRec, Calls
<1>7. doc[w].told <= m.stamp
  BY <1>2, <1>3, <1>5, <1>6
<1>8. /\ doc'[w].told = m.stamp /\ doc'[w].note = doc[w].note /\ doc'[w].content = doc[w].content
      /\ doc'[w].owes = doc[w].owes /\ doc'[w].id = i
  <2>1. doc' = [doc EXCEPT ![m.page].told = Larger(@, m.stamp)]
    BY <1>5 DEF UpdateCapture
  <2>2. Larger(doc[w].told, m.stamp) = m.stamp
    BY <1>6, <1>7 DEF Larger
  <2>3. doc'[w] = [doc[w] EXCEPT !.told = m.stamp]
    BY <1>0, <1>3, <2>1, <2>2
  <2> QED BY <1>0, <2>3 DEF DocRec
<1>9. EditedAt(m) /\ store.rows[i] \in RowRec
  <2>1. Len(Updates(m)) \in Nat
    BY <1>1, UpdateSteps
  <2>2. k = Len(Updates(m))
    <3>1. ~(k < Len(Updates(m)))
      BY <1>2, <1>3
    <3> HIDE DEF m
    <3> QED BY <2>1, <3>1
  <2>3. i \in Kept(store) /\ i \in Ids
    BY DEF Whole, Kept
  <2> QED BY <1>2, <2>2, <2>3, TypesAre DEF Amended, StoreTyped
<1>10. /\ store'.rows[i].note = m.note
       /\ store'.rows[i].of = IF m.do = "content" THEN m.content ELSE store.rows[i].of
  BY <1>9 DEF EditedAt, EditOf, RowRec
<1>11. ASSUME NEW e \in Edits(w)'
       PROVE  /\ e \in Edits(w) /\ e.stamp \in Int
              /\ e.note # doc[w].note => e.stamp < doc[w].note
              /\ e.content # doc[w].content => e.stamp < doc[w].content
  <2>1. e \in Edits(w)
    <3>1. ASSUME NEW what \in Update, Pushes(w, what, e) PROVE FALSE
      <4>1. doc'[w].owes = doc[w].owes \ {what} /\ what \in doc[w].owes
        BY <3>1, PushShows DEF Pushes, Persist
      <4> QED BY <1>8, <4>1
    <3> QED BY <3>1, EditsMove
  <2>2. e \in Calls
    BY <2>1, OnWayTyped DEF Edits
  <2> QED BY <1>0, <2>1, <2>2, Versions0 DEF EditsOlder, Calls
<1>12. \A e \in Edits(w) : e # m => e \in Edits(w)'
  BY EditsStay
<1>13. NoteComes(w) /\ PictureComes(w)
  BY <1>0 DEF Pushed
<1>14. m.stamp >= m.note /\ m.stamp >= m.content
  BY <1>1, <1>6 DEF SentFor, Larger
<1>15. /\ m.note # doc[w].note => m.stamp < doc[w].note
       /\ m.content # doc[w].content => m.stamp < doc[w].content
  BY <1>0, <1>4 DEF EditsOlder
<1>16. ~(m.stamp < doc[w].told)
  BY <1>6, <1>7
<1> HIDE DEF m
<1>17. NoteComes(w)'
  <2>1. CASE m.note = doc[w].note
    <3>1. CASE \E e \in Edits(w)' : e.note = doc[w].note
      BY <1>8, <3>1 DEF NoteComes
    <3>2. CASE \A e \in Edits(w)' : e.note # doc[w].note
      <4>1. \A e \in Edits(w)' : e.stamp < m.stamp
        <5> SUFFICES ASSUME NEW e \in Edits(w)' PROVE e.stamp < m.stamp
          OBVIOUS
        <5>1. e.stamp < m.note /\ e.stamp \in Int
          BY <1>11, <2>1, <3>2
        <5> QED BY <1>6, <1>14, <5>1
      <4> QED BY <1>8, <1>10, <2>1, <4>1 DEF NoteComes
    <3> QED BY <3>1, <3>2
  <2>2. CASE m.note # doc[w].note
    <3>1. CASE "meta" \in doc[w].owes
      BY <1>8, <3>1 DEF NoteComes
    <3>2. ASSUME NEW e \in Edits(w), e.note = doc[w].note PROVE NoteComes(w)'
      <4>1. e \in Edits(w)'
        BY <1>12, <2>2, <3>2
      <4> QED BY <1>8, <3>2, <4>1 DEF NoteComes
    <3> QED BY <1>4, <1>13, <1>16, <2>2, <3>1, <3>2 DEF NoteComes
  <2> QED BY <2>1, <2>2
<1>18. PictureComes(w)'
  <2>1. CASE m.do = "content" /\ m.content = doc[w].content
    <3>1. CASE \E e \in Edits(w)' : e.do = "content" /\ e.content = doc[w].content
      BY <1>8, <3>1 DEF PictureComes
    <3>2. CASE \A e \in Edits(w)' : e.do = "content" => e.content # doc[w].content
      <4>1. \A e \in Edits(w)' : e.do = "content" => e.stamp < m.stamp
        <5> SUFFICES ASSUME NEW e \in Edits(w)', e.do = "content" PROVE e.stamp < m.stamp
          OBVIOUS
        <5>1. e.stamp < m.content /\ e.stamp \in Int
          BY <1>11, <2>1, <3>2
        <5> QED BY <1>6, <1>14, <5>1
      <4> QED BY <1>8, <1>10, <2>1, <4>1 DEF PictureComes
    <3> QED BY <3>1, <3>2
  <2>2. CASE ~(m.do = "content" /\ m.content = doc[w].content)
    <3>1. CASE "content" \in doc[w].owes
      BY <1>8, <3>1 DEF PictureComes
    <3>2. ASSUME NEW e \in Edits(w), e.do = "content", e.content = doc[w].content PROVE PictureComes(w)'
      <4>1. e \in Edits(w)'
        BY <1>12, <2>2, <3>2
      <4> QED BY <1>8, <3>2, <4>1 DEF PictureComes
    <3>3. CASE /\ store.rows[i].of = doc[w].content
               /\ \A e \in Edits(w) : e.do = "content" => e.content = doc[w].content \/ e.stamp < doc[w].told
      <4>1. m.do # "content"
        BY <1>4, <1>16, <2>2, <3>3
      <4>2. store'.rows[i].of = doc[w].content
        BY <1>10, <3>3, <4>1
      <4>3. \A e \in Edits(w)' : e.do = "content" => e.content = doc[w].content \/ e.stamp < m.stamp
        <5> SUFFICES ASSUME NEW e \in Edits(w)', e.do = "content", e.content # doc[w].content PROVE e.stamp < m.stamp
          OBVIOUS
        <5>1. e.stamp < doc[w].told /\ e.stamp \in Int
          BY <1>11, <3>3
        <5> QED BY <1>6, <1>7, <5>1
      <4> QED BY <1>8, <4>2, <4>3 DEF PictureComes
    <3> QED BY <1>13, <3>1, <3>2, <3>3 DEF PictureComes
  <2> QED BY <2>1, <2>2
<1> QED BY <1>17, <1>18

\* A page that stays, and whose row is not edited.
LEMMA PushedStays ==
  ASSUME HistoryTypeOK, Stocked, Papers, Pushed, HistoryMove, NEW w \in Pages, Stays(w), w \notin behind,
         doc[w].id \in Whole, SameAt(doc[w].id), ~(UpdateCapture /\ Head(calls).id = doc[w].id)
  PROVE  NoteComes(w)' /\ PictureComes(w)'
<1> DEFINE i == doc[w].id
<1>0. doc \in [Pages -> DocRec] /\ doc[w] \in DocRec /\ doc[w].open /\ doc'[w].id = i /\ i # 0
  BY TypesAre DEF Stays, Whole, Kept, Ids
<1>1. store'.rows[i] = store.rows[i]
  BY DEF SameAt, Tables
<1>2. NoteComes(w) /\ PictureComes(w)
  BY <1>0 DEF Pushed
<1>3. \A e \in Edits(w) : e \in Edits(w)'
  <2> SUFFICES ASSUME NEW e \in Edits(w) PROVE e \in Edits(w)'
    OBVIOUS
  <2>1. e.id = i
    BY DEF Edits
  <2> QED BY <2>1, EditsStay
<1>4. /\ doc'[w].told = doc[w].told \/ Hears(w)
      /\ doc'[w].note = doc[w].note \/ "meta" \in doc'[w].owes
      /\ doc'[w].content = doc[w].content \/ "content" \in doc'[w].owes
      /\ doc[w].owes \subseteq doc'[w].owes \/ \E what \in Update : Settles(w, what)
  BY DocKeeps DEF Stays
<1>5. doc[w].told \in Int /\ doc'[w].told \in Int /\ doc[w].told <= doc'[w].told
  <2>1. doc[w].told \in Versions
    BY <1>0 DEF DocRec
  <2>2. CASE Hears(w)
    <3>1. doc'[w].told = Larger(doc[w].told, Head(calls).stamp)
      BY <1>0, <2>2 DEF Hears, DocRec
    <3>2. Head(calls).stamp \in Versions
      BY <2>2, Hearing DEF Hears, Told, Calls
    <3>3. Larger(doc[w].told, Head(calls).stamp) \in Versions /\ Larger(doc[w].told, Head(calls).stamp) >= doc[w].told
      BY <2>1, <3>2, Versions0
    <3>4. doc[w].told \in Int /\ Larger(doc[w].told, Head(calls).stamp) \in Int
      BY <2>1, <3>3, Versions0
    <3> QED BY <3>1, <3>3, <3>4
  <2>3. CASE doc'[w].told = doc[w].told
    <3>1. doc[w].told \in Int
      BY <2>1, Versions0
    <3> QED BY <2>3, <3>1
  <2> QED BY <1>4, <2>2, <2>3
<1>6. ASSUME NEW e \in Edits(w)' PROVE e.stamp \in Int /\ (e \in Edits(w) \/ (e.note = doc[w].note /\ e.content = doc[w].content))
  <2>1. e.stamp \in Int
    <3>1. e \in OnWay'
      BY DEF Edits
    <3>2. e \in Calls
      BY <3>1, OnWayMoves, CallsOn DEF OnWay
    <3> QED BY <3>2, Versions0 DEF Calls
  <2>2. ASSUME NEW what \in Update, Pushes(w, what, e) PROVE e.note = doc[w].note /\ e.content = doc[w].content
    BY <2>2 DEF Pushes, Message
  <2> QED BY <2>1, <2>2, EditsMove
<1>7. ASSUME NEW what \in Update, Settles(w, what)
      PROVE  /\ doc'[w].owes = doc[w].owes \ {what} /\ doc'[w].note = doc[w].note /\ doc'[w].content = doc[w].content
             /\ \E e \in Edits(w)' : e.do = what /\ e.note = doc[w].note /\ e.content = doc[w].content
  <2>1. doc'[w].owes = doc[w].owes \ {what} /\ doc'[w].note = doc[w].note /\ doc'[w].content = doc[w].content
    BY <1>7, PushShows DEF Settles
  <2> DEFINE e == Message(what, w)
  <2>2. e.do = what /\ e.note = doc[w].note /\ e.content = doc[w].content /\ e.page = w /\ e.id = i
    BY DEF Message
  <2>3. e \in OnWay'
    <3>1. e \in Calls /\ calls \in Seq(Calls)
      BY MessageTyped, TypesAre DEF Update
    <3>2. CASE what = "meta"
      <4>1. calls' = Append(calls, e)
        BY <1>0, <1>7, <3>2 DEF Settles, Persist
      <4>2. {Append(calls, e)[n] : n \in DOMAIN Append(calls, e)} = {calls[n] : n \in DOMAIN calls} \cup {e}
        BY <3>1, CallsOn
      <4> HIDE DEF e
      <4>3. e \in {calls'[n] : n \in DOMAIN calls'}
        BY <4>1, <4>2
      <4> QED BY <4>3 DEF OnWay
    <3>3. CASE what = "content"
      BY <1>0, <1>7, <3>3 DEF Settles, Persist, OnWay
    <3> QED BY <3>2, <3>3 DEF Update
  <2>4. e \in Edits(w)'
    BY <1>0, <2>2, <2>3 DEF Edits
  <2> QED BY <2>1, <2>2, <2>4
<1>8. NoteComes(w)'
  <2>1. CASE "meta" \in doc'[w].owes
    BY <2>1 DEF NoteComes
  <2>2. CASE "meta" \notin doc'[w].owes
    <3>1. doc'[w].note = doc[w].note
      BY <1>4, <2>2
    <3>2. CASE "meta" \in doc[w].owes
      <4>1. PICK what \in Update : Settles(w, what)
        BY <1>4, <2>2, <3>2
      <4> QED BY <1>7, <4>1 DEF NoteComes
    <3>3. ASSUME NEW e \in Edits(w), e.note = doc[w].note PROVE NoteComes(w)'
      BY <1>3, <3>1, <3>3 DEF NoteComes
    <3>4. CASE /\ store.rows[i].note = doc[w].note
               /\ \A e \in Edits(w) : e.note = doc[w].note \/ e.stamp < doc[w].told
      <4>1. \A e \in Edits(w)' : e.note = doc[w].note \/ e.stamp < doc'[w].told
        BY <1>5, <1>6, <3>4
      <4> QED BY <1>0, <1>1, <3>1, <3>4, <4>1 DEF NoteComes
    <3> QED BY <1>2, <3>2, <3>3, <3>4 DEF NoteComes
  <2> QED BY <2>1, <2>2
<1>9. PictureComes(w)'
  <2>1. CASE "content" \in doc'[w].owes
    BY <2>1 DEF PictureComes
  <2>2. CASE "content" \notin doc'[w].owes
    <3>1. doc'[w].content = doc[w].content
      BY <1>4, <2>2
    <3>2. CASE "content" \in doc[w].owes
      <4>1. PICK what \in Update : Settles(w, what)
        BY <1>4, <2>2, <3>2
      <4>2. what = "content"
        BY <1>7, <2>2, <3>2, <4>1
      <4> QED BY <1>7, <4>1, <4>2 DEF PictureComes
    <3>3. ASSUME NEW e \in Edits(w), e.do = "content", e.content = doc[w].content PROVE PictureComes(w)'
      BY <1>3, <3>1, <3>3 DEF PictureComes
    <3>4. CASE /\ store.rows[i].of = doc[w].content
               /\ \A e \in Edits(w) : e.do = "content" => e.content = doc[w].content \/ e.stamp < doc[w].told
      <4>1. \A e \in Edits(w)' : e.do = "content" => e.content = doc[w].content \/ e.stamp < doc'[w].told
        BY <1>5, <1>6, <3>4
      <4> QED BY <1>0, <1>1, <3>1, <3>4, <4>1 DEF PictureComes
    <3> QED BY <1>2, <3>2, <3>3, <3>4 DEF PictureComes
  <2> QED BY <2>1, <2>2
<1> QED BY <1>8, <1>9

\* Every step leaves what pages show on its way to their rows, or there.
LEMMA PushedStep ==
  ASSUME HistoryTypeOK, Stocked, Papers, Known, EditsOlder, Pushed, SnapshotsGood, HistoryMove PROVE Pushed'
<1> SUFFICES ASSUME NEW w \in Pages, w \notin behind', doc'[w].open, doc'[w].id \in Whole' PROVE NoteComes(w)' /\ PictureComes(w)'
  BY DEF Pushed
<1>1. CASE HearsYes(w)
  BY <1>1, PushedHears
<1>2. ASSUME NEW k \in Weights, Comes(w, k) PROVE FALSE
  <2>1. doc'[w].id = 0
    BY <1>2 DEF Comes, NoDoc
  <2> QED BY <2>1 DEF Whole, Kept, Ids
<1>3. ASSUME NEW i \in Ids, Views(w, i) PROVE NoteComes(w)' /\ PictureComes(w)'
  BY <1>3, PushedViews
<1>4. CASE Stays(w)
  <2>1. w \notin behind /\ ~Stops
    <3>1. ~Stops
      BY DEF Stops, NoDoc
    <3> QED BY <1>4, <3>1, BehindKeeps DEF Stays
  <2>2. doc[w].id \in Whole /\ doc[w].id \in Whole'
    <3>1. doc'[w].id = doc[w].id /\ doc[w].id \in 0..given /\ given \in Nat
      BY <1>4, TypesAre, HistoryConstants DEF Stays, Papers, ShownDoc
    <3>2. doc[w].id # given + 1
      BY <3>1
    <3> QED BY <3>1, <3>2, WholeMoves
  <2>3. CASE UpdateCapture /\ Head(calls).id = doc[w].id
    BY <1>4, <2>1, <2>2, <2>3, PushedEdited
  <2>4. CASE ~(UpdateCapture /\ Head(calls).id = doc[w].id)
    <3>1. SameAt(doc[w].id)
      BY <2>1, <2>2, <2>4, RowStays
    <3> QED BY <1>4, <2>1, <2>2, <2>4, <3>1, PushedStays
  <2> QED BY <2>3, <2>4
<1> QED BY <1>1, <1>2, <1>3, <1>4, PageMoves

\* Every step leaves the saves on their way with what their pages show, or have yet to push.
LEMMA SnapshotsStep ==
  ASSUME HistoryTypeOK, Stocked, Papers, Known, Apart, SnapshotsGood, HistoryMove PROVE SnapshotsGood'
<1> SUFFICES ASSUME NEW w \in Windows, w \notin behind', doc'[w].open, NEW e \in OnWay', Saving(e), e.time = doc'[w].time
             PROVE  /\ e.note = doc'[w].note \/ "meta" \in doc'[w].owes
                    /\ e.content = doc'[w].content \/ "content" \in doc'[w].owes
  BY DEF SnapshotsGood
<1>0. doc \in [Pages -> DocRec] /\ w \in Pages /\ doc[w] \in DocRec /\ w # "view"
  BY TypesAre DEF Windows, Pages
<1>1. ASSUME NEW k \in Weights, Comes(w, k) PROVE FALSE
  <2>1. Unused(doc[w].time)'
    BY <1>1, KnownComes
  <2> QED BY <2>1 DEF Unused
<1>2. ~\E i \in Ids : Views(w, i)
  BY <1>0 DEF Views
<1>3. w \notin behind
  BY <1>0, <1>2, BehindKeeps
<1>4. /\ doc[w].open /\ doc'[w].time = doc[w].time
      /\ doc'[w].note = doc[w].note \/ "meta" \in doc'[w].owes
      /\ doc'[w].content = doc[w].content \/ "content" \in doc'[w].owes
      /\ doc[w].owes \subseteq doc'[w].owes \/ \E what \in Update : Settles(w, what)
  BY <1>0, <1>1, <1>2, DocKeeps
<1>5. CASE e \in OnWay
  <2>1. /\ e.note = doc[w].note \/ "meta" \in doc[w].owes
        /\ e.content = doc[w].content \/ "content" \in doc[w].owes
    BY <1>3, <1>4, <1>5 DEF SnapshotsGood
  <2>2. doc[w].saver = "saving"
    BY <1>4, <1>5 DEF Known
  <2>3. ASSUME NEW what \in Update, Settles(w, what) PROVE FALSE
    BY <2>2, <2>3 DEF Settles, Persist
  <2> QED BY <1>4, <2>1, <2>3
<1>6. ASSUME NEW v \in Windows, Saved(v, e)
      PROVE  e.note = doc'[w].note /\ e.content = doc'[w].content
  <2>1. StartSave(v) /\ e.page = v /\ e.time = doc[v].time /\ doc[v].open /\ e.note = doc[v].note /\ e.content = doc[v].content
    BY <1>6 DEF Saved, Message, StartSave
  <2>2. v = w
    BY <1>4, <2>1, OneShows
  <2>3. doc'[w] = [doc[w] EXCEPT !.saver = "saving"]
    BY <1>0, <2>1, <2>2 DEF StartSave
  <2> QED BY <1>0, <2>1, <2>2, <2>3 DEF DocRec
<1> QED BY <1>5, <1>6, SavesMove

-----------------------------------------------------------------------------
\* The caps

\* The units that rows take.
Units(s, ids) == UNION {{i} \X (1..s.rows[i].weight) : i \in ids}

\* They are finitely many: a smallest set of rows that took infinitely many would, without
\* one of them, take finitely many.
LEMMA UnitsFinite ==
  ASSUME NEW s, \A i \in Ids : s.rows[i].weight \in Nat, NEW A, A \subseteq Ids PROVE IsFiniteSet(Units(s, A))
<1> DEFINE Bad == {T \in SUBSET Ids : ~IsFiniteSet(Units(s, T))}
<1>0. IsFiniteSet(Ids)
  <2>1. 1 \in Int /\ MaxIds \in Int
    BY HistoryConstants
  <2> QED BY <2>1, FS_Interval DEF Ids
<1>1. IsWellFoundedOn(StrictSubsetOrdering(Ids), FiniteSubsetsOf(Ids))
  BY FS_StrictSubsetOrderingWellFounded
<1>2. Bad \subseteq FiniteSubsetsOf(Ids)
  BY <1>0, FS_Subset DEF FiniteSubsetsOf
<1>3. Bad = {}
  <2> SUFFICES ASSUME Bad # {} PROVE FALSE
    OBVIOUS
  <2>1. PICK T \in Bad : \A R \in Bad : ~(<<R, T>> \in StrictSubsetOrdering(Ids))
    <3> HIDE DEF Bad
    <3> QED BY <1>1, <1>2, WFMin
  <2>2. T # {}
    <3>1. Units(s, {}) = {}
      BY DEF Units
    <3> QED BY <3>1, FS_EmptySet
  <2>3. PICK i \in T : TRUE
    BY <2>2
  <2>4. i \in Ids /\ s.rows[i].weight \in Nat
    OBVIOUS
  <2>5. IsFiniteSet(Units(s, T \ {i}))
    <3>1. <<T \ {i}, T>> \in StrictSubsetOrdering(Ids)
      BY DEF StrictSubsetOrdering
    <3> QED BY <2>1, <3>1
  <2>6. IsFiniteSet({i} \X (1..s.rows[i].weight))
    <3>1. 1 \in Int /\ s.rows[i].weight \in Int
      BY <2>4
    <3> QED BY <3>1, FS_Interval, FS_Singleton, FS_Product
  <2>7. Units(s, T) = Units(s, T \ {i}) \cup ({i} \X (1..s.rows[i].weight))
    BY DEF Units
  <2>8. IsFiniteSet(Units(s, T \ {i}) \cup ({i} \X (1..s.rows[i].weight)))
    BY <2>5, <2>6, FS_Union
  <2>9. ~IsFiniteSet(Units(s, T))
    BY <2>1
  <2> HIDE DEF Bad
  <2> QED BY <2>7, <2>8, <2>9
<1> QED BY <1>3

\* Fewer rows take less.
LEMMA FewerBytes ==
  ASSUME NEW s, \A i \in Ids : s.rows[i].weight \in Nat, NEW u, NEW B, B \subseteq Ids, NEW A, A \subseteq B,
         \A i \in A : u.rows[i].weight = s.rows[i].weight
  PROVE  /\ Cardinality(A) \in Nat /\ Cardinality(B) \in Nat /\ Cardinality(A) <= Cardinality(B)
         /\ Bytes(u, A) \in Nat /\ Bytes(s, B) \in Nat /\ Bytes(u, A) <= Bytes(s, B)
<1>0. IsFiniteSet(B)
  <2>1. 1 \in Int /\ MaxIds \in Int
    BY HistoryConstants
  <2> QED BY <2>1, FS_Interval, FS_Subset DEF Ids
<1>1. Cardinality(A) \in Nat /\ Cardinality(B) \in Nat /\ Cardinality(A) <= Cardinality(B)
  BY <1>0, FS_Subset, FS_CardinalityType
<1>2. Units(u, A) \subseteq Units(s, B)
  BY DEF Units
<1>3. IsFiniteSet(Units(s, B))
  BY UnitsFinite
<1>4. Cardinality(Units(u, A)) \in Nat /\ Cardinality(Units(s, B)) \in Nat /\ Cardinality(Units(u, A)) <= Cardinality(Units(s, B))
  BY <1>2, <1>3, FS_Subset, FS_CardinalityType
<1> QED BY <1>1, <1>4 DEF Bytes, Units

\* What rows take.
LEMMA WeightsAre == ASSUME StoreTyped, NEW i \in Ids PROVE store.rows[i].weight \in Nat
<1>1. store.rows[i].weight \in Weights \cup {0}
  BY DEF StoreTyped, RowRec
<1>2. \A k \in Weights : k \in Nat
  BY HistoryConstants
<1> QED BY <1>1, <1>2

\* Where rows only go, or are edited, the caps stay kept.
LEMMA CapsFewer ==
  ASSUME HistoryTypeOK, CapsKept, torn = {}, limit' = limit, StoreTyped', Kept(store') \subseteq Kept(store),
         Untouched(store') \subseteq Untouched(store),
         \A i \in Untouched(store') : store'.rows[i].weight = store.rows[i].weight
  PROVE  CapsKept'
<1> DEFINE u == store'
<1>1. \A i \in Ids : store.rows[i].weight \in Nat
  BY WeightsAre, TypesAre
<1>2. limit.count \in Nat /\ limit.bytes \in Nat
  BY TypesAre, HistoryConstants
<1>3. Kept(store) \subseteq Ids /\ Untouched(store) \subseteq Ids
  BY DEF Kept, Untouched
<1>4. Cardinality(Kept(store)) <= limit.count /\ Bytes(store, Untouched(store)) <= limit.bytes
  BY DEF CapsKept
<1> HIDE DEF u
<1>5. Kept(u) \subseteq Kept(store) /\ Untouched(u) \subseteq Untouched(store) /\ \A i \in Untouched(u) : u.rows[i].weight = store.rows[i].weight
  BY DEF u
<1>6. Cardinality(Kept(u)) \in Nat /\ Cardinality(Kept(store)) \in Nat /\ Cardinality(Kept(u)) <= Cardinality(Kept(store))
  <2>1. \A i \in {} : store.rows[i].weight = store.rows[i].weight
    OBVIOUS
  <2> QED BY <1>1, <1>3, <1>5, RowsFinite, FS_Subset, FS_CardinalityType
<1>7. Bytes(u, Untouched(u)) \in Nat /\ Bytes(store, Untouched(store)) \in Nat /\ Bytes(u, Untouched(u)) <= Bytes(store, Untouched(store))
  BY <1>1, <1>3, <1>5, FewerBytes
<1>8. Cardinality(Kept(u)) <= limit.count /\ Bytes(u, Untouched(u)) <= limit.bytes
  BY <1>2, <1>4, <1>6, <1>7
<1> QED BY <1>8 DEF CapsKept, u

\* A command that saves nothing and is not cut short leaves rows that were there.
LEMMA Survivors ==
  ASSUME HistoryTypeOK, Stocked, NEW m, NEW steps, NEW k, Handles(m, steps, k), m.do # "save", torn' = {}
  PROVE  /\ Kept(store') \subseteq Kept(store) /\ Untouched(store') \subseteq Untouched(store)
         /\ \A i \in Untouched(store') : store'.rows[i].weight = store.rows[i].weight
         /\ \A i \in Kept(store') : store'.rows[i].time = store.rows[i].time
<1>1. ASSUME NEW i \in Kept(store')
      PROVE  /\ i \in Kept(store) /\ store'.rows[i].time = store.rows[i].time
             /\ store'.rows[i].of = 0 => store.rows[i].of = 0 /\ store'.rows[i].weight = store.rows[i].weight
  <2>0. i \in Ids \ torn' /\ store'.rows[i] # NoRow /\ store.rows[i] \in RowRec
    BY TypesAre DEF Kept, StoreTyped
  <2>1. CASE SameAt(i)
    <3>1. store'.rows[i] = store.rows[i]
      BY <2>1 DEF SameAt, Tables
    <3> QED BY <2>0, <3>1 DEF Kept
  <2>2. CASE m.do \in Update /\ i = m.id /\ EditedAt(m)
    <3>1. /\ i \in Kept(store) /\ store'.rows[i] = EditOf(m)
          /\ m.do = "content" => m.content # 0
      BY <1>1, <2>2 DEF EditedAt, Handles, SentFor
    <3>2. /\ EditOf(m).time = store.rows[i].time
          /\ m.do = "content" => EditOf(m).of = m.content
          /\ m.do # "content" => EditOf(m).of = store.rows[i].of /\ EditOf(m).weight = store.rows[i].weight
      BY <2>0, <2>2 DEF EditOf, RowRec
    <3> QED BY <3>1, <3>2
  <2>3. ~GoneAt(i)
    BY <2>0 DEF GoneAt
  <2> QED BY <1>1, <2>0, <2>1, <2>2, <2>3 DEF Handles, Outcome
<1> QED BY <1>1 DEF Untouched

\* A save leaves what fits, and of what was there then the newest.
LEMMA PrunedKeeps ==
  ASSUME HistoryTypeOK, NEW m \in Calls, m.time # 0, given + 1 \in Ids, NEW q, NEW n, Pruned(m, q, n), limit' = limit
  PROVE  /\ CapsKept'
         /\ \A i \in Kept(store') : i \in Kept(Inserted(m)) /\ store'.rows[i] = Inserted(m).rows[i]
         /\ \A i \in Kept(Inserted(m)) \ Kept(store'), r \in Kept(store') : Inserted(m).rows[i].time <= store'.rows[r].time
<1> DEFINE ins == Inserted(m)
           u == store'
<1>1. /\ q \in OldestFirst(ins) /\ q \in Listings(Kept(ins)) /\ n \in 0..Len(q) /\ Fits(ins, Rest(q, n))
      /\ \A i \in Ids : IF i \in Gone(q, n) THEN u.rows[i] = NoRow ELSE u.rows[i] = ins.rows[i]
  BY DEF Pruned, Enough, OldestFirst, GoneAt, Tables
<1>2. ASSUME NEW i \in Ids PROVE ins.rows[i].weight \in Nat
  <2>1. ins.rows[i] = IF i = given + 1 THEN RowOf(m) ELSE store.rows[i]
    BY InsertedIs DEF Tables
  <2>2. store.rows[i].weight \in Nat
    BY TypesAre, WeightsAre
  <2>3. RowOf(m).weight \in Nat
    <3>1. m.weight \in Weights \cup {0} /\ \A k \in Weights : k \in Nat
      BY HistoryConstants DEF Calls
    <3> QED BY <3>1 DEF RowOf
  <2> QED BY <2>1, <2>2, <2>3
<1>3. /\ Len(q) \in Nat /\ DOMAIN q = 1..Len(q)
      /\ \A i \in Kept(ins) : \E j \in 1..Len(q) : q[j] = i
      /\ \A j \in 1..Len(q) : q[j] \in Kept(ins)
  BY <1>1, ListsRows
<1>4. \A j, l \in 1..Len(q) : j < l => ins.rows[q[j]].time <= ins.rows[q[l]].time
  BY <1>1, <1>3 DEF OldestFirst
<1>5. limit.count \in Nat /\ limit.bytes \in Nat /\ Kept(u) \subseteq Ids /\ Kept(ins) \subseteq Ids
  BY TypesAre, HistoryConstants DEF Kept
<1>6. \A i \in Kept(u) : i \in Ids /\ u.rows[i] # NoRow
  BY DEF Kept
<1>7. \A i \in Ids : ins.rows[i] # NoRow => i \in Kept(ins)
  BY DEF Kept
<1>8. \A i \in Ids : u.rows[i] # NoRow => i \in Kept(u)
  BY DEF Kept
<1>9. \A i \in Kept(ins) : ins.rows[i] # NoRow
  BY DEF Kept
<1> HIDE DEF ins, u
<1>10. ASSUME NEW i \in Kept(u) PROVE i \in Kept(ins) /\ u.rows[i] = ins.rows[i] /\ \E l \in n + 1..Len(q) : q[l] = i
  <2>1. i \notin Gone(q, n) /\ u.rows[i] = ins.rows[i] /\ i \in Kept(ins)
    BY <1>1, <1>6, <1>7
  <2>2. PICK l \in 1..Len(q) : q[l] = i
    BY <1>3, <2>1
  <2>3. l \notin 1..n
    BY <2>1, <2>2 DEF Gone
  <2>4. l \in n + 1..Len(q)
    BY <1>1, <1>3, <2>3
  <2> QED BY <2>1, <2>2, <2>4
<1>11. Kept(u) \subseteq Rest(q, n) /\ Rest(q, n) \subseteq Ids
  <2>1. Kept(u) \subseteq Rest(q, n)
    BY <1>10 DEF Rest
  <2>2. \A l \in n + 1..Len(q) : l \in 1..Len(q)
    BY <1>1, <1>3
  <2>3. Rest(q, n) \subseteq Kept(ins)
    BY <1>3, <2>2 DEF Rest
  <2> QED BY <1>5, <2>1, <2>3
<1>12. Cardinality(Rest(q, n)) <= limit.count /\ Bytes(ins, Rest(q, n)) <= limit.bytes
  BY <1>1 DEF Fits
<1>13. Cardinality(Kept(u)) \in Nat /\ Cardinality(Rest(q, n)) \in Nat /\ Cardinality(Kept(u)) <= Cardinality(Rest(q, n))
  <2>1. \A i \in Kept(u) : u.rows[i].weight = ins.rows[i].weight
    BY <1>10
  <2> QED BY <1>2, <1>11, <2>1, FewerBytes
<1>14. /\ Bytes(u, Untouched(u)) \in Nat /\ Bytes(ins, Rest(q, n)) \in Nat
       /\ Bytes(u, Untouched(u)) <= Bytes(ins, Rest(q, n))
  <2>1. Untouched(u) \subseteq Kept(u)
    BY DEF Untouched
  <2>2. Untouched(u) \subseteq Rest(q, n) /\ \A i \in Untouched(u) : u.rows[i].weight = ins.rows[i].weight
    BY <1>10, <1>11, <2>1
  <2> QED BY <1>2, <1>11, <2>2, FewerBytes
<1>15. Cardinality(Kept(u)) <= limit.count /\ Bytes(u, Untouched(u)) <= limit.bytes
  BY <1>5, <1>12, <1>13, <1>14
<1>16. ASSUME NEW i \in Kept(ins) \ Kept(u), NEW r \in Kept(u) PROVE ins.rows[i].time <= u.rows[r].time
  <2>1. i \in Gone(q, n)
    BY <1>1, <1>5, <1>8, <1>9
  <2>2. PICK j \in 1..n : q[j] = i
    BY <2>1 DEF Gone
  <2>3. PICK l \in n + 1..Len(q) : q[l] = r
    BY <1>10
  <2>4. j \in 1..Len(q) /\ l \in 1..Len(q) /\ j < l
    BY <1>1, <1>3
  <2>5. ins.rows[q[j]].time <= ins.rows[q[l]].time
    BY <1>4, <2>4
  <2> QED BY <1>10, <2>2, <2>3, <2>5
<1>17. CapsKept'
  BY <1>15 DEF CapsKept, u
<1> QED BY <1>10, <1>16, <1>17 DEF ins, u

\* What is torn stays torn.
LEMMA TornStays == ASSUME HistoryTypeOK, Papers, HistoryMove, torn' = {} PROVE torn = {}
<1>1. CASE UNCHANGED torn
  BY <1>1
<1>2. CASE \E steps : \E k \in 0..Len(steps) : Handles(Head(calls), steps, k)
  BY <1>2 DEF Handles, Outcome
<1>3. CASE Asides
  BY <1>1, <1>3, AsidesLeave
<1>4. CASE SaveCapture \/ RemoveCaptures
  BY <1>2, <1>4, SaveHandles, RemoveHandles
<1>5. CASE UpdateCapture
  <2>1. PICK k \in 0..Len(Updates(Head(calls))) : Handles(Head(calls), Updates(Head(calls)), k)
    BY <1>5, UpdateHandles
  <2> QED BY <1>2, <2>1
<1>6. CASE Stops
  BY <1>1, <1>2, <1>6, StopHandles
<1> QED BY <1>3, <1>4, <1>5, <1>6 DEF HistoryMove, Asides

\* What a step that leaves nothing torn does to the tables: nothing, a command that saves
\* nothing, or a whole save.
LEMMA WholeSteps ==
  ASSUME HistoryTypeOK, Papers, HistoryMove, torn' = {}
  PROVE  \/ Asides
         \/ Stops /\ UNCHANGED store
         \/ /\ UpdateCapture \/ RemoveCaptures \/ Stops
            /\ \E steps : \E k \in 0..Len(steps) : Handles(Head(calls), steps, k) /\ Head(calls).do # "save"
         \/ /\ SaveCapture \/ Stops
            /\ Head(calls) \in Calls /\ Head(calls).time # 0 /\ given + 1 \in Ids
            /\ \E q, n : Pruned(Head(calls), q, n)
<1> DEFINE m == Head(calls)
<1>1. ASSUME NEW steps, NEW k \in 0..Len(steps), Handles(m, steps, k), m.do = "save"
      PROVE  m \in Calls /\ m.time # 0 /\ \E q, n : Pruned(m, q, n)
  <2>1. m \in Calls /\ m.time # 0
    BY <1>1 DEF Handles, SentFor, Saving
  <2>2. given + 1 \notin torn'
    OBVIOUS
  <2>3. k = Len(steps)
    BY <1>1, <2>2 DEF Handles, Outcome
  <2> QED BY <1>1, <2>1, <2>3 DEF Handles
<1>2. CASE SaveCapture
  <2>1. PICK steps : \E k \in 0..Len(steps) : Handles(m, steps, k) /\ m.do = "save" /\ given + 1 \in Ids
    BY <1>2, SaveHandles
  <2> QED BY <1>1, <1>2, <2>1
<1>3. CASE UpdateCapture
  <2>1. PICK k \in 0..Len(Updates(m)) : Handles(m, Updates(m), k) /\ m.do \in Update
    BY <1>3, UpdateHandles
  <2>2. m.do # "save"
    BY <2>1 DEF Update
  <2> QED BY <1>3, <2>1, <2>2
<1>4. CASE RemoveCaptures
  <2>1. PICK steps : \E k \in 0..Len(steps) : Handles(m, steps, k) /\ m.do \in {"delete", "clear"}
    BY <1>4, RemoveHandles
  <2> QED BY <1>4, <2>1
<1>5. CASE Stops
  BY <1>1, <1>5, StopHandles
<1> QED BY <1>2, <1>3, <1>4, <1>5 DEF HistoryMove, Asides

\* Every step leaves the caps kept, ...
LEMMA CapsStep == ASSUME HistoryTypeOK, Stocked, Papers, CapsKept, HistoryMove PROVE CapsKept'
<1>0. CASE torn' # {}
  BY <1>0 DEF CapsKept
<1> SUFFICES ASSUME torn' = {} PROVE CapsKept'
  BY <1>0
<1>1. torn = {} /\ limit' = limit /\ StoreTyped'
  BY TornStays, Grows
<1>2. CASE UNCHANGED store
  BY <1>1, <1>2 DEF CapsKept, Kept, Untouched, Bytes
<1>3. CASE Asides
  BY <1>2, <1>3, AsidesLeave
<1>4. CASE \E steps : \E k \in 0..Len(steps) : Handles(Head(calls), steps, k) /\ Head(calls).do # "save"
  <2>1. /\ Kept(store') \subseteq Kept(store) /\ Untouched(store') \subseteq Untouched(store)
        /\ \A i \in Untouched(store') : store'.rows[i].weight = store.rows[i].weight
    BY <1>4, Survivors
  <2> QED BY <1>1, <2>1, CapsFewer
<1>5. CASE /\ Head(calls) \in Calls /\ Head(calls).time # 0 /\ given + 1 \in Ids
           /\ \E q, n : Pruned(Head(calls), q, n)
  BY <1>1, <1>5, PrunedKeeps
<1> QED BY <1>2, <1>3, <1>4, <1>5, WholeSteps

\* ... and the newest rows where older ones were evicted.
LEMMA OldestStep == ASSUME HistoryTypeOK, Stocked, Papers, OldestGone, HistoryMove PROVE OldestGone'
<1> SUFFICES ASSUME torn' = {}, evicted' # {}
             PROVE  \E i \in Kept(store') : \A t \in evicted' : store'.rows[i].time >= t
  BY DEF OldestGone
<1>1. torn = {}
  BY TornStays
<1>t. \A t \in Times \cup {0} : t \in Nat
  <2>1. \A t \in Times : t \in Nat
    BY HistoryConstants
  <2> QED BY <2>1
<1>2. ~Stops /\ ~RemoveCaptures
  BY DEF Stops, RemoveCaptures
<1>3. CASE Asides
  BY <1>1, <1>3, AsidesLeave DEF OldestGone, Kept
<1>4. CASE UpdateCapture
  <2>1. PICK k \in 0..Len(Updates(Head(calls))) : Handles(Head(calls), Updates(Head(calls)), k) /\ Amended(Head(calls), k) /\ Head(calls).do \in Update
    BY <1>4, UpdateHandles
  <2>2. evicted' = evicted
    BY <1>4 DEF UpdateCapture
  <2>3. PICK i \in Kept(store) : \A t \in evicted : store.rows[i].time >= t
    BY <1>1, <2>2 DEF OldestGone
  <2>4. i \in Ids /\ store.rows[i] \in RowRec /\ store.rows[i].time # 0
    BY TypesAre DEF Kept, StoreTyped, Stocked
  <2>5. store'.rows[i].time = store.rows[i].time
    <3> DEFINE m == Head(calls)
    <3>1. store'.rows[i] = store.rows[i] \/ (i = m.id /\ store'.rows[i] = EditOf(m))
      BY <2>1, <2>4 DEF Amended
    <3> HIDE DEF m
    <3>2. i = m.id => EditOf(m).time = store.rows[i].time
      BY <2>4 DEF EditOf, RowRec
    <3> QED BY <3>1, <3>2
  <2>6. i \in Kept(store')
    BY <2>4, <2>5 DEF Kept, NoRow
  <2> QED BY <2>2, <2>3, <2>5, <2>6
<1>5. CASE /\ SaveCapture
           /\ Head(calls) \in Calls /\ Head(calls).time # 0 /\ given + 1 \in Ids
           /\ \E q, n : Pruned(Head(calls), q, n)
  <2> DEFINE m == Head(calls)
             ins == Inserted(m)
             lost == Kept(ins) \ Kept(store')
  <2>1. PICK q, n : Pruned(m, q, n)
    BY <1>5
  <2>2. /\ \A i \in Kept(store') : i \in Kept(ins) /\ store'.rows[i] = ins.rows[i]
        /\ \A i \in lost, r \in Kept(store') : ins.rows[i].time <= store'.rows[r].time
    <3>1. limit' = limit
      BY <1>5 DEF SaveCapture
    <3> QED BY <1>5, <2>1, <3>1, PrunedKeeps
  <2>3. evicted' = IF Kept(store') = {} THEN {} ELSE evicted \cup {ins.rows[i].time : i \in Kept(ins) \ Kept(store')}
    BY <1>5 DEF SaveCapture
  <2>4. PICK r \in Kept(store') : TRUE
    BY <2>3
  <2>5. evicted' = evicted \cup {ins.rows[i].time : i \in lost}
    BY <2>3, <2>4
  <2>6. \A i \in Kept(store) : i \in Kept(ins) /\ ins.rows[i] = store.rows[i] /\ store.rows[i].time \in Nat
    <3> SUFFICES ASSUME NEW i \in Kept(store) PROVE i \in Kept(ins) /\ ins.rows[i] = store.rows[i] /\ store.rows[i].time \in Nat
      OBVIOUS
    <3>1. i \in Ids /\ i \in 1..given /\ given \in Nat
      BY TypesAre, HistoryConstants DEF Kept, Stocked
    <3>2. i # given + 1
      BY <3>1
    <3>3. ins.rows[i] = store.rows[i] /\ i \in Kept(ins)
      BY <1>5, <3>1, <3>2, InsertedIs DEF Tables
    <3>4. store.rows[i].time \in Times \cup {0}
      BY <3>1, TypesAre DEF StoreTyped, RowRec
    <3> QED BY <1>t, <3>3, <3>4
  <2>7. \A i \in Kept(store') : store'.rows[i].time \in Nat
    <3> SUFFICES ASSUME NEW i \in Kept(store') PROVE store'.rows[i].time \in Nat
      OBVIOUS
    <3>1. store'.rows[i] \in RowRec
      BY Grows DEF StoreTyped, Kept
    <3>2. store'.rows[i].time \in Times \cup {0}
      BY <3>1 DEF RowRec
    <3> QED BY <1>t, <3>2
  <2>8. evicted \subseteq Nat
    BY TypesAre, HistoryConstants
  <2> HIDE DEF ins
  <2>9. CASE evicted = {}
    BY <2>2, <2>4, <2>5, <2>9
  <2>10. CASE evicted # {}
    <3>1. PICK i \in Kept(store) : \A t \in evicted : store.rows[i].time >= t
      BY <1>1, <2>10 DEF OldestGone
    <3>2. ins.rows[i].time = store.rows[i].time /\ i \in Kept(ins) /\ store.rows[i].time \in Nat
      BY <2>6
    <3>3. CASE i \in Kept(store')
      <4>1. store'.rows[i].time = store.rows[i].time
        BY <2>2, <3>2, <3>3
      <4> QED BY <2>2, <2>5, <3>1, <3>3, <4>1
    <3>4. CASE i \notin Kept(store')
      <4>1. ins.rows[i].time <= store'.rows[r].time
        BY <2>2, <2>4, <3>2, <3>4
      <4>2. \A t \in evicted : t \in Nat /\ t <= store'.rows[r].time
        <5> SUFFICES ASSUME NEW t \in evicted PROVE t \in Nat /\ t <= store'.rows[r].time
          OBVIOUS
        <5>1. t \in Nat /\ store.rows[i].time >= t /\ store'.rows[r].time \in Nat
          BY <2>7, <2>8, <3>1
        <5> QED BY <3>2, <4>1, <5>1
      <4>3. \A t \in evicted' : store'.rows[r].time >= t
        BY <2>2, <2>5, <2>7, <4>2
      <4> QED BY <4>3
    <3> QED BY <3>3, <3>4
  <2> QED BY <2>9, <2>10
<1> QED BY <1>2, <1>3, <1>4, <1>5, WholeSteps

-----------------------------------------------------------------------------
\* Captures go by their revisions

\* A row that is there after a step was before, or is of the capture whose save is handled.
LEMMA KeptTimes ==
  ASSUME HistoryTypeOK, Papers, HistoryMove, NEW i \in Kept(store')
  PROVE  \/ i \in Kept(store) /\ store'.rows[i].time = store.rows[i].time
         \/ calls # << >> /\ Saving(Head(calls)) /\ store'.rows[i].time = Head(calls).time
<1>0. i \in Ids /\ store'.rows[i] # NoRow
  BY DEF Kept
<1>1. CASE UNCHANGED store
  BY <1>1 DEF Kept
<1>2. CASE Asides
  BY <1>1, <1>2, AsidesLeave
<1>3. ASSUME NEW m, NEW steps, NEW k, Handles(m, steps, k)
      PROVE  \/ i \in Kept(store) /\ store'.rows[i].time = store.rows[i].time
             \/ Saving(m) /\ store'.rows[i].time = m.time
  <2>1. PartRow(m, i) /\ store.rows[i] \in RowRec
    BY <1>0, <1>3, TypesAre DEF Handles, Outcome, StoreTyped
  <2>2. CASE store'.rows[i] \in {store.rows[i], NoRow}
    BY <1>0, <2>2 DEF Kept
  <2>3. CASE m.do = "save" /\ store'.rows[i] = RowOf(m)
    BY <2>3 DEF RowOf, Saving
  <2>4. CASE i = m.id /\ i \in Kept(store) /\ store'.rows[i] = EditOf(m)
    BY <2>1, <2>4 DEF EditOf, RowRec
  <2> QED BY <2>1, <2>2, <2>3, <2>4 DEF PartRow
<1>4. ASSUME \E steps : \E k \in 0..Len(steps) : Handles(Head(calls), steps, k)
      PROVE  \/ i \in Kept(store) /\ store'.rows[i].time = store.rows[i].time
             \/ calls # << >> /\ Saving(Head(calls)) /\ store'.rows[i].time = Head(calls).time
  <2>1. PICK steps : \E k \in 0..Len(steps) : Handles(Head(calls), steps, k)
    BY <1>4
  <2>2. PICK k \in 0..Len(steps) : Handles(Head(calls), steps, k)
    BY <2>1
  <2>3. calls # << >>
    BY <2>2 DEF Handles
  <2> QED BY <1>3, <2>2, <2>3
<1>5. CASE SaveCapture \/ RemoveCaptures
  BY <1>4, <1>5, SaveHandles, RemoveHandles
<1>6. CASE UpdateCapture
  <2>1. PICK k \in 0..Len(Updates(Head(calls))) : Handles(Head(calls), Updates(Head(calls)), k)
    BY <1>6, UpdateHandles
  <2> QED BY <1>4, <2>1
<1>7. CASE Stops
  BY <1>1, <1>4, <1>7, StopHandles
<1> QED BY <1>2, <1>5, <1>6, <1>7 DEF HistoryMove, Asides

\* What is in the history, or on its way there, was captured before now.
LEMMA Earlier ==
  ASSUME HistoryTypeOK, Stocked, Papers, Typed, Apart, HistoryMove \/ UNCHANGED histVars
  PROVE  /\ \A e \in OnWay' : Saving(e) => e.time < revision
         /\ \A i \in Kept(store') : store'.rows[i].time < revision
<1>1. CASE UNCHANGED histVars
  <2>1. store' = store /\ OnWay' = OnWay
    BY <1>1 DEF histVars, OnWay
  <2> QED BY <2>1 DEF Apart
<1>2. CASE HistoryMove
  <2>1. ASSUME NEW e \in OnWay', Saving(e) PROVE e.time < revision
    <3>1. CASE e \in OnWay
      BY <2>1, <3>1 DEF Apart
    <3>2. ASSUME NEW w \in Windows, Saved(w, e) PROVE e.time < revision
      <4>1. e.time = page[w].token
        BY <3>2 DEF Saved, StartSave, Message, Apart
      <4>2. page[w].token \in 0..revision - 1 /\ revision \in Nat
        BY DEF Typed, PageRec, Before
      <4> QED BY <4>1, <4>2
    <3> QED BY <1>2, <2>1, <3>1, <3>2, SavesMove
  <2>2. ASSUME NEW i \in Kept(store') PROVE store'.rows[i].time < revision
    <3>1. calls # << >> => Head(calls) \in OnWay
      BY Hearing
    <3> QED BY <1>2, <3>1, KeptTimes DEF Apart
  <2> QED BY <2>1, <2>2
<1> QED BY <1>1, <1>2

\* A capture that a task is taking, or that a page loads, is not saved by a step.
LEMMA UnusedStill ==
  ASSUME HistoryTypeOK, Stocked, Papers, Apart, HistoryMove \/ UNCHANGED histVars, NEW t, Unused(t),
         \A w \in Windows : doc[w].open => doc[w].time # t
  PROVE  Unused(t)'
<1>1. CASE UNCHANGED histVars
  BY <1>1 DEF histVars, Unused, Whole, OnWay, Kept
<1>2. CASE HistoryMove
  BY <1>2, UnusedStays DEF StartSave
<1> QED BY <1>1, <1>2

\* And it stays so while revisions only grow.
LEMMA EarlierStill ==
  ASSUME HistoryTypeOK, Stocked, Papers, Typed, Apart, HistoryMove \/ UNCHANGED histVars, HistoryTypeOK',
         revision <= revision', revision' \in Nat
  PROVE  /\ \A e \in OnWay' : Saving(e) => e.time < revision'
         /\ \A i \in Kept(store') : store'.rows[i].time < revision'
<1>0. revision \in Nat /\ revision' \in Nat /\ revision <= revision'
  BY DEF Typed
<1>t. \A t \in Times \cup {0} : t \in Nat
  <2>1. \A t \in Times : t \in Nat
    BY HistoryConstants
  <2> QED BY <2>1
<1>1. ASSUME NEW e \in OnWay', Saving(e) PROVE e.time < revision'
  <2>1. e.time < revision
    BY <1>1, Earlier
  <2>2. e \in Calls
    <3>1. encoding' \subseteq Calls /\ calls' \in Seq(Calls)
      BY DEF HistoryTypeOK
    <3> QED BY <3>1 DEF OnWay
  <2>3. e.time \in Nat
    BY <1>t, <2>2 DEF Calls
  <2> QED BY <1>0, <2>1, <2>3
<1>2. ASSUME NEW i \in Kept(store') PROVE store'.rows[i].time < revision'
  <2>1. store'.rows[i].time < revision
    BY Earlier
  <2>2. store'.rows[i] \in RowRec
    BY DEF HistoryTypeOK, RowRec, Kept
  <2>3. store'.rows[i].time \in Nat
    BY <1>t, <2>2 DEF RowRec
  <2> QED BY <1>0, <2>1, <2>3
<1> QED BY <1>1, <1>2

\* Where tasks and pages only go on or go away, captures stay apart.
Milder ==
  /\ revision <= revision' /\ revision' \in Nat
  /\ Lives' \subseteq Lives /\ \A r \in Lives' : runs'[r] = runs[r]
  /\ \A w \in Windows :
       \/ page'[w] = page[w] \/ page'[w] = NoPage
       \/ page'[w].token = page[w].token /\ page'[w].at \in {"working", "done"} /\ page[w].at # "none"
  /\ \A w \in Windows : doc'[w].open => page'[w].at \in {"working", "done"} /\ page'[w].token = doc'[w].time

\* Such a step keeps them apart.
LEMMA ApartMilder ==
  ASSUME HistoryTypeOK, Stocked, Papers, Typed, Apart, HistoryMove \/ UNCHANGED histVars, HistoryTypeOK', Milder PROVE Apart'
<1>1. ASSUME NEW r \in Lives'
      PROVE  r \in Lives /\ runs'[r] = runs[r] /\ Unused(runs[r].token)'
  <2>1. r \in Lives /\ runs'[r] = runs[r]
    BY <1>1 DEF Milder
  <2>2. PICK t : t = runs[r].token
    OBVIOUS
  <2>3. Unused(t) /\ \A w \in Windows : doc[w].open => doc[w].time # t
    <3>1. Unused(t)
      BY <2>1, <2>2 DEF Apart
    <3>2. ASSUME NEW w \in Windows, doc[w].open PROVE doc[w].time # t
      <4>1. page[w].at # "none" /\ page[w].token = doc[w].time
        BY <3>2 DEF Apart
      <4> QED BY <2>1, <2>2, <4>1 DEF Apart
    <3> QED BY <3>1, <3>2
  <2>4. Unused(t)'
    BY <2>3, UnusedStill
  <2> QED BY <2>1, <2>2, <2>4 DEF Unused
<1>2. ASSUME NEW w \in Windows, page'[w].at = "loading" PROVE Unused(page[w].token)'
  <2>1. page'[w] = page[w] /\ page[w].at = "loading"
    BY <1>2 DEF Milder, NoPage
  <2>2. PICK t : t = page[w].token
    OBVIOUS
  <2>3. Unused(t) /\ \A v \in Windows : doc[v].open => doc[v].time # t
    <3>1. Unused(t)
      BY <2>1, <2>2 DEF Apart
    <3>2. ASSUME NEW v \in Windows, doc[v].open PROVE doc[v].time # t
      <4>1. page[v].at \in {"working", "done"} /\ page[v].token = doc[v].time
        BY <3>2 DEF Apart
      <4>2. v # w
        BY <2>1, <4>1
      <4> QED BY <2>1, <2>2, <4>1, <4>2 DEF Apart
    <3> QED BY <3>1, <3>2
  <2>4. Unused(t)'
    BY <2>3, UnusedStill
  <2> QED BY <2>1, <2>2, <2>4 DEF Unused
<1>3. \A w \in Windows : page'[w].at = "none" => page'[w].token = 0
  BY DEF Milder, Apart, NoPage, Nobody
<1>4. ASSUME NEW w \in Windows, page'[w].at # "none"
      PROVE  /\ page'[w].token # 0
             /\ \A v \in Windows \ {w} : page'[v].token # page'[w].token
             /\ \A r \in Lives' : runs'[r].token # page'[w].token
  <2>1. page[w].at # "none" /\ page'[w].token = page[w].token
    BY <1>4 DEF Milder, NoPage
  <2>2. page[w].token # 0
    BY <2>1 DEF Apart
  <2>3. ASSUME NEW v \in Windows \ {w} PROVE page'[v].token # page'[w].token
    <3>1. page'[v].token \in {page[v].token, 0}
      BY DEF Milder, NoPage, Nobody
    <3> QED BY <2>1, <2>2, <3>1 DEF Apart
  <2>4. ASSUME NEW r \in Lives' PROVE runs'[r].token # page'[w].token
    BY <1>1, <2>1 DEF Apart
  <2> QED BY <2>1, <2>2, <2>3, <2>4
<1>5. /\ \A e \in OnWay' : Saving(e) => e.time < revision'
      /\ \A i \in Kept(store') : store'.rows[i].time < revision'
  BY EarlierStill DEF Milder
<1>6. \A q, r \in Lives' : q = r
  BY DEF Milder, Apart
<1>7. \A r \in Lives' : runs'[r].at = "shooting" /\ runs'[r].token # 0 /\ Unused(runs[r].token)'
  <2> SUFFICES ASSUME NEW r \in Lives' PROVE runs'[r].at = "shooting" /\ runs'[r].token # 0 /\ Unused(runs[r].token)'
    OBVIOUS
  <2>1. r \in Lives /\ runs'[r] = runs[r] /\ Unused(runs[r].token)'
    BY <1>1
  <2> QED BY <2>1 DEF Apart
<1>8. \A w \in Windows : doc'[w].open => page'[w].at \in {"working", "done"} /\ page'[w].token = doc'[w].time
  BY DEF Milder
<1>9. \A w \in Windows : page'[w].at # "none" =>
        /\ page'[w].token # 0
        /\ page'[w].at = "loading" => Unused(page[w].token)'
        /\ \A v \in Windows \ {w} : page'[v].token # page'[w].token
        /\ \A r \in Lives' : runs'[r].token # page'[w].token
  BY <1>2, <1>4
<1>10. (\A w \in Windows : page[w].at # "none" =>
          /\ page[w].token # 0
          /\ page[w].at = "loading" => Unused(page[w].token)
          /\ \A v \in Windows \ {w} : page[v].token # page[w].token
          /\ \A r \in Lives : runs[r].token # page[w].token)'
  BY <1>9
<1>11. (\A r \in Lives : runs[r].at = "shooting" /\ runs[r].token # 0 /\ Unused(runs[r].token))'
  BY <1>7
<1> QED BY <1>3, <1>5, <1>6, <1>8, <1>10, <1>11 DEF Apart

\* Only a page that loads gets a capture to show.
LEMMA OnlyLoads ==
  ASSUME HistoryTypeOK, Duty \/ Handle \/ CloseEditor \/ UserStep, NEW w \in Windows, doc'[w].open PROVE doc[w].open
<1>0. doc \in [Pages -> DocRec] /\ w \in Pages /\ w # "view"
  BY TypesAre DEF Windows, Pages
<1>1. ASSUME NEW v \in Pages, StartSave(v) PROVE doc[w].open
  BY <1>0, <1>1 DEF StartSave
<1>2. ASSUME NEW v \in Pages, NEW what, Persist(v, what) PROVE doc[w].open
  BY <1>0, <1>2 DEF Persist
<1>3. ASSUME NEW v \in Pages, NEW what, Alter(v, what) PROVE doc[w].open
  <2>1. doc[v].open /\ \E k : doc' = [doc EXCEPT ![v].content = IF what = "content" THEN deeds' ELSE @, ![v].weight = k,
                                     ![v].note = IF what = "meta" THEN deeds' ELSE @, ![v].owes = @ \cup {what}]
    BY <1>3 DEF Alter
  <2>2. CASE v = w
    BY <2>1, <2>2
  <2>3. CASE v # w
    BY <1>0, <2>1, <2>3
  <2> QED BY <2>2, <2>3
<1>4. ASSUME NEW i \in Ids, OpenView(i) PROVE doc[w].open
  BY <1>0, <1>4 DEF OpenView
<1>5. ASSUME (\E e \in encoding : Send(e)) \/ (\E v \in Pages : Discard(v)) \/ (\E i \in Ids \cup {0} : Strike(i)) \/ RemoveCaptures
      PROVE  doc[w].open
  BY <1>5 DEF Send, Discard, Strike, RemoveCaptures
<1>6. ASSUME CloseEditor PROVE doc[w].open
  BY <1>0, <1>6 DEF CloseEditor, Vanish, NoDoc
<1>7. ASSUME SaveCapture PROVE doc[w].open
  <2> DEFINE m == Head(calls)
  <2>1. \/ doc' = doc
        \/ Waits(m) /\ doc' = [doc EXCEPT ![m.page].saver = "failed"]
        \/ Waits(m) /\ doc' = [doc EXCEPT ![m.page].saver = "saved", ![m.page].id = given + 1, ![m.page].told = m.stamp]
    BY <1>7 DEF SaveCapture
  <2> HIDE DEF m
  <2>2. CASE w # m.page
    BY <1>0, <2>1, <2>2
  <2>3. CASE w = m.page
    BY <2>1, <2>3 DEF Waits
  <2> QED BY <2>2, <2>3
<1>8. ASSUME UpdateCapture PROVE doc[w].open
  <2> DEFINE m == Head(calls)
  <2>1. doc' = doc \/ (Waits(m) /\ doc' = [doc EXCEPT ![m.page].told = Larger(@, m.stamp)])
    BY <1>8 DEF UpdateCapture
  <2> HIDE DEF m
  <2>2. CASE w # m.page
    BY <1>0, <2>1, <2>2
  <2>3. CASE w = m.page
    BY <2>1, <2>3 DEF Waits
  <2> QED BY <2>2, <2>3
<1>9. CASE Duty
  BY <1>1, <1>2, <1>5, <1>9 DEF Duty
<1>10. CASE Handle
  BY <1>5, <1>7, <1>8, <1>10 DEF Handle
<1>11. CASE UserStep
  <2>1. "editor" \in Pages
    BY DEF Pages
  <2> QED BY <1>1, <1>3, <1>4, <1>5, <1>11, <2>1 DEF UserStep
<1> QED BY <1>6, <1>9, <1>10, <1>11

\* A page that shows a capture after such a step is the page of it.
LEMMA ShowsOwn ==
  ASSUME HistoryTypeOK, Papers, Apart, Duty \/ Handle \/ CloseEditor \/ UserStep, HistoryMove \/ UNCHANGED histVars,
         NEW w \in Windows, doc'[w].open
  PROVE  page[w].at \in {"working", "done"} /\ page[w].token = doc'[w].time
<1>1. doc[w].open /\ w \in Pages /\ w # "view"
  BY OnlyLoads DEF Windows, Pages
<1>2. page[w].at \in {"working", "done"} /\ page[w].token = doc[w].time
  BY <1>1 DEF Apart
<1>3. CASE UNCHANGED histVars
  BY <1>2, <1>3 DEF histVars
<1>4. CASE HistoryMove
  <2>1. ~\E k \in Weights : Comes(w, k)
    BY <1>2 DEF Comes, Arrives
  <2>2. ~\E i \in Ids : Views(w, i)
    BY <1>1 DEF Views
  <2> QED BY <1>1, <1>2, <1>4, <2>1, <2>2, DocKeeps
<1> QED BY <1>3, <1>4

\* The history at work, a user, and the end of the process leave captures apart.
LEMMA ApartByHistory ==
  ASSUME HistoryTypeOK, Stocked, Papers, Typed, Apart, HistoryMove \/ UNCHANGED histVars, HistoryTypeOK',
         HistoryStep \/ UserStep \/ CrashApp
  PROVE  Apart'
<1>0. revision \in Nat /\ page \in [Windows -> PageRec]
  BY DEF Typed
<1>1. ASSUME UNCHANGED vars, Duty \/ Handle \/ UserStep PROVE Milder
  <2>1. revision' = revision /\ runs' = runs /\ page' = page /\ Lives' = Lives
    BY <1>1 DEF vars, Lives
  <2> QED BY <1>0, <1>1, <2>1, ShowsOwn DEF Milder
<1>2. ASSUME CloseEditor, page' = [page EXCEPT !["editor"] = NoPage], UNCHANGED <<revision, runs>> PROVE Milder
  <2>1. Lives' = Lives /\ doc'["editor"] = NoDoc
    <3>1. doc \in [Pages -> DocRec] /\ "editor" \in Pages
      BY TypesAre DEF Pages
    <3> QED BY <1>2, <3>1 DEF Lives, CloseEditor, Vanish
  <2>2. \A w \in Windows : page'[w] = IF w = "editor" THEN NoPage ELSE page[w]
    BY <1>0, <1>2
  <2>3. ASSUME NEW w \in Windows, doc'[w].open PROVE page'[w].at \in {"working", "done"} /\ page'[w].token = doc'[w].time
    <3>1. w # "editor"
      BY <2>1, <2>3 DEF NoDoc
    <3> QED BY <1>2, <2>2, <2>3, <3>1, ShowsOwn
  <2> QED BY <1>0, <1>2, <2>1, <2>2, <2>3 DEF Milder
<1>3. ASSUME CrashApp PROVE Milder
  <2>1. Lives' = {}
    BY <1>3 DEF CrashApp, Lives, NoRun
  <2>2. \A w \in Windows : page'[w] = NoPage /\ doc'[w] = NoDoc
    BY <1>3 DEF CrashApp, Windows, Pages
  <2>3. revision' = revision
    BY <1>3 DEF CrashApp
  <2>4. \A w \in Windows : ~doc'[w].open
    BY <2>2 DEF NoDoc
  <2>5. Lives' \subseteq Lives /\ \A r \in Lives' : runs'[r] = runs[r]
    BY <2>1
  <2>6. revision <= revision' /\ revision' \in Nat
    BY <1>0, <2>3
  <2> QED BY <2>2, <2>4, <2>5, <2>6 DEF Milder
<1> QED BY <1>1, <1>2, <1>3, ApartMilder DEF HistoryStep, UserStep

\* So do the steps of pages, and what settles a capture.
LEMMA ApartByPages ==
  ASSUME HistoryTypeOK, Stocked, Papers, Typed, Apart, HistoryMove \/ UNCHANGED histVars, HistoryTypeOK',
         \/ UNCHANGED histVars /\ ((\E r \in Tokens : Expire(r)) \/ \E m \in reports : Settle(m))
         \/ \E w \in Windows : \/ /\ Load(w)
                                  /\ IF page'[w].at = "working" THEN \E k \in Weights : Appear(w, page[w].token, k)
                                                                ELSE UNCHANGED histVars
                               \/ Delivered(w)
                               \/ Close(w) /\ Reloaded(w)
  PROVE  Apart'
<1>0. revision \in Nat /\ page \in [Windows -> PageRec] /\ doc \in [Pages -> DocRec] /\ Windows \subseteq Pages
  BY TypesAre DEF Typed, Windows, Pages
<1>1. ASSUME UNCHANGED histVars, (\E r \in Tokens : Expire(r)) \/ \E m \in reports : Settle(m) PROVE Milder
  <2>1. UNCHANGED <<runs, page>> /\ Lives' = Lives /\ doc' = doc
    BY <1>1 DEF Expire, Settle, Lives, histVars
  <2>2. revision' = revision \/ revision' = revision + 1
    BY <1>1 DEF Expire, Settle, FinishDelivery, Show, Same
  <2>3. revision <= revision' /\ revision' \in Nat
    BY <1>0, <2>2
  <2> QED BY <2>1, <2>3 DEF Milder, Apart
<1>2. ASSUME NEW w \in Windows, Load(w),
             IF page'[w].at = "working" THEN \E k \in Weights : Appear(w, page[w].token, k) ELSE UNCHANGED histVars
      PROVE  Milder
  <2>1. UNCHANGED <<revision, runs>> /\ Lives' = Lives /\ page[w].at = "loading"
        /\ \E what \in {"working", "done"} : page' = [page EXCEPT ![w].at = what]
    BY <1>2 DEF Load, Lives
  <2>2. PICK what \in {"working", "done"} : page' = [page EXCEPT ![w].at = what]
    BY <2>1
  <2>3. page'[w].at = what /\ page'[w].token = page[w].token /\ \A v \in Windows \ {w} : page'[v] = page[v]
    BY <1>0, <2>2 DEF PageRec
  <2>4. ~doc[w].open
    BY <2>1 DEF Apart
  <2>5. ASSUME NEW v \in Windows, doc'[v].open PROVE page'[v].at \in {"working", "done"} /\ page'[v].token = doc'[v].time
    <3>1. CASE what = "working"
      <4>1. PICK k \in Weights : Appear(w, page[w].token, k)
        BY <1>2, <2>3, <3>1
      <4>2. CASE v = w
        <5>1. doc'[w].time = page[w].token
          BY <1>0, <4>1 DEF Appear, NoDoc
        <5> QED BY <2>3, <3>1, <4>2, <5>1
      <4>3. CASE v # w
        <5>1. doc'[v] = doc[v]
          BY <1>0, <4>1, <4>3 DEF Appear
        <5> QED BY <2>3, <2>5, <4>3, <5>1 DEF Apart
      <4> QED BY <4>2, <4>3
    <3>2. CASE what = "done"
      <4>1. doc' = doc
        BY <1>2, <2>3, <3>2 DEF histVars
      <4>2. v # w
        BY <2>4, <2>5, <4>1
      <4> QED BY <2>3, <2>5, <4>1, <4>2 DEF Apart
    <3> QED BY <3>1, <3>2
  <2>6. \A v \in Windows :
          \/ page'[v] = page[v]
          \/ page'[v].token = page[v].token /\ page'[v].at \in {"working", "done"} /\ page[v].at # "none"
    BY <2>1, <2>3
  <2> QED BY <1>0, <2>1, <2>5, <2>6 DEF Milder
<1>3. ASSUME NEW w \in Windows, Delivered(w) PROVE Milder
  <2>1. UNCHANGED <<revision, runs>> /\ Lives' = Lives /\ doc' = doc /\ page[w].at = "working" /\ page' = [page EXCEPT ![w].at = "done"]
    BY <1>3 DEF Delivered, Work, Lives, histVars
  <2>2. page'[w].at = "done" /\ page'[w].token = page[w].token /\ \A v \in Windows \ {w} : page'[v] = page[v]
    BY <1>0, <2>1 DEF PageRec
  <2>3. \A v \in Windows :
          \/ page'[v] = page[v]
          \/ page'[v].token = page[v].token /\ page'[v].at \in {"working", "done"} /\ page[v].at # "none"
    BY <2>1, <2>2
  <2>4. ASSUME NEW v \in Windows, doc'[v].open PROVE page'[v].at \in {"working", "done"} /\ page'[v].token = doc'[v].time
    <3>1. page[v].at \in {"working", "done"} /\ page[v].token = doc'[v].time
      BY <2>1, <2>4 DEF Apart
    <3> QED BY <2>2, <3>1
  <2> QED BY <1>0, <2>1, <2>3, <2>4 DEF Milder
<1>4. ASSUME NEW w \in Windows, Close(w), Reloaded(w) PROVE Milder
  <2>1. UNCHANGED <<revision, runs>> /\ Lives' = Lives /\ page[w].at # "none" /\ page' = [page EXCEPT ![w] = NoPage]
    BY <1>4 DEF Close, Lives
  <2>2. \A v \in Windows : page'[v] = IF v = w THEN NoPage ELSE page[v]
    BY <1>0, <2>1
  <2>3. doc' = [doc EXCEPT ![w] = NoDoc]
    <3>1. page'[w] # page[w]
      BY <2>1, <2>2 DEF NoPage
    <3> QED BY <1>4, <3>1 DEF Reloaded, Vanish
  <2>4. ASSUME NEW v \in Windows, doc'[v].open PROVE page'[v].at \in {"working", "done"} /\ page'[v].token = doc'[v].time
    <3>1. v # w /\ doc'[v] = doc[v]
      BY <1>0, <2>3, <2>4 DEF NoDoc
    <3> QED BY <2>2, <2>4, <3>1 DEF Apart
  <2> QED BY <1>0, <2>1, <2>2, <2>4 DEF Milder
<1> QED BY <1>1, <1>2, <1>3, <1>4, ApartMilder

\* A capture that begins is in nothing yet.
LEMMA ApartBegin ==
  ASSUME HistoryTypeOK, Stocked, Papers, Typed, Apart, UNCHANGED histVars, HistoryTypeOK',
         NEW route \in Windows, Begin("shot", route)
  PROVE  Apart'
<1>0. revision \in Nat \ {0} /\ revision' = revision + 1 /\ page' = page /\ doc' = doc
      /\ OnWay' = OnWay /\ store' = store /\ Whole' = Whole
  BY DEF Typed, Begin, histVars, OnWay, Whole, Kept
<1>1. Lives = {}
  BY DEF Begin, MainFree, Lives, Apart
<1>2. PICK r \in RunIds : runs[r].at = "none"
                          /\ runs' = [runs EXCEPT ![r] = [at |-> "shooting", token |-> revision, mode |-> "shot", route |-> route]]
  BY DEF Begin
<1>3. Lives' = {r} /\ runs'[r].at = "shooting" /\ runs'[r].token = revision
  <2>1. [at |-> "shooting", token |-> revision, mode |-> "shot", route |-> route].at # "none"
    OBVIOUS
  <2>2. Lives' = Lives \cup {r}
    BY <1>2, <2>1, MoreLives
  <2> QED BY <1>1, <1>2, <2>2 DEF Typed
<1>4. ASSUME NEW t, t = revision PROVE Unused(t)'
  <2>1. \A i \in Whole : store.rows[i].time # t
    BY <1>0, <1>4 DEF Apart, Whole
  <2>2. \A e \in OnWay : Saving(e) => e.time # t
    BY <1>0, <1>4 DEF Apart
  <2> QED BY <1>0, <2>1, <2>2 DEF Unused
<1>6. \A w \in Windows : page[w].token # revision
  BY <1>0 DEF Typed, PageRec, Before
<1>7. /\ \A e \in OnWay' : Saving(e) => e.time < revision'
      /\ \A i \in Kept(store') : store'.rows[i].time < revision'
  <2>1. revision <= revision' /\ revision' \in Nat
    BY <1>0
  <2> QED BY <2>1, EarlierStill
<1>8. ASSUME NEW w \in Windows, page'[w].at # "none"
      PROVE  /\ page'[w].token # 0
             /\ page'[w].at = "loading" => Unused(page[w].token)'
             /\ \A v \in Windows \ {w} : page'[v].token # page'[w].token
             /\ \A q \in Lives' : runs'[q].token # page'[w].token
  <2>1. page[w].at = "loading" => Unused(page[w].token)
    BY <1>0, <1>8 DEF Apart
  <2>2. page[w].at = "loading" => Unused(page[w].token)'
    BY <1>0, <2>1 DEF Unused
  <2> QED BY <1>0, <1>3, <1>6, <1>8, <2>2 DEF Apart
<1>9. (\A q \in Lives : runs[q].at = "shooting" /\ runs[q].token # 0 /\ Unused(runs[q].token))'
  <2> SUFFICES ASSUME NEW q \in Lives' PROVE runs'[q].at = "shooting" /\ runs'[q].token # 0 /\ Unused(runs[q].token)'
    OBVIOUS
  <2>1. q = r
    BY <1>3
  <2>2. PICK t : t = revision
    OBVIOUS
  <2>3. Unused(t)' /\ runs'[q].token = t
    BY <1>3, <1>4, <2>1, <2>2
  <2> QED BY <1>0, <1>3, <2>1, <2>3 DEF Unused
<1>10. \A p, q \in Lives' : p = q
  BY <1>3
<1>11. (\A w \in Windows : page[w].at # "none" =>
          /\ page[w].token # 0
          /\ page[w].at = "loading" => Unused(page[w].token)
          /\ \A v \in Windows \ {w} : page[v].token # page[w].token
          /\ \A q \in Lives : runs[q].token # page[w].token)'
  BY <1>0, <1>8
<1>12. (\A w \in Windows : page[w].at = "none" => page[w].token = 0)'
       /\ (\A w \in Windows : doc[w].open => page[w].at \in {"working", "done"} /\ page[w].token = doc[w].time)'
  BY <1>0 DEF Apart
<1> QED BY <1>7, <1>9, <1>10, <1>11, <1>12 DEF Apart

\* What becomes of the pages when a task delivers
LEMMA DeliverPages ==
  ASSUME Typed, NEW r \in Lives, Deliver(r)
  PROVE  /\ revision <= revision' /\ revision' \in Nat
         /\ Lives' = Lives \ {r} /\ \A q \in Lives' : runs'[q] = runs[q]
         /\ \/ page' = page
            \/ \E s : page' = [page EXCEPT ![runs[r].route] = [at |-> "loading", session |-> s, token |-> runs[r].token]]
<1>0. r \in RunIds
  BY DEF Lives
<1>1. revision' \in {revision, revision + 1} /\ revision \in Nat
  BY <1>0, DeliverTypes DEF Typed
<1>2. End(r)
  BY DEF Deliver, Report
<1>3. Lives' = Lives \ {r} /\ \A q \in RunIds \ {r} : runs'[q] = runs[q]
  BY <1>0, <1>2, Ended
<1>4. \A q \in Lives' : runs'[q] = runs[q]
  BY <1>3 DEF Lives
<1>5. \/ page' = page
      \/ \E s : page' = [page EXCEPT ![runs[r].route] = [at |-> "loading", session |-> s, token |-> runs[r].token]]
  BY DEF Deliver, Replace
<1>6. revision <= revision' /\ revision' \in Nat
  BY <1>1
<1> QED BY <1>3, <1>4, <1>5, <1>6

\* A capture that is delivered leaves its task for one page, which shows nothing else.
LEMMA ApartShoot ==
  ASSUME HistoryTypeOK, Stocked, Papers, Typed, Apart, HistoryMove \/ UNCHANGED histVars, HistoryTypeOK',
         NEW w \in Windows, NEW r \in RunIds, runs[r].route = w, Shoot(r), Reloaded(w)
  PROVE  Apart'
<1>0. page \in [Windows -> PageRec] /\ doc \in [Pages -> DocRec] /\ Windows \subseteq Pages
  BY TypesAre DEF Typed, Windows, Pages
<1>1. r \in Lives /\ Deliver(r)
  BY DEF Shoot, Lives
<1>2. /\ revision <= revision' /\ revision' \in Nat
      /\ Lives' = Lives \ {r} /\ (\A q \in Lives' : runs'[q] = runs[q])
      /\ \/ page' = page
         \/ \E s : page' = [page EXCEPT ![w] = [at |-> "loading", session |-> s, token |-> runs[r].token]]
  BY <1>1, DeliverPages
<1>3. CASE page'[w] = page[w]
  <2>1. UNCHANGED histVars
    BY <1>3 DEF Reloaded
  <2>2. page' = page
    <3>1. ASSUME NEW s, page' = [page EXCEPT ![w] = [at |-> "loading", session |-> s, token |-> runs[r].token]]
          PROVE  page' = page
      <4>1. [page EXCEPT ![w] = page[w]] = page
        BY <1>0
      <4>2. page'[w] = [at |-> "loading", session |-> s, token |-> runs[r].token]
        BY <1>0, <3>1
      <4> QED BY <1>3, <3>1, <4>1, <4>2
    <3> QED BY <1>2, <3>1
  <2>3. doc' = doc
    BY <2>1 DEF histVars
  <2>4. \A v \in Windows : doc'[v].open => page'[v].at \in {"working", "done"} /\ page'[v].token = doc'[v].time
    BY <2>2, <2>3 DEF Apart
  <2>5. Lives' \subseteq Lives
    BY <1>2
  <2>6. Milder
    BY <1>2, <2>2, <2>4, <2>5 DEF Milder
  <2> QED BY <2>6, ApartMilder
<1>4. CASE page'[w] # page[w]
  <2>1. PICK s : page' = [page EXCEPT ![w] = [at |-> "loading", session |-> s, token |-> runs[r].token]]
    BY <1>2, <1>4
  <2>2. /\ page'[w].at = "loading" /\ page'[w].token = runs[r].token
        /\ \A v \in Windows \ {w} : page'[v] = page[v]
    BY <1>0, <2>1
  <2>3. Lives' = {}
    BY <1>1, <1>2 DEF Apart
  <2>4. doc' = [doc EXCEPT ![w] = NoDoc]
    BY <1>4 DEF Reloaded, Vanish
  <2>5. ~doc'[w].open /\ \A v \in Windows \ {w} : doc'[v] = doc[v]
    BY <1>0, <2>4 DEF NoDoc
  <2>6. PICK t : t = runs[r].token
    OBVIOUS
  <2>7. t # 0 /\ Unused(t) /\ \A v \in Windows : page[v].token # t
    <3>1. t # 0 /\ Unused(t)
      BY <1>1, <2>6 DEF Apart
    <3>2. ASSUME NEW v \in Windows PROVE page[v].token # t
      BY <1>1, <2>6, <3>1 DEF Apart
    <3> QED BY <3>1, <3>2
  <2>8. Unused(t)'
    <3>1. \A v \in Windows : doc[v].open => doc[v].time # t
      BY <2>7 DEF Apart
    <3> QED BY <2>7, <3>1, UnusedStill
  <2>9. ASSUME NEW v \in Windows, page'[v].at = "loading" PROVE Unused(page[v].token)'
    <3>1. CASE v = w
      BY <2>2, <2>6, <2>8, <3>1 DEF Unused
    <3>2. CASE v # w
      <4>1. page'[v] = page[v] /\ page[v].at = "loading"
        BY <2>2, <2>9, <3>2
      <4>2. PICK u : u = page[v].token
        OBVIOUS
      <4>3. Unused(u)
        BY <4>1, <4>2 DEF Apart
      <4>4. ASSUME NEW x \in Windows, doc[x].open PROVE doc[x].time # u
        <5>1. page[x].at \in {"working", "done"} /\ page[x].token = doc[x].time
          BY <4>4 DEF Apart
        <5>2. x # v
          BY <4>1, <5>1
        <5> QED BY <4>1, <4>2, <5>1, <5>2 DEF Apart
      <4>5. Unused(u)'
        BY <4>3, <4>4, UnusedStill
      <4> QED BY <4>1, <4>2, <4>5 DEF Unused
    <3> QED BY <3>1, <3>2
  <2>10. /\ \A e \in OnWay' : Saving(e) => e.time < revision'
         /\ \A i \in Kept(store') : store'.rows[i].time < revision'
    BY <1>2, EarlierStill
  <2>11. (\A v \in Windows : page[v].at # "none" =>
            /\ page[v].token # 0
            /\ page[v].at = "loading" => Unused(page[v].token)
            /\ \A x \in Windows \ {v} : page[x].token # page[v].token
            /\ \A q \in Lives : runs[q].token # page[v].token)'
    <3> SUFFICES ASSUME NEW v \in Windows, page'[v].at # "none"
                 PROVE  page'[v].token # 0 /\ \A x \in Windows \ {v} : page'[x].token # page'[v].token
      BY <2>3, <2>9
    <3>1. CASE v = w
      BY <2>2, <2>6, <2>7, <3>1
    <3>2. CASE v # w
      <4>1. page'[v] = page[v] /\ page[v].token # 0
        BY <2>2, <3>2 DEF Apart
      <4>2. ASSUME NEW x \in Windows \ {v} PROVE page'[x].token # page'[v].token
        <5>1. CASE x = w
          BY <2>2, <2>6, <2>7, <4>1, <5>1
        <5>2. CASE x # w
          BY <2>2, <4>1, <5>2 DEF Apart
        <5> QED BY <5>1, <5>2
      <4> QED BY <4>1, <4>2
    <3> QED BY <3>1, <3>2
  <2>12. (\A v \in Windows : page[v].at = "none" => page[v].token = 0)'
    BY <2>2 DEF Apart
  <2>13. (\A v \in Windows : doc[v].open => page[v].at \in {"working", "done"} /\ page[v].token = doc[v].time)'
    BY <2>2, <2>5 DEF Apart
  <2>14. (\A q \in Lives : runs[q].at = "shooting" /\ runs[q].token # 0 /\ Unused(runs[q].token))' /\ (\A p, q \in Lives : p = q)'
    BY <2>3
  <2> QED BY <2>10, <2>11, <2>12, <2>13, <2>14 DEF Apart
<1> QED BY <1>3, <1>4

\* Whatever happens where the history is looked at closely, captures stay apart.
LEMMA LinkedStep ==
  ASSUME HistoryTypeOK, Stocked, Papers, Typed, Linked, [SessionNext]_sessionVars, HistoryTypeOK' PROVE Linked'
<1> SUFFICES ASSUME closely' PROVE Apart'
  BY DEF Linked
<1>1. closely' = closely /\ (UNCHANGED histVars \/ HistoryMove)
  BY StepOfHistory
<1>2. Apart
  BY <1>1 DEF Linked
<1>3. CASE HistoryStep \/ UserStep \/ CrashApp
  BY <1>1, <1>2, <1>3, ApartByHistory
<1>4. CASE LifecycleStep
  BY <1>1, <1>2, <1>4, ApartBegin, ApartByPages DEF LifecycleStep
<1>5. ASSUME NEW w \in Windows, PageStep(w) PROVE Apart'
  BY <1>1, <1>2, <1>5, ApartShoot, ApartByPages DEF PageStep
<1>6. CASE UNCHANGED sessionVars
  <2>1. UNCHANGED <<vars, histVars>>
    BY <1>6 DEF sessionVars
  <2>2. UNCHANGED <<revision, runs, page, doc, store, torn, encoding, calls>>
    BY <2>1 DEF vars, histVars
  <2>3. UNCHANGED <<Lives, OnWay, Whole>> /\ Kept(store') = Kept(store)
    BY <2>2 DEF Lives, OnWay, Whole, Kept
  <2> QED BY <1>2, <2>2, <2>3 DEF Apart, Unused
<1> QED BY <1>1, <1>3, <1>4, <1>5, <1>6 DEF SessionNext

-----------------------------------------------------------------------------
\* The invariant of the history

\* It holds at the start ...
LEMMA HistoryBegins == ASSUME SessionInit PROVE HistInd
<1>0. Init /\ HistoryInit
  BY DEF SessionInit
<1>1. /\ store = [rows |-> [i \in Ids |-> NoRow], full |-> [i \in Ids |-> Nothing], thumb |-> [i \in Ids |-> Nothing]]
      /\ doc = [w \in Pages |-> NoDoc] /\ limit \in Limits /\ encoding = {} /\ calls = << >>
      /\ given = 0 /\ deeds = 0 /\ torn = {} /\ behind = {} /\ evicted = {}
  BY <1>0 DEF HistoryInit
<1>2. /\ \A i \in Ids : store.rows[i] = NoRow /\ \A f \in Images : store[f][i] = Nothing
      /\ \A w \in Pages : doc[w] = NoDoc /\ ~doc[w].open
      /\ Kept(store) = {} /\ Whole = {} /\ OnWay = {} /\ Untouched(store) = {}
  BY <1>1 DEF Images, NoDoc, Kept, Whole, OnWay, Untouched
<1>3. HistoryTypeOK
  <2>1. NoRow \in RowRec /\ NoDoc \in DocRec /\ Nothing \in Versions
    BY Versions0 DEF NoRow, NoDoc, RowRec, DocRec
  <2>2. StoreTyped
    BY <1>1, <2>1 DEF StoreTyped, Images
  <2>3. << >> \in Seq(Calls) /\ 0 \in 0..MaxIds /\ 0 \in 0..MaxDeeds
    BY HistoryConstants
  <2> QED BY <1>1, <2>1, <2>2, <2>3, TypesAre
<1>4. Stocked
  BY <1>1, <1>2 DEF Stocked
<1>5. Papers
  <2>1. \A i \in Ids : store.rows[i].note <= deeds /\ \A f \in Images : store[f][i] <= deeds
    BY <1>1, <1>2 DEF NoRow, Nothing
  <2> QED BY <1>1, <1>2, <2>1 DEF Papers, ShownDoc
<1>6. OnceEach
  BY <1>1, <1>2 DEF OnceEach, Once
<1>7. \A w \in Windows : ~doc[w].open /\ page[w] = NoPage
  BY <1>0, <1>2 DEF Init, Windows, Pages
<1>8. Known /\ SnapshotsGood
  BY <1>7 DEF Known, SnapshotsGood
<1>9. Linked
  <2>1. Lives = {}
    BY <1>0 DEF Init, Lives, NoRun
  <2> QED BY <1>2, <1>7, <2>1 DEF Linked, Apart, NoPage, Nobody
<1>10. CapsKept /\ OldestGone
  <2>1. Bytes(store, {}) = 0 /\ Cardinality({}) = 0
    BY FS_EmptySet DEF Bytes
  <2>2. limit.count \in Nat /\ limit.bytes \in Nat
    BY <1>1, HistoryConstants
  <2>3. Cardinality(Kept(store)) = 0 /\ Bytes(store, Untouched(store)) = 0
    BY <1>2, <2>1
  <2>4. CapsKept
    BY <2>2, <2>3 DEF CapsKept
  <2> QED BY <1>1, <2>4 DEF OldestGone
<1>11. EditsOlder /\ Pushed
  BY <1>2 DEF EditsOlder, Pushed
<1> QED BY <1>3, <1>4, <1>5, <1>6, <1>8, <1>9, <1>10, <1>11 DEF HistInd

\* ... and every step keeps it.
LEMMA HistoryGoesOn == ASSUME LifeInd, HistInd, [SessionNext]_sessionVars PROVE HistInd'
<1>1. closely' = closely /\ (UNCHANGED histVars \/ (closely /\ HistoryMove))
  BY StepOfHistory
<1>2. Typed /\ Sound
  BY LifeBounds DEF LifeInd
<1>3. CASE UNCHANGED histVars
  <2>1. /\ UNCHANGED <<store, doc, encoding, calls, limit, given, torn, behind, evicted, deeds>>
        /\ UNCHANGED <<OnWay, Whole>>
    BY <1>3 DEF histVars, OnWay, Whole, Kept
  <2>2. HistoryTypeOK' /\ Stocked' /\ CapsKept' /\ OldestGone'
    BY <2>1 DEF HistInd, HistoryTypeOK, Stocked, CapsKept, OldestGone, Kept, Untouched, Bytes
  <2>3. Papers'
    BY <2>1 DEF HistInd, Papers, ShownDoc, SentFor, Saving
  <2>4. OnceEach' /\ Known'
    BY <2>1 DEF HistInd, OnceEach, Known, Once, Unused, Kept, Saving
  <2>5. EditsOlder' /\ Pushed' /\ SnapshotsGood'
    BY <2>1 DEF HistInd, EditsOlder, Pushed, SnapshotsGood, Edits, NoteComes, PictureComes, Saving
  <2>6. Linked'
    BY <1>2, <2>2, LinkedStep DEF HistInd
  <2> QED BY <2>2, <2>3, <2>4, <2>5, <2>6 DEF HistInd
<1>4. CASE closely /\ HistoryMove
  <2>1. Apart
    BY <1>4 DEF HistInd, Linked
  <2>2. HistoryTypeOK' /\ Stocked' /\ Papers'
    BY <1>2, <1>4, <2>1, HistoryTypes, StockedStep, PapersStep DEF HistInd
  <2>3. OnceEach' /\ Known'
    BY <1>4, <2>1, OnceStep, KnownStep DEF HistInd
  <2>4. Linked'
    BY <1>2, <2>2, LinkedStep DEF HistInd
  <2>5. CapsKept' /\ OldestGone'
    BY <1>4, CapsStep, OldestStep DEF HistInd
  <2>6. EditsOlder' /\ Pushed' /\ SnapshotsGood'
    BY <1>4, <2>1, OlderStep, PushedStep, SnapshotsStep DEF HistInd
  <2> QED BY <2>2, <2>3, <2>4, <2>5, <2>6 DEF HistInd
<1> QED BY <1>1, <1>3, <1>4

\* It implies what the history promises.
LEMMA HistoryIsKept == ASSUME HistInd PROVE HistoryKept
<1>1. FilesAndCaps
  <2>1. \A i \in Ids \ torn, f \in Images : store[f][i] # Nothing <=> i \in Kept(store)
    BY DEF HistInd, Stocked
  <2>2. ASSUME torn = {}
        PROVE  \/ Fits(store, Kept(store))
               \/ Cardinality(Kept(store)) <= limit.count /\ \E i \in Kept(store) : store.rows[i].of # 0
    <3>1. Cardinality(Kept(store)) <= limit.count /\ Bytes(store, Untouched(store)) <= limit.bytes
      BY <2>2 DEF HistInd, CapsKept
    <3>2. CASE \E i \in Kept(store) : store.rows[i].of # 0
      BY <3>1, <3>2
    <3>3. CASE \A i \in Kept(store) : store.rows[i].of = 0
      <4>1. Untouched(store) = Kept(store)
        BY <3>3 DEF Untouched
      <4> QED BY <3>1, <4>1 DEF Fits
    <3> QED BY <3>2, <3>3
  <2> QED BY <2>1, <2>2 DEF FilesAndCaps, HistInd, OldestGone
<1>2. Persisted
  <2> SUFFICES ASSUME NEW w \in Pages \ behind, doc[w].open, doc[w].id \in Kept(store) \ torn, ~Busy(w)
               PROVE  /\ store.rows[doc[w].id].note = doc[w].note /\ store.rows[doc[w].id].of = doc[w].content
                      /\ \A f \in Images : store[f][doc[w].id] = doc[w].content
    BY DEF Persisted
  <2>1. doc[w].owes = {} /\ Edits(w) = {}
    BY DEF Busy, Edits, OnWay
  <2>2. NoteComes(w) /\ PictureComes(w)
    BY DEF HistInd, Pushed, Whole
  <2>3. store.rows[doc[w].id].note = doc[w].note /\ store.rows[doc[w].id].of = doc[w].content
    BY <2>1, <2>2 DEF NoteComes, PictureComes
  <2>4. \A f \in Images : store[f][doc[w].id] = store.rows[doc[w].id].of
    BY DEF HistInd, Stocked, Kept
  <2> QED BY <2>3, <2>4
<1> QED BY <1>1, <1>2 DEF HistoryKept, HistInd, OnceEach

\* A capture is in the history at most once, a row has its images and an image its row, the
\* caps are kept and the oldest go first, and what a page shows comes to its row - whatever
\* is cut short, fails, crashes or overtakes - while the icon of the lifecycle tells the
\* truth (history.rs, saveToHistoryOnce(), capture/mod.rs).
THEOREM CapturesSound == SessionSpec => []SessionSound
<1>1. SessionInit => LifeInd /\ HistInd
  BY LifeBegins, HistoryBegins
<1>2. LifeInd /\ HistInd /\ [SessionNext]_sessionVars => LifeInd' /\ HistInd'
  BY LifeGoesOn, HistoryGoesOn
<1>3. LifeInd /\ HistInd => SessionSound
  BY LifeBounds, HistoryIsKept DEF SessionSound
<1> QED BY <1>1, <1>2, <1>3, PTL DEF SessionSpec
=============================================================================
