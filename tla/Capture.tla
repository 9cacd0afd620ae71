------------------------------ MODULE Capture ------------------------------
(***************************************************************************)
(* A screen capture from the hotkey to its delivery (src-tauri/src/capture *)
(* and tray.rs).  One lifecycle, shown by the menu-bar icon, admits one    *)
(* capture at a time; a result waits under a fresh session for the one     *)
(* page that was opened for it; the page reports how the delivery ended,   *)
(* and the icon comes back to rest after a while.  Hotkeys, the commands   *)
(* of pages and single-shot captures run on the main thread, one after the *)
(* other; page and scrolling captures, and timers, run on worker threads.  *)
(* Every step on the lifecycle takes its lock once.                        *)
(***************************************************************************)
EXTENDS Integers, FiniteSets

CONSTANTS
  Modes,        \* capture modes: a subset of AllModes
  MaxCaptures,  \* bound: captures begun
  MaxAcks,      \* bound: acknowledgements flashed by other features
  MaxRuns       \* bound: capture tasks at one time

\* "shot" stands for visible, snip, fullWindow and frontWindow, "page" for pageOnly.
AllModes == {"shot", "page", "scrollingPage", "scrolling"}
Windows == {"editor", "silent"}   \* the windows that deliver; also the routes

ASSUME CaptureConstants ==
  /\ Modes \subseteq AllModes
  /\ MaxCaptures \in Nat /\ MaxAcks \in Nat /\ MaxRuns \in Nat

VARIABLES
  phase,     \* the lifecycle's phase
  revision,  \* next_revision
  timers,    \* the revisions some schedule_reset waits to expire
  pending,   \* deliveries: the completed results nobody has consumed
  sessions,  \* sessions given out so far (they are random identifiers)
  runs,      \* runs[r]: capture task r
  scrolling, \* SCROLLING: the run that has set the flag, 0 when it is clear
  overlay,   \* the selection overlay: the capture it was opened for and its route
  asked,     \* the commands of the overlay that are on their way
  page,      \* page[w]: what the page of window w is doing
  reports,   \* the delivery reports that are on their way
  begun, acks,
  acting,    \* (history) the capture the last step acted for; 0 when it was a timer or an ack
  orderly    \* whether, in this behaviour, the overlay sends one gesture before it is closed
             \* (else two) and pages are closed only after they have reported

vars == <<phase, revision, timers, pending, sessions, runs, scrolling, overlay, asked,
          page, reports, begun, acks, acting, orderly>>

Nobody == 0
Tokens == 0..(2 * MaxCaptures + MaxAcks)   \* captures go by the revision they began with
Sessions == 0..MaxCaptures
RunIds == 1..MaxRuns
Feedback == {"succeeded", "failed", "acknowledged"}

Idle == [at |-> "idle", token |-> Nobody, session |-> 0]
Active(t, s) == [at |-> "active", token |-> t, session |-> s]
Shows(what) == [at |-> what, token |-> revision, session |-> 0]   \* token is its revision

NoRun == [at |-> "none", token |-> Nobody, mode |-> "shot", route |-> "editor"]
NoOverlay == [token |-> Nobody, route |-> "editor"]
NoPage == [at |-> "none", session |-> 0, token |-> Nobody]

TypeOK ==
  /\ phase \in [at : {"idle", "active"} \cup Feedback, token : Tokens, session : Sessions]
  /\ revision \in Nat /\ begun \in Nat /\ acks \in Nat /\ acting \in Tokens /\ orderly \in BOOLEAN
  /\ timers \subseteq Tokens
  /\ pending \subseteq [session : Sessions, route : Windows, token : Tokens]
  /\ sessions \in Sessions
  /\ runs \in [RunIds -> [at : {"none", "shooting", "locating", "starting", "scrolling", "taken"},
                          token : Tokens, mode : AllModes, route : Windows]]
  /\ scrolling \in {0} \cup RunIds
  /\ overlay \in [token : Tokens, route : Windows]
  /\ asked \subseteq [what : {"run", "cancel"}, token : Tokens]
  /\ page \in [Windows -> [at : {"none", "loading", "working", "done"},
                           session : Sessions, token : Tokens]]
  /\ reports \subseteq [session : Sessions, token : Tokens, ok : BOOLEAN]

Init ==
  /\ phase = Idle /\ revision = 1 /\ timers = {}
  /\ pending = {} /\ sessions = 0
  /\ runs = [r \in RunIds |-> NoRun] /\ scrolling = 0
  /\ overlay = NoOverlay /\ asked = {}
  /\ page = [w \in Windows |-> NoPage] /\ reports = {}
  /\ begun = 0 /\ acks = 0 /\ acting = Nobody /\ orderly \in BOOLEAN

\* The main thread is blocked while a single-shot capture takes its pixels.
MainFree == \A r \in RunIds : runs[r].at # "shooting"

IsActive(t) == phase.at = "active" /\ phase.token = t   \* active_token() == Some(t)

-----------------------------------------------------------------------------
(***************************************************************************)
(* The lifecycle.  finish_delivery, fail, cancel_current and acknowledge   *)
(* take a revision; what is shown is reset by a timer with that revision.  *)
(***************************************************************************)
Show(what) ==
  /\ phase' = Shows(what)
  /\ revision' = revision + 1
  /\ timers' = timers \cup {revision}

Same == UNCHANGED <<phase, revision, timers>>

Fail(t) == IF IsActive(t) THEN Show("failed") ELSE Same

\* (mutant) without the comparison of sessions
BoundToAny(session) == phase.at = "active" /\ session = session

Bound(session) == phase.at = "active" /\ phase.session = session

FinishDelivery(session, ok) ==
  IF Bound(session) THEN Show(IF ok THEN "succeeded" ELSE "failed") ELSE Same

CancelCurrent ==
  /\ UNCHANGED timers
  /\ IF phase.at = "active" THEN phase' = Idle /\ revision' = revision + 1
                            ELSE UNCHANGED <<phase, revision>>

IsShown(r) == phase.at \in Feedback /\ phase.token = r

Expire(r) ==
  /\ r \in timers
  /\ timers' = timers \ {r}
  /\ phase' = IF IsShown(r) THEN Idle ELSE phase
  /\ acting' = Nobody
  /\ UNCHANGED <<revision, pending, sessions, runs, scrolling, overlay, asked, page,
                 reports, begun, acks, orderly>>

\* flash_ack(), on behalf of the palette and the clipboard history.
Acknowledge ==
  /\ MainFree /\ acks < MaxAcks
  /\ acks' = acks + 1
  /\ IF phase.at = "active" THEN Same ELSE Show("acknowledged")
  /\ acting' = Nobody
  /\ UNCHANGED <<pending, sessions, runs, scrolling, overlay, asked, page, reports, begun, orderly>>

-----------------------------------------------------------------------------
(***************************************************************************)
(* A capture begins: trigger_mode().  A request while another capture is   *)
(* active changes nothing but the words beside the icon.                   *)
(***************************************************************************)
Begin(mode, route) ==
  /\ MainFree /\ begun < MaxCaptures
  /\ phase.at # "active"
  /\ begun' = begun + 1
  /\ acting' = revision
  /\ IF mode = "scrolling"
       THEN /\ \/ /\ overlay' = [token |-> revision, route |-> route]
                  /\ phase' = Active(revision, 0) /\ revision' = revision + 1
                  /\ UNCHANGED timers
               \/ /\ phase' = [at |-> "failed", token |-> revision + 1, session |-> 0]
                  /\ revision' = revision + 2     \* the overlay could not be opened
                  /\ timers' = timers \cup {revision + 1}
                  /\ overlay' = NoOverlay
            /\ UNCHANGED runs
       ELSE \E r \in RunIds :
            /\ runs[r].at = "none"
            /\ runs' = [runs EXCEPT ![r] = [at |-> IF mode = "shot" THEN "shooting" ELSE "locating",
                                            token |-> revision, mode |-> mode, route |-> route]]
            /\ phase' = Active(revision, 0) /\ revision' = revision + 1
            /\ UNCHANGED <<timers, overlay>>
  /\ UNCHANGED <<pending, sessions, scrolling, asked, page, reports, acks, orderly>>

CloseOverlay == overlay' = NoOverlay   \* close_scroll_overlay()

\* The user drags a region on the overlay, or presses Escape.
Gesture(what) ==
  /\ overlay.token # Nobody
  /\ Cardinality(asked) < IF orderly THEN 1 ELSE 2
  /\ asked' = asked \cup {[what |-> what, token |-> overlay.token]}
  /\ UNCHANGED <<phase, revision, timers, pending, sessions, runs, scrolling, overlay,
                 page, reports, begun, acks, acting, orderly>>

\* scroll_capture_run(): the region is taken for the capture that is active now.
RunOverlay(a) ==
  /\ a \in asked /\ a.what = "run"
  /\ asked' = asked \ {a}
  /\ acting' = a.token
  /\ IF phase.at = "active" /\ overlay.token # Nobody
       THEN /\ \E r \in RunIds :
                 /\ runs[r].at = "none"
                 /\ runs' = [runs EXCEPT ![r] = [at |-> "starting", token |-> phase.token,
                                                 mode |-> "scrolling", route |-> overlay.route]]
            /\ CloseOverlay
       ELSE UNCHANGED <<runs, overlay>>
  /\ UNCHANGED <<phase, revision, timers, pending, sessions, scrolling, page, reports,
                 begun, acks, orderly>>

\* scroll_capture_cancel()
CancelOverlay(a) ==
  /\ MainFree
  /\ a \in asked /\ a.what = "cancel"
  /\ asked' = asked \ {a}
  /\ acting' = a.token
  /\ CloseOverlay
  /\ CancelCurrent
  /\ UNCHANGED <<pending, sessions, runs, scrolling, page, reports, begun, acks, orderly>>

-----------------------------------------------------------------------------
(***************************************************************************)
(* A capture task.                                                         *)
(***************************************************************************)
End(r) == runs' = [runs EXCEPT ![r] = NoRun]
Goto(r, p) == runs' = [runs EXCEPT ![r].at = p]

\* report_failure_for()
Report(r) == Fail(runs[r].token) /\ End(r)

\* page_target(): the frontmost page is found, and photographed for "page"; or it is not.
Locate(r) ==
  /\ runs[r].at = "locating"
  /\ acting' = runs[r].token
  /\ \/ Goto(r, IF runs[r].mode = "page" THEN "taken" ELSE "starting") /\ Same
     \/ Report(r)
  /\ UNCHANGED <<pending, sessions, scrolling, overlay, asked, page, reports, begun, acks, orderly>>

\* run_scrolling(): without the Accessibility grant it fails; while another loop runs it
\* is refused, and that one refusal is reported to nobody (AlreadyScrolling).

AlreadyScrolling == scrolling # 0

StartLoop(r) ==
  /\ runs[r].at = "starting"
  /\ acting' = runs[r].token
  /\ \/ UNCHANGED scrolling /\ Report(r)
     \/ AlreadyScrolling /\ UNCHANGED scrolling /\ End(r) /\ Same
     \/ ~AlreadyScrolling /\ scrolling' = r /\ Goto(r, "scrolling") /\ Same
  /\ UNCHANGED <<pending, sessions, overlay, asked, page, reports, begun, acks, orderly>>

\* The loop ends, with the frames it has or with an error; the flag is cleared either way.
EndLoop(r) ==
  /\ runs[r].at = "scrolling"
  /\ acting' = runs[r].token
  /\ scrolling' = 0
  /\ \/ Goto(r, "taken") /\ Same
     \/ Report(r)
  /\ UNCHANGED <<pending, sessions, overlay, asked, page, reports, begun, acks, orderly>>

\* CaptureOrchestration::complete()
Complete(t, route) ==
  /\ sessions' = sessions + 1
  /\ pending' = pending \cup {[session |-> sessions', route |-> route, token |-> t]}

\* (mutant) the session is given out and not bound
BindNothing(t) == t = t /\ UNCHANGED phase

Bind(t) == phase' = Active(t, sessions')

Replace(w, t) == page' = [page EXCEPT ![w] = [at |-> "loading", session |-> sessions', token |-> t]]

MayComplete(t) == IsActive(t)

\* finish(): the result is registered and the window of its route reloaded or opened for
\* it, or that window cannot be opened; a capture that is no longer active reports a
\* failure that finds nothing to settle.
Deliver(r) ==
  LET t == runs[r].token
      route == runs[r].route
  IN  \/ Report(r) /\ UNCHANGED <<sessions, pending, page>>   \* the pixels do not encode
      \/ /\ End(r)
         /\ IF MayComplete(t)
              THEN /\ Complete(t, route)
                   /\ \/ Bind(t) /\ Replace(route, t) /\ UNCHANGED <<revision, timers>>
                      \/ Show("failed") /\ UNCHANGED page
              ELSE Same /\ UNCHANGED <<sessions, pending, page>>

\* Page captures come back to the main thread for it, the region capture does not.
Finish(r) ==
  /\ runs[r].at = "taken"
  /\ runs[r].mode = "scrolling" \/ MainFree
  /\ acting' = runs[r].token
  /\ Deliver(r)
  /\ UNCHANGED <<scrolling, overlay, asked, reports, begun, acks, orderly>>

\* The end of trigger_mode() for a single shot, which may also fail; all of it on the
\* main thread.
Shoot(r) ==
  /\ runs[r].at = "shooting"
  /\ acting' = runs[r].token
  /\ Deliver(r)
  /\ UNCHANGED <<scrolling, overlay, asked, reports, begun, acks, orderly>>

-----------------------------------------------------------------------------
(***************************************************************************)
(* The pages that deliver.                                                 *)
(***************************************************************************)
Owned(w) == {p \in pending : p.session = page[w].session /\ p.route = w}

Reporting(w, ok) ==
  reports' = reports \cup {[session |-> page[w].session, token |-> page[w].token, ok |-> ok]}

\* init() before the payload: an error there is reported.  take_pending_capture(): the
\* payload goes to the page whose session and route it is; without one the editor reports
\* an error and the silent worker is parked again without a word.
Load(w) ==
  /\ MainFree
  /\ page[w].at = "loading"
  /\ \/ /\ Owned(w) # {}
        /\ pending' = pending \ Owned(w)
        /\ page' = [page EXCEPT ![w].at = "working"]
        /\ UNCHANGED reports
     \/ /\ Reporting(w, FALSE)
        /\ page' = [page EXCEPT ![w].at = "done"]
        /\ UNCHANGED pending
  /\ acting' = page[w].token
  /\ UNCHANGED <<phase, revision, timers, sessions, runs, scrolling, overlay, asked, begun, acks, orderly>>

\* deliverInitialCapture(): saved and copied, or one of the two failed.
Work(w) ==
  /\ page[w].at = "working"
  /\ \E ok \in BOOLEAN : Reporting(w, ok)
  /\ page' = [page EXCEPT ![w].at = "done"]
  /\ acting' = page[w].token
  /\ UNCHANGED <<phase, revision, timers, pending, sessions, runs, scrolling, overlay,
                 asked, begun, acks, orderly>>

\* capture_delivery_finished()
Settle(m) ==
  /\ MainFree
  /\ m \in reports
  /\ reports' = reports \ {m}
  /\ FinishDelivery(m.session, m.ok)
  /\ acting' = m.token
  /\ UNCHANGED <<pending, sessions, runs, scrolling, overlay, asked, page, begun, acks, orderly>>

\* The user closes the editor, or switches silent captures off (close_silent_editor).
Close(w) ==
  /\ ~orderly /\ MainFree
  /\ page[w].at # "none"
  /\ page' = [page EXCEPT ![w] = NoPage]
  /\ acting' = page[w].token
  /\ UNCHANGED <<phase, revision, timers, pending, sessions, runs, scrolling, overlay,
                 asked, reports, begun, acks, orderly>>

-----------------------------------------------------------------------------
Lifecycle ==
  \/ \E r \in Tokens : Expire(r)
  \/ Acknowledge
  \/ \E mode \in Modes, route \in Windows : Begin(mode, route)
OnOverlay ==
  \/ \E what \in {"run", "cancel"} : Gesture(what)
  \/ \E a \in asked : RunOverlay(a) \/ CancelOverlay(a)
Task(r) == Locate(r) \/ StartLoop(r) \/ EndLoop(r) \/ Finish(r) \/ Shoot(r)
OnPage(w) == Load(w) \/ Work(w) \/ Close(w)

Next ==
  \/ Lifecycle
  \/ OnOverlay
  \/ \E r \in RunIds : Task(r)
  \/ \E w \in Windows : OnPage(w)
  \/ \E m \in reports : Settle(m)

Spec == Init /\ [][Next]_vars

\* Timers fire, tasks end, commands of pages arrive, a page that is left alone gets to its
\* report, and the user does something with the overlay.
Fairness ==
  /\ \A r \in Tokens : WF_vars(Expire(r))
  /\ WF_vars(OnOverlay)
  /\ \A r \in RunIds : WF_vars(Task(r))
  /\ \A w \in Windows : WF_vars(Load(w)) /\ WF_vars(Work(w))
  /\ WF_vars(\E m \in reports : Settle(m))

FairSpec == Spec /\ Fairness

-----------------------------------------------------------------------------
(***************************************************************************)
(* Properties                                                              *)
(***************************************************************************)

\* In an orderly behaviour the icon tells the truth: whatever works for a capture - a task,
\* the overlay, a page that has not reported, a report on its way - works for the capture
\* that the lifecycle shows as active, and a page or report for the very session it is bound
\* to.  (begin(), complete() and finish_delivery().)
IconTells == orderly =>
  /\ \A r \in RunIds : runs[r].at # "none" => IsActive(runs[r].token)
  /\ overlay.token # Nobody => IsActive(overlay.token)
  /\ \A w \in Windows : page[w].at \in {"loading", "working"} => Bound(page[w].session)
  /\ \A m \in reports : Bound(m.session)

\* A capture is settled only on its own behalf - never by the late report of an older page
\* or the late failure of an older task - and what the icon shows of it goes away with its
\* own timer, not with one scheduled for something shown before (finish_delivery(), fail(),
\* expire()).
FeedbackHonest ==
  [][ /\ (phase.at = "active" /\ phase'.at \in Feedback => acting' = phase.token)
      /\ (phase.at \in Feedback /\ phase'.at = "idle" => phase.token \in timers \ timers') ]_vars

\* Two scrolling captures never fight over the pointer, whatever the overlay sends and
\* however captures are cancelled and begun again; the flag is set exactly while one runs
\* (run_scrolling(), ScrollingSession).
Exclusive ==
  \A r \in RunIds : runs[r].at = "scrolling" <=> scrolling = r

\* The type invariant, with the flag of run_scrolling() and what the icon tells.
Sound == TypeOK /\ Exclusive /\ IconTells

\* In an orderly behaviour the icon always comes back to rest: every capture is settled or
\* cancelled, and what is shown of it is reset.  (editor.js: "A delivery page always settles
\* the menu-bar lifecycle it belongs to"; commands.rs: "Everything from here on has to report
\* itself".)
Rests == orderly => []<>(phase.at = "idle")

=============================================================================
