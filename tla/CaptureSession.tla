--------------------------- MODULE CaptureSession ---------------------------
(***************************************************************************)
(* Captures together with the history they end in.  A behaviour either     *)
(* goes through the lifecycle with every mode, overlay and acknowledgement *)
(* and with a history that may answer anything, or looks closely at what   *)
(* the pages do to the history, with single shots only.                    *)
(***************************************************************************)
EXTENDS Capture, CaptureHistory

\* A capture is taken at a time of its own, by which it goes in the lifecycle as well.
ASSUME SessionConstants == Tokens \ {Nobody} \subseteq Times

VARIABLE closely

sessionVars == <<vars, histVars, closely>>

SessionInit ==
  /\ Init /\ HistoryInit
  /\ closely \in BOOLEAN /\ (~closely => limit = CHOOSE l \in Limits : TRUE)

\* The process ends, in the middle of a command perhaps.
CrashApp ==
  /\ MayDo /\ (calls # << >> /\ Head(calls).do = "save" => given < MaxIds)
  /\ IF calls = << >> THEN UNCHANGED <<store, torn>>
     ELSE \E steps \in StepsOf(Head(calls)) : \E k \in 0..Len(steps) : Upto(steps, k)
  /\ given' = IF calls # << >> /\ Head(calls).do = "save" THEN given + 1 ELSE given
  /\ phase' = Idle /\ timers' = {} /\ pending' = {} /\ scrolling' = 0
  /\ runs' = [r \in RunIds |-> NoRun] /\ overlay' = NoOverlay /\ asked' = {}
  /\ page' = [w \in Windows |-> NoPage] /\ reports' = {} /\ acting' = Nobody
  /\ doc' = [w \in Pages |-> NoDoc] /\ encoding' = {} /\ calls' = << >>
  /\ behind' = {} /\ evicted' = {}
  /\ UNCHANGED <<revision, sessions, begun, acks, orderly, limit>>

Reloaded(w) == IF page'[w] = page[w] THEN UNCHANGED histVars ELSE Vanish(w) /\ UNCHANGED <<calls, deeds>>

\* deliverInitialCapture(): the report waits for the save, and says so when it failed.
Delivered(w) ==
  /\ Work(w) /\ doc[w].saver \in {"saved", "failed"}
  /\ doc[w].saver = "failed" => ~\E m \in reports' \ reports : m.ok
  /\ UNCHANGED histVars

\* (bound) A close look leaves out what goes on while a report is on its way or a timer runs.
Settled == reports = {} /\ timers = {}

\* What the pages and the main thread do to the history by themselves.
HistoryStep ==
  /\ closely /\ UNCHANGED closely /\ Settled
  /\ \/ (Duty \/ (MainFree /\ Handle)) /\ UNCHANGED vars
     \/ /\ MainFree /\ CloseEditor /\ page' = [page EXCEPT !["editor"] = NoPage]
        /\ UNCHANGED <<phase, revision, timers, pending, sessions, runs, scrolling, overlay, asked,
                       reports, begun, acks, acting, orderly>>

\* When it has such a step to take.
HistoryDue ==
  /\ closely /\ Settled
  /\ \/ \E w \in Pages : doc[w].owes # {} \/ (w # "view" /\ doc[w].open /\ doc[w].saver = "no")
     \/ encoding # {}
     \/ MainFree /\ calls # << >> /\ (Head(calls).do = "save" => given < MaxIds)

UserStep ==
  /\ UNCHANGED vars
  /\ \/ doc["editor"].saver # "no" /\ StartSave("editor")
     \/ \E w \in Pages : \/ \E what \in {"meta", "content"} : Alter(w, what)
                         \/ ~orderly /\ Discard(w)
     \/ \E i \in Ids : OpenView(i)
     \/ \E i \in Ids \cup {0} : Strike(i)

LifecycleStep ==
  /\ UNCHANGED histVars
  /\ \/ \E r \in Tokens : Expire(r)
     \/ \E route \in Windows : Begin("shot", route)
     \/ \E m \in reports : Settle(m)

PageStep(w) ==
  \/ \E r \in RunIds : runs[r].route = w /\ Shoot(r) /\ Reloaded(w)
  \/ Load(w) /\ IF page'[w].at = "working" THEN \E k \in Weights : Appear(w, page[w].token, k)
                                           ELSE UNCHANGED histVars
  \/ Delivered(w)
  \/ Close(w) /\ Reloaded(w)

SessionNext ==
  \/ HistoryStep
  \/ /\ UNCHANGED closely
     /\ \/ ~closely /\ Next /\ UNCHANGED histVars
        \/ closely /\ LifecycleStep
        \/ closely /\ Settled /\ (UserStep \/ CrashApp \/ \E w \in Windows : PageStep(w))

\* As for the lifecycle; and what is begun with the history is gone on with, which for steps
\* that lead to finitely many others says as much as WF_sessionVars(HistoryStep).
SessionSpec ==
  /\ SessionInit /\ [][SessionNext]_sessionVars
  /\ Fairness /\ []<>~HistoryDue

-----------------------------------------------------------------------------
\* The invariants of the two parts.
SessionSound == Sound /\ HistoryKept
=============================================================================
