----------------------------- MODULE FormBridge -----------------------------
(***************************************************************************)
(* Form snippets (src-tauri/src/bridge.rs, ui/form/form.js).  The engine   *)
(* finds a form trigger and blocks on the application's socket; a handler  *)
(* task stashes what the form needs, has the form window built anew, and   *)
(* waits for the page to submit or cancel, or for its timeout.  Handlers,  *)
(* the main thread's event loop, the page and the commands it sends all    *)
(* run side by side, and the window and the stash are shared by name.      *)
(* Popups, which are answered at once, and the filling of the template are *)
(* left out, and so are triggers of disabled snippets, which change nothing*)
(***************************************************************************)
EXTENDS Integers, Sequences, FiniteSets

CONSTANTS
  MaxForms,     \* bound: form triggers in one behaviour
  MaxKills      \* bound: times the engine is killed while it waits and started again

ASSUME FormConstants == MaxForms \in Nat /\ MaxKills \in Nat

\* Requests are numbered as they are made (the code draws a UUID for each); 0 is none,
\* and the empty requestId of a page that has not taken its payload.
Requests == 1..MaxForms
None == 0
RequestOrNone == Requests \cup {None}

VARIABLES
  asking,   \* the request the engine is blocked on
  handler,  \* handler[r]: "none", "polling" for the old window, "waiting", "done"
  pending,  \* pending_forms: the requests whose sender is kept
  told,     \* told[r]: what was sent to the handler of r
  stash,    \* pending_payloads["form"]: the request whose payload is stashed
  tasks,    \* the requests whose open_surface is queued on the main thread
  window,   \* the window labelled "form" and the page in it
  calls,    \* commands of pages that are on their way
  kills,
  prompt    \* whether, in this behaviour, commands and closed windows are dealt with before
            \* anything that takes a user or a timer, pages load before they are closed, and
            \* the engine lives.  The pauses of 25 ms and 250 ms are there to make it so.

formVars == <<asking, handler, pending, told, stash, tasks, window, calls, kills, prompt>>

NoWindow == [up |-> "none", shows |-> None, resolved |-> FALSE, closing |-> FALSE]
Call(op, r) == [op |-> op, req |-> r, at |-> "sent"]

FormTypeOK ==
  /\ asking \in RequestOrNone /\ stash \in RequestOrNone
  /\ handler \in [Requests -> {"none", "polling", "waiting", "done"}]
  /\ pending \subseteq Requests
  /\ told \in [Requests -> {"none", "text", "cancelled"}]
  /\ tasks \in Seq(Requests)
  /\ window \in [up : {"none", "loading", "ready"}, shows : RequestOrNone,
                 resolved : BOOLEAN, closing : BOOLEAN]
  /\ calls \subseteq [op : {"submit", "cancel"}, req : RequestOrNone, at : {"sent", "beat"}]
  /\ kills \in 0..MaxKills /\ prompt \in BOOLEAN

FormInit ==
  /\ asking = None /\ stash = None /\ kills = 0 /\ prompt \in BOOLEAN
  /\ handler = [r \in Requests |-> "none"]
  /\ pending = {} /\ calls = {} /\ tasks = <<>>
  /\ told = [r \in Requests |-> "none"]
  /\ window = NoWindow

Quiet == calls = {} /\ tasks = <<>> /\ ~window.closing

\* close(): a request to the event loop, which destroys the window later.
Closed(w) == IF w.up = "none" THEN w ELSE [w EXCEPT !.closing = TRUE]

\* BridgeState::resolve
resolve(r, reply) ==
  IF r \in pending
  THEN /\ pending' = pending \ {r}
       /\ told' = IF handler[r] = "done" THEN told ELSE [told EXCEPT ![r] = reply]
  ELSE UNCHANGED <<pending, told>>

(***************************************************************************)
(* The handler.                                                            *)
(***************************************************************************)
\* Whether the handler must have an old form closed, and wait for it, before it opens its own.
MustClose(w) == w.up /= "none"

\* The engine finds a trigger: process() and open_with_payload() up to the first sleep.
AskForm(r) ==
  /\ asking = None
  /\ handler[r] = "none" /\ \A q \in 1..r - 1 : handler[q] /= "none"
  /\ prompt => Quiet
  /\ asking' = r
  /\ pending' = pending \cup {r}
  /\ stash' = r
  /\ IF MustClose(window)
     THEN /\ window' = Closed(window)
          /\ handler' = [handler EXCEPT ![r] = "polling"]
          /\ UNCHANGED tasks
     ELSE /\ handler' = [handler EXCEPT ![r] = "waiting"]
          /\ tasks' = Append(tasks, r)
          /\ UNCHANGED window
  /\ UNCHANGED <<told, calls, kills, prompt>>

\* The old window is gone, or a second has passed and it is still there.
Polled(r) ==
  /\ handler[r] = "polling"
  /\ prompt => window.up = "none" /\ calls = {}
  /\ handler' = [handler EXCEPT ![r] = "waiting"]
  /\ tasks' = Append(tasks, r)
  /\ UNCHANGED <<asking, pending, told, stash, window, calls, kills, prompt>>

\* The handler writes its answer; only an engine that still waits reads it.
Reply(r) ==
  /\ handler' = [handler EXCEPT ![r] = "done"]
  /\ asking' = IF asking = r THEN None ELSE asking

Answer(r) ==
  /\ handler[r] = "waiting" /\ told[r] /= "none"
  /\ Reply(r)
  /\ UNCHANGED <<pending, told, stash, tasks, window, calls, kills, prompt>>

NeverExpires(r) == FALSE  \* (mutant)
MayExpire(r) == handler[r] = "waiting" /\ told[r] = "none"

\* FORM_TIMEOUT: the sender is dropped, the window stays.
Timeout(r) ==
  /\ MayExpire(r)
  /\ prompt => Quiet /\ window.up = "ready"
  /\ Reply(r)
  /\ pending' = pending \ {r}
  /\ UNCHANGED <<told, stash, tasks, window, calls, kills, prompt>>

\* The supervisor kills the engine, whose successor waits for nothing.
EngineRestarts ==
  /\ ~prompt /\ asking /= None /\ kills < MaxKills
  /\ kills' = kills + 1
  /\ asking' = None
  /\ UNCHANGED <<handler, pending, told, stash, tasks, window, calls, prompt>>

(***************************************************************************)
(* The main thread.                                                        *)
(***************************************************************************)
\* open_surface: with the label still taken the old window is asked to close and
\* building the new one fails.
OpenSurface ==
  /\ tasks /= <<>>
  /\ tasks' = Tail(tasks)
  /\ window' = IF window.up = "none" THEN [NoWindow EXCEPT !.up = "loading"] ELSE Closed(window)
  /\ UNCHANGED <<asking, handler, pending, told, stash, calls, kills, prompt>>

UnloadNothing(w) == {}  \* (mutant)
Unload(w) == IF w.resolved THEN {} ELSE {Call("cancel", w.shows)}

\* The event loop destroys a window that was asked to close; its page's beforeunload
\* cancels, unless the page has already answered.
Destroy ==
  /\ window.up /= "none" /\ window.closing
  /\ prompt => \A c \in calls : c.at = "beat"
  /\ window' = NoWindow
  /\ calls' = calls \cup Unload(window)
  /\ UNCHANGED <<asking, handler, pending, told, stash, tasks, kills, prompt>>

\* take_pending_payload, and the page shows what it got.
Load ==
  /\ window.up = "loading"
  /\ window' = [window EXCEPT !.up = "ready", !.shows = stash]
  /\ stash' = None
  /\ UNCHANGED <<asking, handler, pending, told, tasks, calls, kills, prompt>>

\* form_cancel
form_cancel(c) ==
  /\ c \in calls /\ c.op = "cancel"
  /\ resolve(c.req, "cancelled")
  /\ window' = Closed(window)
  /\ calls' = calls \ {c}
  /\ UNCHANGED <<asking, handler, stash, tasks, kills, prompt>>

\* form_submit: closes the window, gives it a beat to go, then resolves.
SubmitCloses(c) ==
  /\ c \in calls /\ c.op = "submit" /\ c.at = "sent"
  /\ window' = Closed(window)
  /\ calls' = (calls \ {c}) \cup {[c EXCEPT !.at = "beat"]}
  /\ UNCHANGED <<asking, handler, pending, told, stash, tasks, kills, prompt>>

BeatSkipped(c) == c.at \in {"sent", "beat"}  \* (mutant)
BeatOver(c) == c.at = "beat" /\ (prompt => ~window.closing)

SubmitResolves(c) ==
  /\ c \in calls /\ c.op = "submit" /\ BeatOver(c)
  /\ resolve(c.req, "text")
  /\ calls' = calls \ {c}
  /\ UNCHANGED <<asking, handler, stash, tasks, window, kills, prompt>>

(***************************************************************************)
(* The user at the page.                                                   *)
(***************************************************************************)
Submit ==
  /\ window.up = "ready" /\ window.shows /= None /\ ~window.resolved
  /\ prompt => ~window.closing
  /\ window' = [window EXCEPT !.resolved = TRUE]
  /\ calls' = calls \cup {Call("submit", window.shows)}
  /\ UNCHANGED <<asking, handler, pending, told, stash, tasks, kills, prompt>>

\* Esc or the button, which work before the payload has come.
Cancel ==
  /\ window.up /= "none" /\ ~window.resolved
  /\ prompt => window.up = "ready" /\ ~window.closing
  /\ window' = [window EXCEPT !.resolved = TRUE]
  /\ calls' = calls \cup {Call("cancel", window.shows)}
  /\ UNCHANGED <<asking, handler, pending, told, stash, tasks, kills, prompt>>

UserCloses ==
  /\ window.up /= "none" /\ ~window.closing
  /\ prompt => window.up = "ready"
  /\ window' = Closed(window)
  /\ UNCHANGED <<asking, handler, pending, told, stash, tasks, calls, kills, prompt>>

FormNext ==
  \/ \E r \in Requests : AskForm(r) \/ Polled(r) \/ Answer(r) \/ Timeout(r)
  \/ EngineRestarts \/ OpenSurface \/ Destroy \/ Load
  \/ \E c \in calls : form_cancel(c) \/ SubmitCloses(c) \/ SubmitResolves(c)
  \/ Submit \/ Cancel \/ UserCloses

FormSpec == FormInit /\ [][FormNext]_formVars

\* Tasks are polled, the event loop turns, timers fire.  The user need not do anything.
FormFairSpec ==
  /\ FormSpec
  /\ \A r \in Requests : WF_formVars(Polled(r)) /\ WF_formVars(Answer(r)) /\ WF_formVars(Timeout(r))
  /\ WF_formVars(OpenSurface) /\ WF_formVars(Destroy) /\ WF_formVars(Load)
  /\ WF_formVars(\E c \in calls : form_cancel(c))
  /\ WF_formVars(\E c \in calls : SubmitCloses(c))
  /\ WF_formVars(\E c \in calls : SubmitResolves(c))

(***************************************************************************)
(* Properties.                                                             *)
(***************************************************************************)
\* When things are prompt: while a handler waits there is something that can answer it - its
\* form is being built or shows its request, or an answer is on its way.  The engine never
\* hangs on a form that nobody can see until the timeout releases it.
Answerable ==
  prompt => \A r \in Requests : MayExpire(r) =>
    /\ r \in pending
    /\ \/ stash = r /\ (tasks /= <<>> \/ window.up = "loading")
       \/ window.shows = r /\ ~window.resolved
       \/ \E c \in calls : c.req = r

\* A form that can be filled in while the engine waits is the form of the expansion it
\* waits for, not one that an earlier expansion left open.
FreshForm ==
  prompt /\ asking /= None /\ handler[asking] = "waiting" /\ window.up = "ready" =>
    window.shows = asking

\* The type invariant, with what open_with_payload() and open_surface() show.
FormSound == FormTypeOK /\ Answerable /\ FreshForm

\* When the engine reads a submitted text the form it was typed in is gone: what the
\* engine injects does not land in the form.
GoneBeforeAnswer ==
  [][\A r \in Requests :
       prompt /\ asking = r /\ asking' = None /\ handler'[r] = "done" /\ told[r] = "text" =>
         window.shows /= r]_formVars

\* The engine is never left waiting: whatever the page does, the handler answers.
Answered == \A r \in Requests : asking = r ~> asking /= r
=============================================================================
