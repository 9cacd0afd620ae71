----------------------------- MODULE EngineLoop ------------------------------
(***************************************************************************)
(* The engine of a worker with its renderer: what the engine takes for the *)
(* outcome of a rendering is what the renderer made of the match, in the   *)
(* configuration of the application that had the focus when it began.      *)
(***************************************************************************)
EXTENDS Expansion, Rendering

CONSTANT MaxDetailed  \* bound: keys pressed if renderings are gone through step by step

ASSUME EngineLoopConstants ==
  /\ Templates = Ids /\ MaxDetailed \in Nat
  /\ \A i \in Ids : Library[i].trigger = Triggers[i].pattern

VARIABLE detailed  \* whether they are; otherwise they may come to anything
loopVars == <<typingVars, renderVars, detailed>>

LoopInit == TypingInit /\ RenderInit /\ detailed \in BOOLEAN /\ (detailed => calm)

\* The renderer reads nothing that a key changes, so a key that is pressed while it works
\* is taken for one that was pressed before.
MayPress == walk = << >> /\ (detailed => presses < MaxDetailed)

\* Everything else that the engine and the user do.
NotRendering ==
  /\ \/ MayPress /\ \E k \in Keys : Press(k)
     \/ MayPress /\ Toggle
     \/ Discard \/ Ignore \/ TakeBackspace \/ TakeMove \/ TakeLetter
     \/ \E i \in Ids : Choose(i)
     \/ CancelChoice \/ Inject
  /\ UNCHANGED <<renderVars, detailed>>

AskRenderer ==
  /\ phase = "rendering" /\ detailed
  /\ \E i \in job.ids, c \in Configs, s \in {"none", "capital"} : Request(i, c, s)
  /\ UNCHANGED <<typingVars, detailed>>

Render == RenderNext /\ UNCHANGED <<typingVars, detailed>>

\* RenderMiddleware; of a panic or an overflow of the stack there is nobody left to hear.
Comes(verdict) == detailed => result.verdict = verdict
Answer ==
  /\ \/ Comes("success") /\ Rendered
     \/ Comes("aborted") /\ NotRendered(TRUE)
     \/ Comes("error") /\ NotRendered(FALSE)
  /\ result' = NoResult /\ UNCHANGED <<walk, calls, detailed>>

LoopNext == NotRendering \/ AskRenderer \/ Render \/ Answer
LoopSpec == LoopInit /\ [][LoopNext]_loopVars

\* The invariants of the two parts.
LoopSound == TypingSound /\ RenderSound
=============================================================================
