----------------------------- MODULE Expansion ------------------------------
(***************************************************************************)
(* The expansion engine of a worker (espanso-engine): a detection thread   *)
(* numbers the keys as they are pressed, and the engine takes them one by  *)
(* one through its middlewares, may wait for a choice or for a form, and   *)
(* then injects backspaces and text where the user is typing.  The keys    *)
(* have changed the text when they are pressed; what the engine knows of   *)
(* the text is what the matcher made of the keys it was shown.             *)
(***************************************************************************)
EXTENDS RollingMatcher, Naturals, FiniteSets

CONSTANTS
  Letters,     \* what can be typed, separators included
  MaxHistory,  \* backspace_limit
  MaxKeys,     \* bound: keys pressed and switches thrown by a user who waits for the engine
  MaxRushed    \* bound: the same for one who does not

Backspace == "backspace"
Move == "move"       \* a key that puts the caret elsewhere (a click does the same while enabled)
Wall == "wall"       \* no pattern reaches across it
Keys == Letters \cup {Backspace, Move}

\* What a text consists of.
Ink == Letters \cup {"error"} \cup UNION {Range(Triggers[i].body) : i \in Ids}

ASSUME ExpansionConstants ==
  /\ MaxHistory \in Nat \ {0} /\ MaxKeys \in Nat /\ MaxRushed \in Nat
  /\ Separators \subseteq Letters /\ Letters \cap {Backspace, Move, Virtual} = {}
  /\ \A i \in Ids : Pattern(i) # << >> /\ Triggers[i].body \in Seq(Ink) \ {<< >>}

VARIABLES
  text,     \* what stands before the caret
  chan,     \* the keys that were detected and not received
  nextId,   \* the sequencer
  min, max, \* the discard thresholds
  states,   \* matcher_states: paths, and the place in the text of the key they heard last
  record,   \* the InjectionRecord: trigger and injected text, each a sequence of at most one
  phase,    \* the engine: "idle", "choosing", "rendering", "injecting"
  job,      \* the matches that were detected, with their trigger
  out,      \* what is left to inject: the backspaces, then the text
  enabled,
  presses,
  calm,     \* whether the user waits for the engine before going on
  blind,    \* whether the matcher's history has parted from the text
  seen,     \* the events since the matcher last started afresh, a Wall for a detected one
  barrier,  \* the number of the last injection
  before    \* the text as the last trigger was complete
typingVars == <<text, chan, nextId, min, max, states, record, phase, job, out, enabled, presses,
          calm, blind, seen, barrier, before>>

NoJob == [ids |-> {}, trigger |-> << >>, left |-> << >>, right |-> << >>, undo |-> FALSE, start |-> 0]
NoRecord == [trigger |-> << >>, injected |-> << >>]

TypingInit ==
  /\ text = << >> /\ chan = << >> /\ nextId = 1 /\ min = 0 /\ max = 0
  /\ states = << >> /\ record = NoRecord /\ phase = "idle" /\ job = NoJob /\ out = << >>
  /\ enabled = TRUE /\ presses = 0 /\ calm \in BOOLEAN /\ blind = FALSE
  /\ seen = <<Virtual>> /\ barrier = 0 /\ before = << >>

State == IF states = << >> THEN Unstarted ELSE Last(states).paths

\* The matcher has taken an event, whose character is at `at' in the text; only the last
\* MaxHistory states are kept.
Push(paths, at) ==
  LET all == Append(states, [paths |-> AfterEvent(paths), at |-> at])
  IN states' = IF Len(all) > MaxHistory THEN Tail(all) ELSE all

Shorter(s, n) == SubSeq(s, 1, IF n > Len(s) THEN 0 ELSE Len(s) - n)

-----------------------------------------------------------------------------
(***************************************************************************)
(* The user                                                                *)
(***************************************************************************)

AtRest == phase = "idle" /\ chan = << >>

\* A key goes to the window in front, which is the engine's while a choice is open; the
\* detection thread hears of it in either case.
Press(k) ==
  /\ presses < (IF calm THEN MaxKeys ELSE MaxRushed) /\ presses' = presses + 1
  /\ calm => AtRest
  /\ text' = IF phase = "choosing" THEN text
             ELSE IF k = Backspace THEN Shorter(text, 1)
             ELSE IF k = Move THEN << >>
             ELSE Append(text, k)
  /\ chan' = Append(chan, [key |-> k, id |-> nextId, at |-> Len(text),
                           choice |-> IF phase = "choosing" THEN job.start ELSE 0])
  /\ nextId' = nextId + 1
  /\ UNCHANGED <<min, max, states, record, phase, job, out, enabled, calm, blind, seen, barrier, before>>

\* The toggle key, the menu or a command
Toggle ==
  /\ presses < (IF calm THEN MaxKeys ELSE MaxRushed) /\ presses' = presses + 1
  /\ phase = "idle" /\ (calm => chan = << >>)
  /\ enabled' = ~enabled
  /\ UNCHANGED <<text, chan, nextId, min, max, states, record, phase, job, out, calm, blind, seen, barrier, before>>

-----------------------------------------------------------------------------
(***************************************************************************)
(* The engine                                                              *)
(***************************************************************************)

Key == Head(chan)
Stale(e) == min <= e.id /\ e.id < max

Receive == phase = "idle" /\ chan # << >> /\ chan' = Tail(chan)

\* EventsDiscardMiddleware
Discard ==
  /\ Receive /\ Stale(Key)
  /\ UNCHANGED <<text, nextId, min, max, states, record, phase, job, out, enabled, presses, calm, blind, seen, barrier, before>>

\* DisableMiddleware
Ignore ==
  /\ Receive /\ ~Stale(Key) /\ ~enabled
  /\ blind' = TRUE
  /\ UNCHANGED <<text, nextId, min, max, states, record, phase, job, out, enabled, presses, calm, seen, barrier, before>>

Taken == Receive /\ ~Stale(Key) /\ enabled

\* Mutant: a backspace is no event for the matcher.
ForgottenNothing == states
Forgotten == IF states = << >> THEN states ELSE Front(states)

\* The backspace that asks for the undo has deleted one character already.
\* Mutant: it has not been thought of.
UndoBackspacesAll == Len(record.injected[1])
UndoBackspaces == Len(record.injected[1]) - 1

\* The matcher forgets the last event, and an expansion that has just been made is undone.
TakeBackspace ==
  /\ Taken /\ Key.key = Backspace
  /\ states' = Forgotten
  /\ record' = NoRecord
  /\ seen' = IF Len(seen) = 1 THEN seen ELSE Front(seen)
  /\ IF record.injected # << >>
       THEN /\ out' = <<[back |-> UndoBackspaces, insert |-> << >>],
                        [back |-> 0, insert |-> record.trigger[1]]>>
            /\ phase' = "injecting" /\ job' = [job EXCEPT !.undo = TRUE]
            /\ UNCHANGED blind
       ELSE /\ blind' = (blind \/ (states # << >> /\ (Key.at = 0 \/ Last(states).at # Key.at))
                               \/ (Len(states) <= 1 /\ text # << >>))
            /\ UNCHANGED <<out, phase, job>>
  /\ UNCHANGED <<text, nextId, min, max, enabled, presses, calm, barrier, before>>

TakeMove ==
  /\ Taken /\ Key.key = Move
  /\ states' = << >> /\ record' = NoRecord
  /\ seen' = <<Virtual>> /\ blind' = FALSE
  /\ UNCHANGED <<text, nextId, min, max, phase, job, out, enabled, presses, calm, barrier, before>>

TakeLetter ==
  /\ Taken /\ Key.key \in Letters
  /\ LET paths == NextPaths(State, Key.key)
     IN /\ Push(paths, Key.at + 1)
        /\ IF Complete(paths) = {}
             THEN /\ seen' = Append(seen, Key.key) /\ record' = NoRecord
                  /\ UNCHANGED <<nextId, phase, job, out, before>>
             ELSE LET hit == FirstMatch(paths)
                      ids == MatchesAt(hit.node)
                  IN /\ job' = [ids |-> ids, trigger |-> hit.typed, left |-> hit.left,
                                right |-> hit.right, undo |-> FALSE,
                                start |-> IF Cardinality(ids) = 1 THEN 0 ELSE nextId]
                     /\ phase' = IF Cardinality(ids) = 1 THEN "rendering" ELSE "choosing"
                     /\ nextId' = IF Cardinality(ids) = 1 THEN nextId ELSE nextId + 1
                     /\ out' = << >> /\ seen' = Append(seen, Wall) /\ before' = text
                     /\ UNCHANGED record
  /\ UNCHANGED <<text, min, max, enabled, presses, calm, blind, barrier>>

\* MatchSelectMiddleware: what was pressed while the choice was open will be discarded.
\* Mutant: only what an injection sends is discarded.
CloseChoiceKept == nextId' = nextId + 1 /\ UNCHANGED <<min, max>>
CloseChoice == nextId' = nextId + 1 /\ min' = job.start /\ max' = nextId

Choose(i) ==
  /\ phase = "choosing" /\ i \in job.ids
  /\ CloseChoice /\ phase' = "rendering" /\ job' = [job EXCEPT !.ids = {i}]
  /\ UNCHANGED <<text, chan, states, record, out, enabled, presses, calm, blind, seen, barrier, before>>

CancelChoice ==
  /\ phase = "choosing" /\ CloseChoice /\ phase' = "idle"
  /\ UNCHANGED <<text, chan, states, record, job, out, enabled, presses, calm, blind, seen, barrier, before>>

\* TriggerCompensation: the trigger goes, the separator before it stays.
Compensation == [back |-> Len(job.trigger) - Len(job.left), insert |-> << >>]

\* The body is there: what was pressed meanwhile will be discarded, and the matcher is told
\* of a separator.
Rendered ==
  /\ phase = "rendering"
  /\ LET body == Triggers[CHOOSE i \in job.ids : TRUE].body \o job.right
     IN /\ out' = <<Compensation, [back |-> 0, insert |-> body]>>
        /\ record' = [trigger |-> <<job.trigger>>, injected |-> <<body>>]
  /\ Push(NextPaths(State, Virtual), 0)
  /\ max' = nextId /\ nextId' = nextId + 1 /\ barrier' = nextId
  /\ seen' = Append(seen, Virtual) /\ phase' = "injecting"
  /\ UNCHANGED <<text, chan, min, job, enabled, presses, calm, blind, before>>

\* A form was cancelled, or the body could not be made, which is said in its place: the
\* trigger goes all the same.
Said(aborted) == IF aborted THEN << >> ELSE <<[back |-> 0, insert |-> <<"error">>]>>
NotRendered(aborted) ==
  /\ phase = "rendering"
  /\ out' = <<Compensation>> \o Said(aborted)
  /\ record' = [trigger |-> <<job.trigger>>, injected |-> << >>]
  /\ phase' = "injecting"
  /\ UNCHANGED <<text, chan, nextId, min, max, states, job, enabled, presses, calm, blind, seen, barrier, before>>

Apply(o, s) == Shorter(s, o.back) \o o.insert

Inject ==
  /\ phase = "injecting" /\ out # << >>
  /\ text' = Apply(Head(out), text) /\ out' = Tail(out)
  /\ phase' = IF Len(out) = 1 THEN "idle" ELSE phase
  /\ UNCHANGED <<chan, nextId, min, max, states, record, job, enabled, presses, calm, blind, seen, barrier, before>>

TypingNext ==
  \/ \E k \in Keys : Press(k)
  \/ Toggle
  \/ Discard \/ Ignore \/ TakeBackspace \/ TakeMove \/ TakeLetter
  \/ \E i \in Ids : Choose(i)
  \/ CancelChoice \/ Rendered \/ Inject
  \/ \E aborted \in BOOLEAN : NotRendered(aborted)

TypingSpec == TypingInit /\ [][TypingNext]_typingVars

-----------------------------------------------------------------------------
\* What the matcher believes to have been typed stands before the caret, and so does the
\* trigger that is about to be deleted: whoever waits for the engine loses nothing else.
\* That is across expansions, undo, backspaces and the bound on the history, until a
\* backspace deletes something else than the matcher forgets, or a key goes unheard.
Believes ==
  calm /\ ~blind =>
    /\ AtRest /\ states # << >> => \A p \in Range(State) : IsSuffix(p.typed, text)
    /\ phase \in {"choosing", "rendering"} => IsSuffix(job.trigger, text)

\* The type invariant, with what the channel, the history and the thresholds keep to,
\* and what the matcher believes.
TypingSound ==
  /\ text \in Seq(Ink)
  /\ \A k \in DOMAIN chan : chan[k].key \in Keys /\ chan[k].id < nextId
  /\ \A j, k \in DOMAIN chan : j < k => chan[j].id < chan[k].id
  /\ Len(states) <= MaxHistory
  /\ \A k \in DOMAIN states : \A p \in Range(states[k].paths) :
       Has(p.node) /\ MatchesAt(p.node) = {}
  /\ phase \in {"idle", "choosing", "rendering", "injecting"}
  /\ job.ids \subseteq Ids /\ (phase = "injecting" <=> out # << >>)
  /\ min <= nextId /\ max <= nextId /\ barrier <= nextId
  /\ Believes

\* The reference: pattern i ends the events that the matcher has seen since it started
\* afresh; what it started with counts as a separator.
Fits(i, events) ==
  LET p == Pattern(i)
      tail == SubSeq(events, Len(events) - Len(p) + 1, Len(events))
  IN /\ Len(p) <= Len(events)
     /\ \A k \in DOMAIN p : IF p[k] = Word THEN IsSeparator(tail[k]) ELSE p[k] = tail[k]

\* A trigger is detected exactly when it has been typed, and the longest if there are
\* several.
Detects ==
  [][TakeLetter /\ calm /\ ~blind =>
       LET fit == {i \in InTree : Fits(i, Append(seen, Key.key))}
           longest == {i \in fit : \A j \in fit : Len(Pattern(j)) <= Len(Pattern(i))}
       IN IF fit = {} THEN phase' = "idle" ELSE phase' # "idle" /\ job'.ids = longest]_typingVars

\* Undoing an expansion leaves what the user had typed, unless the trigger came with a
\* separator before it, or a choice has been cancelled since.
Outcome(s) == Apply(out[2], Apply(out[1], s))
UndoRestores ==
  calm /\ ~blind /\ phase = "injecting" /\ job.undo /\ Len(out) = 2
    => (job.left = << >> /\ Cardinality(job.ids) = 1 => Outcome(text) = before)

\* What is typed into the window of a choice is no part of the text and never reaches the
\* matcher, unless another choice opened before the engine came to receive it.
ChoiceKeysDropped ==
  [][TakeLetter => Key.choice = 0 \/ Key.choice < min]_typingVars

\* What the comment on the discarding of events promises of all that waits in the channel
\* when an injection is decided on.
StuckKeysDropped ==
  [][TakeLetter => Key.id >= barrier]_typingVars
=============================================================================
