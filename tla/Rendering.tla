------------------------------ MODULE Rendering -------------------------------
(***************************************************************************)
(* The making of a body in the expansion engine (espanso-render, and the   *)
(* match store of espanso-config that it takes global variables from).     *)
(* The match files of the active configuration are walked for their global *)
(* variables; the variables that a body needs are put into an order by a   *)
(* depth-first search, evaluated one after the other and put into it.  A   *)
(* variable may itself be a match, which is rendered first.  The search    *)
(* takes the dependencies of a variable from a hash set, in any order.     *)
(* What a value is does not matter, only that it is there and not empty.   *)
(***************************************************************************)
EXTENDS SequencesExt, Naturals, FiniteSets

CONSTANTS
  Names,      \* names of variables
  Templates,  \* the matches
  Library,    \* for each match: its trigger, the names in its body, whether there is
              \* text in the body, its local variables, whether it propagates case
  Files,      \* for each match file: whether it can be read, the files it imports, its
              \* matches and its global variables
  Configs,    \* the configurations, each the match files of an application
  MaxDepth    \* bound: nested renderings that the stack of the thread has room for

\* A variable: what its evaluation comes to, the trigger of the match it stands for, the
\* names that it depends on and those of them that go into its parameters.  A match has an
\* id of its own, so it is in one file, and there once.
MatchBody == "__match_body"
Kinds == {"plain", "empty", "fails", "aborts", "unknown", "match", "global"}
Variables ==
  {v \in [name : Names, kind : Kinds, of : {Library[t].trigger : t \in Templates} \cup {<< >>},
          needs : SUBSET Names, reads : SUBSET Names] : v.reads \subseteq v.needs}

ASSUME RenderingConstants ==
  /\ MatchBody \notin Names
  /\ IsFiniteSet(Templates) /\ MaxDepth \in Nat /\ MaxDepth > Cardinality(Templates)
  /\ \A t \in Templates :
       Library[t].uses \in SUBSET Names /\ Library[t].vars \in Seq(Variables)
  /\ \A f \in DOMAIN Files :
       /\ Files[f].globals \in Seq(Variables) /\ Files[f].matches \in Seq(Templates)
       /\ Files[f].imports \in Seq(DOMAIN Files) /\ Files[f].readable \in BOOLEAN
  /\ \A f, g \in DOMAIN Files :
       \A j \in DOMAIN Files[f].matches, k \in DOMAIN Files[g].matches :
         Files[f].matches[j] = Files[g].matches[k] => f = g /\ j = k
  /\ \A c \in Configs : c \in Seq(DOMAIN Files)

VARIABLES
  walk,    \* the walk through the match files, a sequence of at most one
  calls,   \* the renderings under way, each for a variable of the one before it
  result   \* what the last one came to
renderVars == <<walk, calls, result>>

NoResult == [verdict |-> "none"]
RenderInit == walk = << >> /\ calls = << >> /\ result = NoResult

-----------------------------------------------------------------------------
(***************************************************************************)
(* The match files of a configuration                                      *)
(***************************************************************************)

\* RendererAdapter::render: the application that has the focus now decides on the files.
\* Case is propagated if the match says so and the trigger was typed with a capital.
Request(t, config, style) ==
  /\ walk = << >> /\ calls = << >> /\ result = NoResult
  /\ style = "capital" => Library[t].propagates
  /\ walk' = <<[of |-> t, config |-> config, style |-> style, left |-> config, visited |-> {},
                open |-> << >>, globals |-> << >>, templates |-> << >>]>>
  /\ UNCHANGED <<calls, result>>

Walk == walk[1]

\* query_matches_for_paths, at the next path: what a file imports comes before what is in it.
VisitPath ==
  /\ walk # << >> /\ Walk.left # << >>
  /\ LET f == Head(Walk.left)
         rest == Tail(Walk.left)
     IN walk' = IF f \notin Walk.visited /\ Files[f].readable
                  THEN <<[Walk EXCEPT !.left = Files[f].imports, !.visited = @ \cup {f},
                                      !.open = Append(@, [file |-> f, left |-> rest])]>>
                  ELSE <<[Walk EXCEPT !.left = rest, !.visited = @ \cup {f}]>>
  /\ UNCHANGED <<calls, result>>

CloseFile ==
  /\ walk # << >> /\ Walk.left = << >> /\ Walk.open # << >>
  /\ LET o == Last(Walk.open)
     IN walk' = <<[Walk EXCEPT !.left = o.left, !.open = Front(@),
                               !.globals = @ \o Files[o.file].globals,
                               !.templates = @ \o Files[o.file].matches]>>
  /\ UNCHANGED <<calls, result>>

-----------------------------------------------------------------------------
(***************************************************************************)
(* The graph of one template                                               *)
(***************************************************************************)

\* Of several variables of a name in a sequence the last one counts.
Place(vars_, n) ==
  CHOOSE k \in DOMAIN vars_ :
    vars_[k].name = n /\ \A j \in DOMAIN vars_ : vars_[j].name = n => j <= k
Holds(vars_, n) == \E k \in DOMAIN vars_ : vars_[k].name = n

\* A local variable of type "global" stands for the global one of that name, if there is one.
Locals(ctx, t) ==
  LET vars_ == Library[t].vars
      known == {k \in DOMAIN vars_ : vars_[k].kind = "global" => Holds(ctx.globals, vars_[k].name)}
      Meant(v) == IF v.kind = "global" THEN ctx.globals[Place(ctx.globals, v.name)] ELSE v
  IN [i \in 1..Cardinality(known) |->
       Meant(vars_[CHOOSE k \in known : Cardinality({j \in known : j <= k}) = i])]

\* Local variables hide global ones.
IsNode(ctx, t, n) == Holds(Locals(ctx, t), n) \/ Holds(ctx.globals, n)
Variable(ctx, t, n) ==
  IF Holds(Locals(ctx, t), n) THEN Locals(ctx, t)[Place(Locals(ctx, t), n)]
  ELSE ctx.globals[Place(ctx.globals, n)]

BodyNeeds(ctx, t) == Library[t].uses \cup {v.name : v \in Range(Locals(ctx, t))}

\* Every local variable depends on the one before it, the body on all of them.
Deps(ctx, t, n) ==
  IF n = MatchBody THEN BodyNeeds(ctx, t)
  ELSE LET local == Locals(ctx, t)
       IN Variable(ctx, t, n).needs \cup
            (IF Holds(local, n) /\ Place(local, n) > 1 THEN {local[Place(local, n) - 1].name} ELSE {})

-----------------------------------------------------------------------------
(***************************************************************************)
(* The rendering                                                           *)
(***************************************************************************)

\* A body without variables is taken as it is, whatever local variables there are.
Begun(ctx, t) ==
  LET plain == Library[t].uses = {}
  IN [of |-> t, next |-> 1, scope |-> {}, empty |-> {}, seen |-> {MatchBody},
      path |-> IF plain THEN << >> ELSE <<[name |-> MatchBody, left |-> Deps(ctx, t, MatchBody)]>>,
      order |-> IF plain THEN <<MatchBody>> ELSE << >>]

StartRendering ==
  /\ walk # << >> /\ Walk.left = << >> /\ Walk.open = << >> /\ calls = << >> /\ result = NoResult
  /\ calls' = <<Begun(Walk, Walk.of)>>
  /\ UNCHANGED <<walk, result>>

Call == Last(calls)
Go(call) == calls' = Append(Front(calls), call) /\ UNCHANGED <<walk, result>>
Return(verdict) ==
  /\ calls' = << >> /\ walk' = << >>
  /\ result' = [verdict |-> verdict, of |-> Walk]

\* resolve_dependencies, at the node that the search has come to
Node == Last(Call.path)
Searching == calls # << >> /\ Call.path # << >>

\* What has been seen and is not resolved is on the path: a circle.
\* Mutant: whatever has been seen is a circle.
CircularSeen(n) == n \in Call.seen
Circular(n) == n \in Call.seen /\ n \notin Range(Call.order)

Follow(n) ==
  /\ Searching /\ n \in Node.left
  /\ LET took == [Call.path EXCEPT ![Len(Call.path)].left = @ \ {n}]
     IN CASE Circular(n) -> Return("error")
          [] ~Circular(n) /\ n \in Call.seen -> Go([Call EXCEPT !.path = took])
          [] n \notin Call.seen /\ ~IsNode(Walk, Call.of, n) -> Return("error")
          [] n \notin Call.seen /\ IsNode(Walk, Call.of, n) ->
               Go([Call EXCEPT !.path = Append(took, [name |-> n, left |-> Deps(Walk, Call.of, n)]),
                               !.seen = @ \cup {n}])

Resolve ==
  /\ Searching /\ Node.left = {}
  /\ Go([Call EXCEPT !.path = Front(@), !.order = Append(@, Node.name)])

\* DefaultRenderer::render, past the search
Ordered == calls # << >> /\ Call.path = << >>
Name == Call.order[Call.next]
Var == Variable(Walk, Call.of, Name)
Pending == Ordered /\ Name # MatchBody

Valued(call, empty) ==
  LET n == call.order[call.next]
  IN [call EXCEPT !.scope = @ \cup {n}, !.empty = IF empty THEN @ \cup {n} ELSE @, !.next = @ + 1]

\* get_matching_template: the first of the configuration's matches that has the trigger
Named(ctx, v) == {k \in DOMAIN ctx.templates : Library[ctx.templates[k]].trigger = v.of}
Nested(ctx, v) == v.kind = "match" /\ Named(ctx, v) # {}
Inner(ctx, v) == ctx.templates[CHOOSE k \in Named(ctx, v) : \A j \in Named(ctx, v) : k <= j]

\* It is rendered first, however deep in.
Descend ==
  /\ Pending /\ Nested(Walk, Var)
  /\ IF Len(calls) = MaxDepth THEN Return("overflow")
     ELSE calls' = Append(calls, Begun(Walk, Inner(Walk, Var))) /\ UNCHANGED <<walk, result>>

\* A variable of a type that there is no extension for gets no value, and that is all.
Skip ==
  /\ Pending /\ Var.kind \in {"unknown", "global"}
  /\ Go([Call EXCEPT !.next = @ + 1])

Evaluate ==
  /\ Pending /\ Var.kind \notin {"unknown", "global"} /\ ~Nested(Walk, Var)
  /\ CASE Var.kind \in {"match", "fails"} \/ ~(Var.reads \subseteq Call.scope) -> Return("error")
       [] Var.kind = "aborts" /\ Var.reads \subseteq Call.scope -> Return("aborted")
       [] Var.kind \in {"plain", "empty"} /\ Var.reads \subseteq Call.scope ->
            Go(Valued(Call, Var.kind = "empty"))

\* The variables are put into the body and its first letter is made a capital, which an
\* empty body does not have; the body of a nested match is the value of its variable.
Empty == ~Library[Call.of].text /\ Library[Call.of].uses \subseteq Call.empty

FillIn ==
  /\ Ordered /\ Name = MatchBody
  /\ IF ~(Library[Call.of].uses \subseteq Call.scope) THEN Return("error")
     ELSE IF Walk.style = "capital" /\ Empty THEN Return("panic")
     ELSE IF Len(calls) = 1 THEN Return("success")
     ELSE /\ calls' = Append(SubSeq(calls, 1, Len(calls) - 2), Valued(calls[Len(calls) - 1], Empty))
          /\ UNCHANGED <<walk, result>>

RenderNext ==
  \/ VisitPath \/ CloseFile \/ StartRendering
  \/ \E n \in Names : Follow(n)
  \/ Resolve \/ Descend \/ Skip \/ Evaluate \/ FillIn

-----------------------------------------------------------------------------
(***************************************************************************)
(* What the search and the walk keep to                                    *)
(***************************************************************************)

\* What is in all of some parts of a universe: the least of them, if that is one of them.
Least(universe, parts) == {x \in universe : \A s \in parts : x \in s}

\* The files that a configuration reaches.
Reached(config) ==
  Least(DOMAIN Files,
        {s \in SUBSET DOMAIN Files :
           /\ Range(config) \subseteq s
           /\ \A f \in s : Files[f].readable => Range(Files[f].imports) \subseteq s})
Readable(config) == {f \in Reached(config) : Files[f].readable}

\* Every file that can be reached has given what is in it once, and nothing else has.
FilesOf == [c \in Configs |-> Readable(c)]
Gathered ==
  LET files == FilesOf[Walk.config]
  IN calls # << >> =>
       /\ Range(Walk.templates) = UNION {Range(Files[f].matches) : f \in files}
       /\ Len(Walk.templates) = Cardinality(Range(Walk.templates))
       /\ Range(Walk.globals) = UNION {Range(Files[f].globals) : f \in files}

\* A variable comes after all that it depends on, local ones in the order they are written.
InOrder ==
  calls # << >> /\ Library[Call.of].uses # {} =>
    LET order == Call.order
        local == Locals(Walk, Call.of)
        Before(m, n) == \E j, k \in DOMAIN order : j < k /\ order[j] = m /\ order[k] = n
    IN /\ \A n \in Range(order) : \A m \in Deps(Walk, Call.of, n) : Before(m, n)
       /\ \A j, k \in DOMAIN local :
            j < k /\ local[k].name \in Range(order) => Before(local[j].name, local[k].name)
       /\ Len(order) = Cardinality(Range(order))

RenderSound ==
  /\ Len(walk) <= 1 /\ (calls # << >> => walk # << >>) /\ Len(calls) <= MaxDepth
  /\ result.verdict \in {"none", "success", "aborted", "error", "overflow", "panic"}
  /\ \A d \in DOMAIN calls :
       /\ calls[d].scope \subseteq Range(calls[d].order)
       /\ \A k \in DOMAIN calls[d].path :
            calls[d].path[k].name \in calls[d].seen \ Range(calls[d].order)
  /\ Gathered /\ InOrder

-----------------------------------------------------------------------------
(***************************************************************************)
(* The reference: which bodies can be made                                 *)
(***************************************************************************)

\* The names that a body needs, directly or not.
Needed(ctx, t) ==
  IF Library[t].uses = {} THEN {}
  ELSE Least(Names,
         {s \in SUBSET Names :
            /\ Deps(ctx, t, MatchBody) \subseteq s
            /\ \A n \in s : IsNode(ctx, t, n) => Deps(ctx, t, n) \subseteq s})

\* Each match with the names that it needs and that there is a variable for, and those of
\* them that will have a value, unless something is wrong.
Found(ctx) ==
  UNION {{<<t, n>> : n \in {n \in Needed(ctx, t) : IsNode(ctx, t, n)}} : t \in Templates}
Of(ctx, p) == Variable(ctx, p[1], p[2])
Given(ctx) == {p \in Found(ctx) : Of(ctx, p).kind \notin {"unknown", "global"}}

\* Each match with those that stand in its body; and all that are in it, however deep.
Parts(ctx) ==
  {<<p[1], Inner(ctx, Of(ctx, p))>> : p \in {p \in Found(ctx) : Nested(ctx, Of(ctx, p))}}
Inside(parts, t) ==
  Least(Templates, {s \in SUBSET Templates : \A q \in parts : q[1] \in s \cup {t} => q[2] \in s})

\* The bodies that are not empty, if they can be made: those with text in them, or with a
\* plain value, and those that these stand in.
Used(ctx) == {p \in Found(ctx) : p[2] \in Library[p[1]].uses}
Lettered(ctx) ==
  {t \in Templates : Library[t].text} \cup {p[1] : p \in {p \in Used(ctx) : Of(ctx, p).kind = "plain"}}
Fillings(ctx) == {<<p[1], Inner(ctx, Of(ctx, p))>> : p \in {p \in Used(ctx) : Nested(ctx, Of(ctx, p))}}
Spread(from, along) ==
  Least(Templates, {s \in SUBSET Templates : from \subseteq s /\ \A q \in along : q[2] \in s => q[1] \in s})
Inked(ctx) == Spread(Lettered(ctx), Fillings(ctx))

\* All that is needed is there, and of any part of it something needs nothing of that part.
Orderable(ctx, t) ==
  /\ \A n \in Needed(ctx, t) : IsNode(ctx, t, n)
  /\ \A s \in (SUBSET Needed(ctx, t)) \ {{}} : \E n \in s : Deps(ctx, t, n) \cap s = {}

\* The bodies that nothing is wrong with, apart from those that are in them.
Fit(ctx) ==
  LET given == Given(ctx)
  IN {t \in IF ctx.style = "capital" THEN Inked(ctx) ELSE Templates :
       /\ Orderable(ctx, t)
       /\ \A n \in Library[t].uses : <<t, n>> \in given
       /\ \A p \in given : p[1] = t =>
            LET v == Of(ctx, p)
            IN Nested(ctx, v) \/ (v.kind \in {"plain", "empty"} /\ \A n \in v.reads : <<t, n>> \in given)}

\* All that is in what is asked for, itself included; and what of it is inside itself.
All(ctx) == {ctx.of} \cup Inside(Parts(ctx), ctx.of)
Selfish(parts, all) == {t \in all : t \in Inside(parts, t)}

\* A verdict with what can be said for it.
Justified(verdict, ctx, all, selfish) ==
  /\ verdict = "success" <=> all \subseteq Fit(ctx) /\ selfish = {}
  /\ verdict = "aborted" => \E p \in Found(ctx) : p[1] \in all /\ Of(ctx, p).kind = "aborts"
  /\ verdict = "overflow" => selfish # {}
  /\ verdict = "panic" => ctx.style = "capital" /\ ~(all \subseteq Inked(ctx))
Exact(verdict, ctx) == Justified(verdict, ctx, All(ctx), Selfish(Parts(ctx), All(ctx)))

\* Whether a body is made depends on the match, the configuration and the case alone, and
\* never on the order that the search happens to take; what is cut short or stops the
\* engine has a reason in what was to be rendered (renderer/mod.rs, renderer/resolve.rs).
VerdictExact == result # NoResult => Exact(result.verdict, result.of)
=============================================================================
