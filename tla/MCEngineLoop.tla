---------------------------- MODULE MCEngineLoop -----------------------------
(***************************************************************************)
(* The instance of EngineLoop that the runs check.                         *)
(***************************************************************************)
EXTENDS EngineLoop
M(p, b) == [pattern |-> p, body |-> b]
Typing == <<M(<<"a", "b">>, <<"X", "Y">>), M(<<Word, "b", Word>>, <<"Z">>),
            M(<<"b", "a">>, <<"P">>), M(<<"b", "a">>, <<"Q", "Q", "Q">>),
            M(<<"b", "a", "b">>, <<"never">>)>>

\* depends_on names h too, where it is needed.
V(n, k, needs) == [name |-> n, kind |-> k, of |-> << >>, needs |-> needs, reads |-> needs \ {"h"}]
Sub(n, t) == [name |-> n, kind |-> "match", of |-> Typing[t].pattern, needs |-> {}, reads |-> {}]
T(t, uses, has, vars_, p) ==
  [trigger |-> Typing[t].pattern, uses |-> uses, text |-> has, vars |-> vars_, propagates |-> p]

\* A body with a local and a global variable, one without variables, one that a cancelled
\* form aborts, one with a nested match, and one that nobody expands but as a nested match.
Bodies ==
  <<T(1, {"x", "g"}, TRUE, <<V("x", "plain", {"g", "h"})>>, FALSE),
    T(2, {}, TRUE, << >>, FALSE),
    T(3, {"x"}, TRUE, <<V("x", "aborts", {}), V("g", "global", {})>>, FALSE),
    T(4, {"x", "y"}, FALSE, <<Sub("x", 5), V("y", "empty", {"x"})>>, TRUE),
    T(5, {"g"}, FALSE, << >>, FALSE)>>

F(r, i, m, g) == [readable |-> r, imports |-> i, matches |-> m, globals |-> g]
MatchFiles ==
  [base    |-> F(TRUE, <<"extra", "gone", "five">>, <<1, 2, 3, 4>>, <<V("h", "plain", {})>>),
   extra   |-> F(TRUE, <<"base">>, << >>, <<V("g", "plain", {"h"})>>),
   gone    |-> F(FALSE, << >>, << >>, << >>),
   five    |-> F(TRUE, << >>, <<5>>, << >>),
   blanks  |-> F(TRUE, <<"five">>, << >>, <<V("g", "empty", {}), V("h", "unknown", {})>>),
   circle  |-> F(TRUE, <<"base">>, << >>, <<V("h", "plain", {"g"})>>),
   selfish |-> F(TRUE, <<"base">>, << >>, <<Sub("g", 5)>>)]
Setups == {<<"base">>, <<"blanks">>, <<"circle">>, <<"extra", "selfish">>, <<"extra">>, << >>}
=============================================================================
