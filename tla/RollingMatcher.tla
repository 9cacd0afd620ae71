--------------------------- MODULE RollingMatcher ---------------------------
(***************************************************************************)
(* The incremental matcher of the expansion engine (espanso-match/rolling).*)
(* Its patterns are a tree; a state is the list of paths into the tree     *)
(* that the keys so far have opened, oldest first.  A node of the tree is  *)
(* here the sequence of items that leads to it.                            *)
(***************************************************************************)
EXTENDS SequencesExt

CONSTANTS
  Triggers,    \* sequence of [pattern, body]: the matches of the configuration
  Separators   \* the characters that separate words

\* RollingItem::WordSeparator; Event::VirtualSeparator; the state before the first key.
Word == "word"
Virtual == "virtual"
Unstarted == "unstarted"

Ids == DOMAIN Triggers
Pattern(i) == Triggers[i].pattern

\* A pattern that continues another one finds a match where it needs a node, or has its
\* node replaced by one: only what continues nothing is in the tree.
InTree == {i \in Ids : \A j \in Ids : ~IsStrictPrefix(Pattern(j), Pattern(i))}
Has(node) == \E i \in InTree : IsPrefix(node, Pattern(i))
MatchesAt(node) == {i \in InTree : Pattern(i) = node}

IsSeparator(e) == e = Virtual \/ e \in Separators

\* The children of a node that event e opens, each with whether as a word separator.
Opened(node, e) ==
  (IF e # Virtual /\ Has(Append(node, e)) THEN <<[node |-> Append(node, e), word |-> FALSE]>> ELSE << >>)
  \o (IF IsSeparator(e) /\ Has(Append(node, Word)) THEN <<[node |-> Append(node, Word), word |-> TRUE]>> ELSE << >>)

\* find_refs: nothing before the first key counts as a separator.
\* Mutant: it does not.
FindRefsStarted(node, e, started) == Opened(node, e)
FindRefs(node, e, started) ==
  Opened(node, e) \o (IF started \/ MatchesAt(Append(node, Word)) # {} THEN << >>
                      ELSE Opened(Append(node, Word), e))

\* A path: its node, the characters that led there and, of these, the separators at its two
\* ends; at first it is at the root.
Root == [node |-> << >>, typed |-> << >>, left |-> << >>, right |-> << >>]
Chars(e) == IF e = Virtual THEN << >> ELSE <<e>>
Extended(path, r, e) ==
  LET separator == IF r.word THEN Chars(e) ELSE << >>
  IN [node  |-> r.node,
      typed |-> path.typed \o Chars(e),
      left  |-> IF path = Root THEN separator ELSE path.left,
      right |-> IF path = Root THEN << >> ELSE separator]
Advance(path, e, started) ==
  [k \in DOMAIN FindRefs(path.node, e, started) |->
     Extended(path, FindRefs(path.node, e, started)[k], e)]

\* RollingMatcher::process: the paths after e, or the first of them that is a match.
NextPaths(state, e) ==
  (IF state = Unstarted THEN << >>
   ELSE FlattenSeq([k \in DOMAIN state |-> Advance(state[k], e, TRUE)]))
  \o Advance(Root, e, state # Unstarted)

Complete(paths) == {k \in DOMAIN paths : MatchesAt(paths[k].node) # {}}
FirstMatch(paths) == paths[CHOOSE k \in Complete(paths) : \A j \in Complete(paths) : k <= j]
AfterEvent(paths) == IF Complete(paths) = {} THEN paths ELSE << >>
=============================================================================
