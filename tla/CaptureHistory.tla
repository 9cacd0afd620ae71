--------------------------- MODULE CaptureHistory ---------------------------
(***************************************************************************)
(* The history of captures (src-tauri/src/history.rs) and the pages that   *)
(* write to it (ui/editor): a table, two PNGs per row, and pages that keep *)
(* what they show and the row they saved it to.  A page takes a snapshot,  *)
(* encodes it, and sends a command; the main thread handles one command    *)
(* after the other; each is several steps on disk, any of which may fail.  *)
(***************************************************************************)
EXTENDS Integers, Sequences, FiniteSets

CONSTANTS
  Times,     \* when captures are taken; one at a time
  Weights,   \* what the files of a capture may take
  Limits,    \* the caps that the settings may say, history_max_count and history_max_bytes
  MaxIds,    \* bound: rows ever inserted
  MaxDeeds   \* bound: acts of the user in the pages and the history, errors, crashes

ASSUME HistoryConstants ==
  /\ Times \subseteq Nat \ {0} /\ Weights \subseteq Nat \ {0}
  /\ Limits \subseteq [count : Nat, bytes : Nat] /\ MaxIds \in Nat /\ MaxDeeds \in Nat

Ids == 1..MaxIds
Pages == {"editor", "silent", "view"}   \* "view" is a window on a row of the history
Images == {"full", "thumb"}
Tables == {"rows"} \cup Images
Nothing == -1
Versions == Nothing..MaxDeeds           \* of a picture or a note; 0 is what was captured

NoRow == [time |-> 0, weight |-> 0, of |-> Nothing, note |-> Nothing]
NoDoc == [open |-> FALSE, time |-> 0, weight |-> 0, id |-> 0, saver |-> "no",
          content |-> Nothing, note |-> Nothing, told |-> Nothing, owes |-> {}]

VARIABLES
  store,     \* store.rows[id], and the images, full[id] and thumb[id]
  doc,       \* doc[w]: what page w shows, its row, what it has yet to push there
  encoding,  \* the snapshots that pages are turning into PNGs
  calls,     \* the commands that are on their way, in order
  limit,     \* the caps that they say
  given,     \* ids given to rows
  torn,      \* (history) the ids of calls that were cut short
  behind,    \* (history) the pages whose row may be behind, by what the code leaves to timing
  evicted,   \* (history) when the captures were taken that retention removed
  deeds

histVars == <<store, doc, encoding, calls, limit, given, torn, behind, evicted, deeds>>
ghosts == <<torn, behind, evicted>>

Calls == [do : {"save", "meta", "content", "delete", "clear", "close"}, page : Pages \cup {"list"},
          id : Ids \cup {0}, time : Times \cup {0}, weight : Weights \cup {0},
          content : Versions, note : Versions, stamp : Versions]

HistoryTypeOK ==
  /\ store.rows \in [Ids -> [time : Times \cup {0}, weight : Weights \cup {0}, of : Versions, note : Versions]]
  /\ \A i \in Images : store[i] \in [Ids -> Versions]
  /\ doc \in [Pages -> [open : BOOLEAN, time : Times \cup {0}, weight : Weights \cup {0}, id : Ids \cup {0},
                        saver : {"no", "saving", "saved", "failed"}, content : Versions,
                        note : Versions, told : Versions, owes : SUBSET {"meta", "content"}]]
  /\ encoding \subseteq Calls /\ calls \in Seq(Calls)
  /\ limit \in Limits /\ given \in 0..MaxIds /\ deeds \in 0..MaxDeeds
  /\ torn \subseteq Ids /\ behind \subseteq Pages /\ evicted \subseteq Times

HistoryInit ==
  /\ store = [rows |-> [i \in Ids |-> NoRow], full |-> [i \in Ids |-> Nothing], thumb |-> [i \in Ids |-> Nothing]]
  /\ doc = [w \in Pages |-> NoDoc]
  /\ limit \in Limits /\ encoding = {} /\ calls = << >> /\ given = 0 /\ deeds = 0
  /\ torn = {} /\ behind = {} /\ evicted = {}

MayDo == deeds < MaxDeeds /\ deeds' = deeds + 1

-----------------------------------------------------------------------------
(***************************************************************************)
(* The steps of a command on disk                                          *)
(***************************************************************************)
Kept(s) == {i \in Ids : s.rows[i] # NoRow}

Put(where, ids, what) == [in |-> where, ids |-> ids, what |-> what]
Unlink(i) == <<Put("full", {i}, Nothing), Put("thumb", {i}, Nothing)>>

\* The tables after the first k steps: each place holds what was put there last.
Puts(steps, k, f, i) == {n \in 1..k : steps[n].in = f /\ i \in steps[n].ids}
LastOf(S) == CHOOSE n \in S : \A m \in S : m <= n
After(s, steps, k) ==
  [f \in Tables |-> [i \in Ids |->
     IF Puts(steps, k, f, i) = {} THEN s[f][i] ELSE steps[LastOf(Puts(steps, k, f, i))].what]]

\* delete(): what an unlink returns is not looked at.
Delete(i) == <<Put("full", {i}, Nothing), Put("thumb", {i}, Nothing), Put("rows", {i}, NoRow)>>
Deletes(v) == [n \in 1..3 * Len(v) |-> Delete(v[(n + 2) \div 3])[1 + ((n + 2) % 3)]]

Listings(S) == {q \in [1..Cardinality(S) -> S] : \A i \in S : \E n \in DOMAIN q : q[n] = i}
OldestFirst(s) == {q \in Listings(Kept(s)) : \A j, n \in DOMAIN q : j < n => s.rows[q[j]].time <= s.rows[q[n]].time}

\* What rows take together: one unit for each unit of their weights.
Bytes(s, ids) == Cardinality(UNION {{i} \X (1..s.rows[i].weight) : i \in ids})
Fits(s, ids) == Cardinality(ids) <= limit.count /\ Bytes(s, ids) <= limit.bytes

\* enforce_retention(): the oldest of them go, until both caps are kept.
Rest(q, n) == {q[k] : k \in n + 1..Len(q)}
Enough(s, q, n) == Fits(s, Rest(q, n)) /\ \A k \in 0..n - 1 : ~Fits(s, Rest(q, k))
Victims(s) == UNION {{SubSeq(q, 1, n) : n \in {k \in 0..Len(q) : Enough(s, q, k)}} : q \in OldestFirst(s)}

Inserts(i, m) ==
  <<Put("full", {i}, m.content), Put("thumb", {i}, m.content),
    Put("rows", {i}, [time |-> m.time, weight |-> m.weight, of |-> m.content, note |-> m.note])>>

Inserted(m) == After(store, Inserts(given + 1, m), 3)

Saves(m) == {Inserts(given + 1, m) \o Deletes(v) : v \in Victims(Inserted(m))}

\* update(): an image comes with its thumbnail; a row that is gone is an error.
Updates(m) ==
  LET row == [store.rows[m.id] EXCEPT !.note = m.note, !.of = IF m.do = "content" THEN m.content ELSE @,
                                       !.weight = IF m.do = "content" THEN m.weight ELSE @]
  IN IF m.id \notin Kept(store) THEN << >>
     ELSE IF m.do = "meta" THEN <<Put("rows", {m.id}, row)>>
     ELSE <<Put("full", {m.id}, m.content), Put("thumb", {m.id}, m.content), Put("rows", {m.id}, row)>>

\* clear(): the files of all rows, in the order in which they are listed, and then the rows.
Unlinks(q) == [n \in 1..2 * Len(q) |-> Unlink(q[(n + 1) \div 2])[1 + ((n + 1) % 2)]]
Clears == {Append(Unlinks(q), Put("rows", Kept(store), NoRow)) : q \in Listings(Kept(store))}

\* The steps of a command, in one of the orders in which they may be taken
StepsOf(m) ==
  CASE m.do = "save" -> Saves(m)
    [] m.do \in {"meta", "content"} -> {Updates(m)}
    [] m.do = "delete" -> {Delete(m.id)}
    [] m.do = "clear" -> Clears
    [] OTHER -> {<< >>}

Touched(steps) == UNION {steps[n].ids : n \in DOMAIN steps}

\* The first k steps are done, and then the next one fails or the process ends.
Upto(steps, k) ==
  /\ store' = After(store, steps, k)
  /\ torn' = IF k < Len(steps) THEN torn \cup Touched(steps) ELSE torn

\* A command runs to its end, or an error that it looks at ends it.
Run(steps, k) ==
  /\ Upto(steps, k)
  /\ IF k = Len(steps) THEN UNCHANGED deeds
     ELSE MayDo /\ ~(steps[k + 1].in \in Images /\ steps[k + 1].what = Nothing)

-----------------------------------------------------------------------------
(***************************************************************************)
(* The pages                                                               *)
(***************************************************************************)
Larger(a, b) == IF a < b THEN b ELSE a

Message(what, w) ==
  [do |-> what, page |-> w, id |-> doc[w].id, time |-> doc[w].time, weight |-> doc[w].weight,
   content |-> doc[w].content, note |-> doc[w].note, stamp |-> Larger(doc[w].content, doc[w].note)]

FromList(what, i) ==
  [do |-> what, page |-> "list", id |-> i, time |-> 0, weight |-> 0,
   content |-> Nothing, note |-> Nothing, stamp |-> Nothing]

\* A page gets its capture, or goes away and takes with it what it was encoding.
Appear(w, t, k) ==
  /\ doc' = [doc EXCEPT ![w] = [NoDoc EXCEPT !.open = TRUE, !.time = t, !.weight = k, !.content = 0, !.note = 0]]
  /\ UNCHANGED <<store, encoding, calls, given, ghosts, deeds, limit>>

Vanish(w) ==
  /\ doc' = [doc EXCEPT ![w] = NoDoc]
  /\ encoding' = {e \in encoding : e.page # w} /\ behind' = behind \ {w}
  /\ UNCHANGED <<store, given, torn, evicted, limit>>

\* Mutant: a save on its way does not count.
NotSavedYet(w) == doc[w].saver # "saved"
\* historySaved
NotSaved(w) == doc[w].saver \in {"no", "failed"}

\* saveToHistoryOnce(), from the delivery or when the user copies or downloads
StartSave(w) ==
  /\ doc[w].open /\ w # "view" /\ NotSaved(w)
  /\ IF doc[w].saver = "no" THEN UNCHANGED deeds ELSE w = "editor" /\ MayDo
  /\ doc' = [doc EXCEPT ![w].saver = "saving"]
  /\ encoding' = encoding \cup {Message("save", w)}
  /\ UNCHANGED <<store, calls, given, ghosts, limit>>

Send(e) ==
  /\ e \in encoding
  /\ encoding' = encoding \ {e} /\ calls' = Append(calls, e)
  /\ UNCHANGED <<store, doc, given, ghosts, deeds, limit>>

\* The user edits the note or the banner (rendered, after a while, and pushed), or the picture.
Alter(w, what) ==
  /\ doc[w].open /\ w # "silent" /\ MayDo
  /\ \E k \in IF what = "content" THEN Weights ELSE {doc[w].weight} :
       doc' = [doc EXCEPT ![w].content = IF what = "content" THEN deeds' ELSE @, ![w].weight = k,
                          ![w].note = IF what = "meta" THEN deeds' ELSE @,
                          ![w].owes = @ \cup {what}]
  /\ UNCHANGED <<store, encoding, calls, given, ghosts, limit>>

\* persistMeta(), persistContent(): without a row there is nothing to do, and a save that is
\* on its way has taken its snapshot already.
Persist(w, what) ==
  /\ what \in doc[w].owes
  /\ doc' = [doc EXCEPT ![w].owes = @ \ {what}]
  /\ behind' = IF doc[w].saver = "saving" THEN behind \cup {w} ELSE behind
  /\ calls' = IF doc[w].id # 0 /\ what = "meta" THEN Append(calls, Message(what, w)) ELSE calls
  /\ encoding' = IF doc[w].id # 0 /\ what = "content" THEN encoding \cup {Message(what, w)} ELSE encoding
  /\ UNCHANGED <<store, given, torn, evicted, deeds, limit>>

\* open_capture(): a window of its own, or the same one loaded again, shows the row as it is
\* once the calls before its own have been handled.
OpenView(i) ==
  /\ calls = << >> /\ i \in Kept(store) /\ store.full[i] # Nothing /\ MayDo
  /\ doc' = [doc EXCEPT !["view"] =
       [NoDoc EXCEPT !.open = TRUE, !.time = store.rows[i].time, !.weight = store.rows[i].weight,
                     !.id = i, !.content = store.full[i], !.note = store.rows[i].note]]
  /\ encoding' = {e \in encoding : e.page # "view"} /\ behind' = behind \ {"view"}
  /\ UNCHANGED <<store, calls, given, torn, evicted, limit>>

\* discardCapture(), from a live editor or from a window on the history
Discard(w) ==
  /\ doc[w].open /\ w # "silent" /\ MayDo
  /\ calls' = Append(calls, Message(IF doc[w].id # 0 THEN "delete" ELSE "close", w))
  /\ UNCHANGED <<store, doc, encoding, given, ghosts, limit>>

\* From the list of the history: delete one, clear all
Strike(i) ==
  /\ MayDo /\ calls' = Append(calls, FromList(IF i = 0 THEN "clear" ELSE "delete", i))
  /\ i = 0 \/ i \in Kept(store)
  /\ UNCHANGED <<store, doc, encoding, given, ghosts, limit>>

-----------------------------------------------------------------------------
(***************************************************************************)
(* The commands                                                            *)
(***************************************************************************)
Waits(m) == m.page \in Pages /\ doc[m.page].open /\ doc[m.page].time = m.time

SaveCapture ==
  LET m == Head(calls)
  IN /\ calls # << >> /\ m.do = "save" /\ given < MaxIds
     /\ \E steps \in Saves(m) : \E k \in 0..Len(steps) :
          /\ Run(steps, k)
          /\ doc' = IF ~Waits(m) THEN doc
                    ELSE IF k < Len(steps) THEN [doc EXCEPT ![m.page].saver = "failed"]
                    ELSE [doc EXCEPT ![m.page].saver = "saved", ![m.page].id = given + 1, ![m.page].told = m.stamp]
     /\ given' = given + 1 /\ calls' = Tail(calls)
     /\ evicted' = IF Kept(store') = {} THEN {}
                   ELSE evicted \cup {Inserted(m).rows[i].time : i \in Kept(Inserted(m)) \ Kept(store')}
     /\ UNCHANGED <<encoding, behind, limit>>

\* Who else shows the row now shows something old; and a call may have overtaken another.
UpdateCapture ==
  LET m == Head(calls)
      others == {w \in Pages \ {m.page} : doc[w].open /\ doc[w].id = m.id}
      late == IF Waits(m) /\ m.stamp < doc[m.page].told THEN {m.page} ELSE {}
  IN /\ calls # << >> /\ m.do \in {"meta", "content"}
     /\ \E k \in 0..Len(Updates(m)) :
          /\ Run(Updates(m), k)
          /\ behind' = behind \cup others \cup late \cup (IF k < Len(Updates(m)) THEN {m.page} ELSE {})
     /\ doc' = IF Waits(m) THEN [doc EXCEPT ![m.page].told = Larger(@, m.stamp)] ELSE doc
     /\ calls' = Tail(calls)
     /\ UNCHANGED <<encoding, given, evicted, limit>>

\* delete_capture(), clear_captures(): a page that discards closes the editor when it is told.
RemoveCaptures ==
  LET m == Head(calls)
  IN /\ calls # << >> /\ m.do \in {"delete", "clear"}
     /\ \E steps \in StepsOf(m) : \E k \in 0..Len(steps) :
          /\ Run(steps, k)
          /\ calls' = IF k = Len(steps) /\ Waits(m) THEN Append(Tail(calls), Message("close", m.page)) ELSE Tail(calls)
     /\ evicted' = {}
     /\ UNCHANGED <<doc, encoding, given, behind, limit>>

\* close_editor(): whoever asks for it
CloseEditor ==
  /\ calls # << >> /\ Head(calls).do = "close" /\ calls' = Tail(calls)
  /\ Vanish("editor") /\ UNCHANGED deeds

Handle == SaveCapture \/ UpdateCapture \/ RemoveCaptures
Duty ==
  \/ \E w \in Pages : \/ doc[w].saver = "no" /\ StartSave(w)
                      \/ \E what \in {"meta", "content"} : Persist(w, what)
  \/ \E e \in encoding : Send(e)

-----------------------------------------------------------------------------
Busy(w) == doc[w].owes # {} \/ (\E e \in encoding : e.page = w) \/ \E n \in DOMAIN calls : calls[n].page = w

\* A capture is in the history at most once, whoever asks for it to be saved and however
\* often, unless a save failed half-way ("at most once per editor session").
Once ==
  \A i, j \in Kept(store) \ torn : store.rows[i].time = store.rows[j].time => i = j

\* A row has its images and an image has its row; the caps are kept, but for a picture that
\* grew by an edit (retention only runs at a save); and nothing newer than what stays was
\* evicted, even when captures are saved in another order than they were taken.
FilesAndCaps ==
  /\ \A i \in Ids \ torn, f \in Images : store[f][i] # Nothing <=> i \in Kept(store)
  /\ torn = {} =>
       \/ Fits(store, Kept(store))
       \/ Cardinality(Kept(store)) <= limit.count /\ \E i \in Kept(store) : store.rows[i].of # 0
  /\ torn = {} /\ evicted # {} =>
       \E i \in Kept(store) : \A t \in evicted : store.rows[i].time >= t

\* What a page shows is what its row and its image hold once nothing is on its way ("Note,
\* banner and edit changes then persist to the row automatically"), unless an edit fell into
\* the save, a call overtook another, a write failed or two windows edited one row.
Persisted ==
  \A w \in Pages \ behind :
    doc[w].open /\ doc[w].id \in Kept(store) \ torn /\ ~Busy(w) =>
      LET row == store.rows[doc[w].id]
      IN /\ row.note = doc[w].note /\ row.of = doc[w].content
         /\ \A f \in Images : store[f][doc[w].id] = doc[w].content

HistoryKept == HistoryTypeOK /\ Once /\ FilesAndCaps /\ Persisted
=============================================================================
