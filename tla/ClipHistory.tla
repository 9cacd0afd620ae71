---------------------------- MODULE ClipHistory ----------------------------
(***************************************************************************)
(* Clipboard history (src-tauri/src/clipboard.rs and clipboard/store.rs):  *)
(* a thread that polls the clipboard's change counter and records what it  *)
(* finds, the stored entries and their image files, and the user who pins, *)
(* deletes, clears and picks entries.  Each call of the store holds its    *)
(* connection, except that pruning lets go of it between its statements.   *)
(***************************************************************************)
EXTENDS Integers, Sequences, FiniteSets

CONSTANTS
  Contents,   \* what can be copied
  Images,     \* those kept as a PNG beside the database; the others are text
  Big,        \* those of size 3; the others are of size 1
  MaxItems, MaxBytes,  \* the caps, in entries and in size
  MaxCopies,  \* bound: times the clipboard is written
  MaxActs     \* bound: acts of the user in the history and in Settings, crashes, errors

ASSUME ClipConstants ==
  /\ Images \subseteq Contents /\ Big \subseteq Contents
  /\ MaxItems \in Nat \ {0} /\ MaxBytes \in Nat
  /\ MaxCopies \in Nat /\ MaxActs \in Nat

VARIABLES
  board,    \* the clipboard: what it holds, whether it is marked concealed, the app it is from
  count,    \* its change counter
  front,    \* the app in front
  on,       \* the setting clipboard_history
  row,      \* row[id]: a stored entry
  files,    \* the ids whose PNG is on disk
  clock,    \* timestamps and ids handed out
  seen,     \* the counter the watcher has dealt with
  ignore,   \* IGNORE, 0 at first
  w,        \* the watcher
  pick,     \* the entry the user has picked, on its way to the clipboard
  noted,    \* (history) the counter at the watcher's last read of the clipboard
  wanted,   \* (history) the last change that should reach the history, 0 when none must
  loose,    \* (history) an entry was unpinned since the last pruning, or that was cut short
  torn,     \* (history) the entries that a crash or an error caught on their way in or out
  blind,    \* (history) the entries stored when the look for one like them had failed
  acts,
  turns     \* whether, in this behaviour, the watcher, a pick and everybody else take turns.
            \* In the code they do not: they only seldom meet.

boardVars == <<board, count, front>>
history == <<noted, wanted, loose, torn, blind>>
clipVars == <<boardVars, on, row, files, clock, seen, ignore, w, pick, history, acts, turns>>

Apps == {"plain", "ignored"}
Nothing == [what |-> "nothing", marked |-> FALSE, from |-> "plain"]
Asleep == [at |-> "asleep", got |-> Nothing, doomed |-> <<>>]
NoPick == [at |-> "none", id |-> 0, what |-> "nothing"]

Boards == [what : Contents \cup {"nothing"}, marked : BOOLEAN, from : Apps]

ClipTypeOK ==
  /\ board \in Boards /\ count \in 0..MaxCopies /\ front \in Apps /\ on \in BOOLEAN
  /\ DOMAIN row \subseteq 1..clock
  /\ row \in [DOMAIN row -> [what : Contents, at : 1..clock, pinned : BOOLEAN]]
  /\ files \subseteq 1..clock /\ clock \in Nat
  /\ seen \in 0..count /\ ignore \in 0..count
  /\ w \in [at : {"asleep", "settings", "concealed", "source", "read", "record", "scan", "file", "row"},
             got : Boards, doomed : Seq(1..clock)]
  /\ pick \in [at : {"none", "got", "written", "ignored"}, id : 0..clock, what : Contents \cup {"nothing"}]
  /\ {noted, wanted} \subseteq 0..count
  /\ loose \in BOOLEAN /\ torn \subseteq 1..clock /\ blind \subseteq 1..clock
  /\ acts \in 0..MaxActs /\ turns \in BOOLEAN

\* What is on the clipboard when the app starts was copied before the watch began.
ClipInit ==
  /\ board = Nothing /\ count = 0 /\ front = "plain" /\ on = TRUE
  /\ row = <<>> /\ files = {} /\ clock = 0
  /\ seen = 0 /\ ignore = 0 /\ w = Asleep /\ pick = NoPick
  /\ noted = 0 /\ wanted = 0 /\ loose = FALSE /\ torn = {} /\ blind = {}
  /\ acts = 0 /\ turns \in BOOLEAN

Size(c) == IF c \in Big THEN 3 ELSE 1
Unpinned == {i \in DOMAIN row : ~row[i].pinned}
Without(i) == [j \in DOMAIN row \ {i} |-> row[j]]

WatcherTurn == turns => pick = NoPick
PickTurn == turns => w = Asleep
OtherTurn == turns => w = Asleep /\ pick = NoPick

---------------------------------------------------------------------------
(* Other applications, and the user who goes from one to the other.        *)

Write(what, marked, from) ==
  /\ count < MaxCopies /\ count' = count + 1
  /\ board' = [what |-> what, marked |-> marked, from |-> from]

Copy(what, marked) ==
  /\ OtherTurn /\ Write(what, marked, front)
  /\ wanted' = IF on /\ ~marked /\ front = "plain" THEN count + 1 ELSE wanted
  /\ UNCHANGED <<front, on, row, files, clock, seen, ignore, w, pick, noted, loose, torn, blind, acts, turns>>

Counted == acts < MaxActs /\ acts' = acts + 1

Act == OtherTurn /\ Counted

Switch ==
  /\ Act /\ \E a \in Apps \ {front} : front' = a
  /\ wanted' = 0
  /\ UNCHANGED <<board, count, on, row, files, clock, seen, ignore, w, pick, noted, loose, torn, blind, turns>>

Toggle ==
  /\ Act /\ on' = ~on /\ wanted' = 0
  /\ UNCHANGED <<boardVars, row, files, clock, seen, ignore, w, pick, noted, loose, torn, blind, turns>>

---------------------------------------------------------------------------
(* The watcher: watch and consider, statement by statement.                *)

Sleep == w' = Asleep
Go(s) == w' = [w EXCEPT !.at = s]

\* (mutant) Once the app has written to the clipboard, no change is looked at.
IsOwnEver == ignore # 0

IsOwn == ignore = count

Poll ==
  /\ w = Asleep /\ count # seen /\ WatcherTurn
  /\ seen' = count
  /\ IF IsOwn THEN Sleep ELSE Go("settings")
  /\ UNCHANGED <<boardVars, on, row, files, clock, ignore, pick, history, acts, turns>>

ReadSettings ==
  /\ w.at = "settings"
  /\ IF on THEN Go("concealed") ELSE Sleep
  /\ UNCHANGED <<boardVars, on, row, files, clock, seen, ignore, pick, history, acts, turns>>

is_concealed == board.marked

CheckConcealed ==
  /\ w.at = "concealed"
  /\ IF is_concealed THEN Sleep ELSE Go("source")
  /\ UNCHANGED <<boardVars, on, row, files, clock, seen, ignore, pick, history, acts, turns>>

CheckSource ==
  /\ w.at = "source"
  /\ IF front = "ignored" THEN Sleep ELSE Go("read")
  /\ UNCHANGED <<boardVars, on, row, files, clock, seen, ignore, pick, history, acts, turns>>

ReadClipboard ==
  /\ w.at = "read"
  /\ w' = [w EXCEPT !.at = "record", !.got = board]
  /\ noted' = count
  /\ UNCHANGED <<boardVars, on, row, files, clock, seen, ignore, pick, wanted, loose, torn, blind, acts, turns>>

\* The entries with this content.
Holders(c) == {i \in DOMAIN row : row[i].what = c}

\* Content that is there already is promoted; other content is a new entry.
Promote ==
  /\ w.at = "record"
  /\ \E i \in Holders(w.got.what) :
       /\ row' = [row EXCEPT ![i].at = clock + 1]
       /\ clock' = clock + 1
  /\ Sleep
  /\ UNCHANGED <<boardVars, on, files, seen, ignore, pick, noted, wanted, loose, torn, blind, acts, turns>>

StoreNew ==
  LET id == clock + 1 IN
    /\ row' = [i \in DOMAIN row \cup {id} |->
                 IF i = id THEN [what |-> w.got.what, at |-> id, pinned |-> FALSE] ELSE row[i]]
    /\ files' = IF w.got.what \in Images THEN files \cup {id} ELSE files
    /\ clock' = id

Insert ==
  /\ w.at = "record" /\ Holders(w.got.what) = {}
  /\ StoreNew /\ Go("scan")
  /\ UNCHANGED <<boardVars, on, seen, ignore, pick, history, acts, turns>>

\* .ok(): when the look-up fails, nothing was found.
InsertBlind ==
  /\ w.at = "record" /\ Holders(w.got.what) # {} /\ Counted
  /\ StoreNew /\ Go("scan")
  /\ blind' = blind \cup {clock + 1}
  /\ UNCHANGED <<boardVars, on, seen, ignore, pick, noted, wanted, loose, torn, turns>>

\* Writing the file, or a statement, returns an error, and watch() logs it.  A file that was
\* written, or begun, stays.
RecordFails ==
  /\ w.at = "record" /\ Counted /\ Sleep
  /\ \E left \in {{}} \cup {{clock + 1} : c \in {w.got.what} \cap Images} :
       /\ files' = files \cup left /\ torn' = torn \cup left
       /\ clock' = clock + Cardinality(left)
  /\ UNCHANGED <<boardVars, on, row, seen, ignore, pick, noted, wanted, loose, blind, turns>>

---------------------------------------------------------------------------
(* enforce_retention: the entries to drop are chosen in one statement and  *)
(* dropped in others, file first.                                          *)

Prunable == Unpinned

\* The unpinned entries from the newest to i.
Running(i) == {j \in Prunable : row[j].at >= row[i].at}

\* What entries take together: one unit for each unit of their sizes.
Bytes(ids) == Cardinality({u \in ids \X (1..3) : u[2] <= Size(row[u[1]].what)})

WithinBoth(ids) == Cardinality(ids) <= MaxItems /\ Bytes(ids) <= MaxBytes

Doomed == {i \in Prunable : ~WithinBoth(Running(i))}

NewestFirst(ids) ==
  {q \in [1..Cardinality(ids) -> ids] :
     /\ \A i \in ids : \E k \in DOMAIN q : q[k] = i
     /\ \A j, k \in DOMAIN q : j < k => row[q[j]].at > row[q[k]].at}

Prune(q) == IF q = <<>> THEN Sleep ELSE w' = [w EXCEPT !.at = "file", !.doomed = q]

Scan ==
  /\ w.at = "scan" /\ loose' = FALSE
  /\ \E q \in NewestFirst(Doomed) : Prune(q)
  /\ UNCHANGED <<boardVars, on, row, files, clock, seen, ignore, pick, noted, wanted, torn, blind, acts, turns>>

\* (mutant) The file of a dropped entry is left behind.
DropFileNever(i) == UNCHANGED files

DropFile(i) == files' = files \ {i}

PruneFile ==
  /\ w.at = "file" /\ DropFile(Head(w.doomed)) /\ Go("row")
  /\ UNCHANGED <<boardVars, on, row, clock, seen, ignore, pick, history, acts, turns>>

\* The entry whose file is gone and whose row is not.
Half == IF w.at = "row" THEN {Head(w.doomed)} ELSE {}

PruneRow ==
  /\ w.at = "row" /\ row' = Without(Head(w.doomed)) /\ Prune(Tail(w.doomed))
  /\ UNCHANGED <<boardVars, on, files, clock, seen, ignore, pick, history, acts, turns>>

\* An error returned by one of its statements ends the pruning.
CutShort == Counted /\ Sleep /\ loose' = TRUE

ScanFails ==
  /\ w.at = "scan" /\ CutShort
  /\ UNCHANGED <<boardVars, on, row, files, clock, seen, ignore, pick, noted, wanted, torn, blind, turns>>

\* The error of remove_file is ignored.
PruneFileKept ==
  /\ w.at = "file" /\ Head(w.doomed) \in files /\ Counted /\ Go("row")
  /\ torn' = torn \cup {Head(w.doomed)}
  /\ UNCHANGED <<boardVars, on, row, files, clock, seen, ignore, pick, noted, wanted, loose, blind, turns>>

PruneRowFails ==
  /\ w.at = "row" /\ CutShort
  /\ torn' = torn \cup Half
  /\ UNCHANGED <<boardVars, on, row, files, clock, seen, ignore, pick, noted, wanted, blind, turns>>

---------------------------------------------------------------------------
(* The user, in the history: one statement, or one held connection.        *)

SetPinned(i, pinned) ==
  /\ Act /\ row' = [row EXCEPT ![i].pinned = pinned]
  /\ loose' = (loose \/ ~pinned)
  /\ UNCHANGED <<boardVars, on, files, clock, seen, ignore, w, pick, noted, wanted, torn, blind, turns>>

Delete(i) ==
  /\ Act /\ row' = Without(i) /\ files' = files \ {i}
  /\ UNCHANGED <<boardVars, on, clock, seen, ignore, w, pick, history, turns>>

ClearClips ==
  /\ Act /\ row' = <<>> /\ files' = files \ DOMAIN row
  /\ UNCHANGED <<boardVars, on, clock, seen, ignore, w, pick, history, turns>>

\* delete() and clear() with errors: files may stay, which is ignored, and so may the rows.
DropFails(ids) ==
  /\ Act
  /\ \E gone \in SUBSET (files \cap ids), dropped \in {{}, ids} :
       /\ files' = files \ gone
       /\ row' = [i \in DOMAIN row \ dropped |-> row[i]]
       /\ torn' = torn \cup (IF dropped = ids THEN (files \cap ids) \ gone ELSE gone)
  /\ UNCHANGED <<boardVars, on, clock, seen, ignore, w, pick, noted, wanted, loose, blind, turns>>

\* clipboard_use and put_back, on a worker: the entry is read, written to the clipboard, the
\* change declared our own, and the entry moved to the top.
UseGet(i) ==
  /\ pick = NoPick /\ count < MaxCopies /\ Act
  /\ pick' = [at |-> "got", id |-> i, what |-> row[i].what]
  /\ UNCHANGED <<boardVars, on, row, files, clock, seen, ignore, w, history, turns>>

\* The image of the entry is read back from disk.
UseWrite ==
  /\ pick.at = "got" /\ PickTurn /\ (pick.what \in Images => pick.id \in files)
  /\ Write(pick.what, FALSE, "plain")
  /\ pick' = [pick EXCEPT !.at = "written"]
  /\ UNCHANGED <<front, on, row, files, clock, seen, ignore, w, noted, wanted, loose, torn, blind, acts, turns>>

UseGone ==
  /\ pick.at = "got" /\ PickTurn /\ pick.what \in Images /\ pick.id \notin files
  /\ pick' = NoPick
  /\ UNCHANGED <<boardVars, on, row, files, clock, seen, ignore, w, history, acts, turns>>

\* change_counter
OwnChange == count

IgnoreOwnWrite ==
  /\ pick.at = "written" /\ PickTurn
  /\ ignore' = OwnChange /\ pick' = [pick EXCEPT !.at = "ignored"]
  /\ UNCHANGED <<boardVars, on, row, files, clock, seen, w, history, acts, turns>>

Touch ==
  /\ pick.at = "ignored" /\ PickTurn
  /\ row' = IF pick.id \in DOMAIN row THEN [row EXCEPT ![pick.id].at = clock + 1] ELSE row
  /\ clock' = clock + 1 /\ pick' = NoPick
  /\ UNCHANGED <<boardVars, on, files, seen, ignore, w, history, acts, turns>>

---------------------------------------------------------------------------
(* The process dies, and starts again.  A file is written before the row   *)
(* that names it is stored, and deleted before that row is.                *)

StartAgain(gone) ==
  /\ Counted
  /\ seen' = count /\ ignore' = 0 /\ w' = Asleep /\ pick' = NoPick
  /\ wanted' = 0 /\ loose' = (loose \/ w.at \in {"scan", "file", "row"})
  /\ torn' = torn \cup gone \cup Half
  /\ UNCHANGED <<boardVars, on, row, noted, blind, turns>>

Crash == StartAgain({}) /\ UNCHANGED <<files, clock>>

CrashStoring ==
  /\ w.at = "record" /\ w.got.what \in Images /\ Holders(w.got.what) = {}
  /\ files' = files \cup {clock + 1} /\ clock' = clock + 1
  /\ StartAgain({clock + 1})

\* While the user deletes an entry, or several, to clear the history
CrashDeleting ==
  \E gone \in (SUBSET (files \cap DOMAIN row)) \ {{}} :
    /\ files' = files \ gone /\ StartAgain(gone)
    /\ UNCHANGED clock

Watcher ==
  \/ Poll \/ ReadSettings \/ CheckConcealed \/ CheckSource \/ ReadClipboard
  \/ Promote \/ Insert \/ Scan \/ PruneFile \/ PruneRow

Picking == UseWrite \/ UseGone \/ IgnoreOwnWrite \/ Touch

ClipNext ==
  \/ Watcher
  \/ \E c \in Contents, marked \in BOOLEAN : Copy(c, marked)
  \/ Switch \/ Toggle \/ ClearClips \/ DropFails(DOMAIN row)
  \/ \E i \in DOMAIN row : Delete(i) \/ DropFails({i}) \/ UseGet(i)
  \/ \E i \in DOMAIN row, p \in BOOLEAN : SetPinned(i, p)
  \/ Picking
  \/ InsertBlind \/ RecordFails \/ ScanFails \/ PruneFileKept \/ PruneRowFails
  \/ Crash \/ CrashStoring \/ CrashDeleting

ClipSpec == ClipInit /\ [][ClipNext]_clipVars

\* The watcher's loop never ends, and a pick that has begun does.
ClipFairSpec == ClipSpec /\ WF_clipVars(Watcher) /\ WF_clipVars(Picking)

---------------------------------------------------------------------------
(* Properties.                                                             *)

\* record() holds one entry per content, whatever is re-copied, picked, pinned or pruned and
\* whatever else fails, but for one that is stored because the look for its like had failed.
NoDuplicate == \A i, j \in DOMAIN row \ blind : row[i].what = row[j].what => i = j

\* Whatever the user pins, deletes or picks meanwhile, once the watcher is done the unpinned
\* entries are within both caps, until an entry is unpinned or a crash or an error cuts a
\* pruning short; the next pruning makes up for it.
WithinCaps == w = Asleep /\ ~loose => WithinBoth(Unpinned)

\* Exactly the images in the history are on disk, save for the one that is being pruned and
\* those that a crash or an error has caught on their way in or out.
FilesMatch ==
  files \ (torn \cup Half) = {i \in DOMAIN row : row[i].what \in Images} \ (torn \cup Half)

\* The type invariant, with what record() and its retention keep.
ClipSound == ClipTypeOK /\ NoDuplicate /\ WithinCaps /\ FilesMatch

\* With turns taken, the last thing copied while the history is on is read for it, unless
\* something is copied after it, or the user turns the history off or goes to another
\* application first.
Recorded ==
  \A n \in 1..MaxCopies :
    (turns /\ wanted = n /\ count = n) ~> (noted >= n \/ count > n \/ wanted # n)

=============================================================================
