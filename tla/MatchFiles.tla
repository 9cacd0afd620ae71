----------------------------- MODULE MatchFiles -----------------------------
(***************************************************************************)
(* From the store to the engine's match files (snippet-store, lib.rs, and  *)
(* its callers in src-tauri).  Whatever changes the store or the settings  *)
(* renders all files anew: the commands on the main thread after each      *)
(* change, and the listener of the store on the thread of the sync client  *)
(* after each record it applied.  A rendering takes the policy, then the   *)
(* list of snippets, and removes and writes file after file; nothing keeps *)
(* two of them apart but the lock on the listeners.                        *)
(***************************************************************************)
EXTENDS Naturals, Sequences, FiniteSets

CONSTANTS
  Snips,
  ScopeOrder,  \* the application scopes, as they sort
  FirstStores, \* what the store may hold at first
  Revisions,   \* what an edit or a remote record may make of a row
  MaxEdits     \* bound: edits, remote records, saved settings, write errors, crashes

Slots == 1..Len(ScopeOrder)
Scopes == {ScopeOrder[i] : i \in Slots}
Threads == {"main", "sync"}
Other(t) == IF t = "main" THEN "sync" ELSE "main"

\* A snippet that is deleted or not there yet is gone; a switched-off one is listed.
Gone == [state |-> "gone", scope |-> "all"]
Rows == {Gone} \cup [state : {"off", "on"}, scope : {"all"} \cup Scopes]

ASSUME FilesConstants ==
  /\ MaxEdits \in Nat /\ FirstStores \subseteq [Snips -> Rows] /\ Revisions \subseteq Rows
  /\ ScopeOrder \in Seq(Scopes) /\ Scopes \cap {"all", "none"} = {}

VARIABLES
  app,        \* the application: down, starting (its first rendering), up
  rows, policy,                      \* the store; whether an application has a delivery of its own
  plain, scoped, filters, override,  \* glyphio.yml, _scoped_<n>.yml, app_<n>.yml, 00_delivery_0.yml
  work,       \* work[t]: what thread t renders, and from what it has read
  debt,       \* (history) whether the files may be behind the store, and why
  edits

files == <<plain, scoped, filters, override>>
filesVars == <<app, rows, policy, files, work, debt, edits>>

Blank == [s \in Snips |-> Gone]
Idle == [at |-> "idle", slot |-> 0, rows |-> Blank, policy |-> FALSE, alone |-> FALSE]

\* A match file is a set of snippets, each with the scope that it was listed with.
Matches == Snips \X ({"all"} \cup Scopes)

FilesTypeOK ==
  /\ app \in {"down", "starting", "up"} /\ debt \in {"none", "owed", "mixed"} /\ edits \in Nat
  /\ rows \in [Snips -> Rows] /\ policy \in BOOLEAN
  /\ plain \subseteq Matches /\ scoped \in [Slots -> SUBSET Matches]
  /\ filters \in [Slots -> {"none"} \cup Scopes] /\ override \in BOOLEAN
  /\ work \in [Threads -> [at : {"idle", "notify", "noting", "import", "policy", "list", "clean",
                                 "plain", "match", "filter", "override"},
                           slot : Slots \cup {0}, rows : [Snips -> Rows],
                           policy : BOOLEAN, alone : BOOLEAN]]

FilesInit ==
  /\ app = "starting" /\ debt = "owed" /\ edits = 0
  /\ rows \in FirstStores /\ policy = FALSE
  /\ plain = {} /\ scoped = [i \in Slots |-> {}]
  /\ filters = [i \in Slots |-> "none"] /\ override = FALSE
  /\ work = [t \in Threads |-> IF t = "main" THEN [Idle EXCEPT !.at = "policy"] ELSE Idle]

MayEdit == edits < MaxEdits /\ edits' = edits + 1

Goto(t, p) == work' = [work EXCEPT ![t].at = p]

-----------------------------------------------------------------------------
(***************************************************************************)
(* What has the files rendered                                             *)
(***************************************************************************)

Commit(t, s, r) ==
  /\ MayEdit /\ app = "up"
  /\ rows[s] # r /\ rows' = [rows EXCEPT ![s] = r]
  /\ UNCHANGED <<app, policy, files, debt>>

\* create_snippet, update_snippet, delete_snippet; apply_remote_snippet
Edit(t, s, r) == work[t].at = "idle" /\ Commit(t, s, r) /\ Goto(t, "notify")

\* apply_import: one row after the other, and one rendering after them all.
ImportRow(s, r) ==
  /\ work["main"].at \in {"idle", "import"} /\ Commit("main", s, r) /\ Goto("main", "noting")

ImportDone ==
  /\ work["main"].at = "import" /\ Goto("main", "policy")
  /\ UNCHANGED <<app, rows, policy, files, debt, edits>>

\* An error ends the import without a rendering: what is rendered already has not seen it.
OweImport == debt' = IF debt = "mixed" THEN debt ELSE "owed"
ImportFails ==
  /\ work["main"].at = "import" /\ OweImport
  /\ work' = [t \in Threads |-> IF t = "main" THEN Idle ELSE [work[t] EXCEPT !.alone = FALSE]]
  /\ UNCHANGED <<app, rows, policy, files, edits>>

\* save_settings, and do_reload, which reads what the file of settings says
Configure(p) ==
  /\ MayEdit /\ app = "up" /\ work["main"].at = "idle"
  /\ policy' = p /\ Goto("main", "policy")
  /\ UNCHANGED <<app, rows, files, debt>>

\* notify().  The listener of remote changes renders while it holds the lock of the listeners;
\* the one of local changes only tells the windows.
ListenersFree == work["sync"].at \in {"idle", "notify"}

Notified(t) ==
  /\ \/ work[t].at = "notify" /\ Goto(t, "policy")
     \/ work[t].at = "noting" /\ Goto(t, "import")
  /\ ListenersFree
  /\ UNCHANGED <<app, rows, policy, files, debt, edits>>

-----------------------------------------------------------------------------
(***************************************************************************)
(* render_yaml_with_policy                                                 *)
(***************************************************************************)

\* It holds something that it has read.
Holding(t) == work[t].at \in {"list", "clean", "plain", "match", "filter", "override"}

\* Who reads while the other holds something overlaps with it, and both may be wrong.
ReadPolicy(t) ==
  /\ work[t].at = "policy"
  /\ work' = [u \in Threads |->
       IF u = t THEN [work[t] EXCEPT !.at = "list", !.policy = policy, !.alone = ~Holding(Other(t))]
                ELSE [work[u] EXCEPT !.alone = FALSE]]
  /\ debt' = IF Holding(Other(t)) THEN "mixed" ELSE debt
  /\ UNCHANGED <<app, rows, policy, files, edits>>

List(t) ==
  /\ work[t].at = "list"
  /\ work' = [work EXCEPT ![t].at = "clean", ![t].rows = rows]
  /\ UNCHANGED <<app, rows, policy, files, debt, edits>>

\* The places, as they sort, of the scopes of the live snippets, switched off or not; their
\* number; and the scope that goes to the i-th files.
Listed(t) ==
  {k \in Slots : \E s \in Snips : work[t].rows[s].state # "gone" /\ work[t].rows[s].scope = ScopeOrder[k]}
Count(t) == Cardinality(Listed(t))
Nth(t, i) == ScopeOrder[CHOOSE k \in Listed(t) : Cardinality({j \in Listed(t) : j <= k}) = i]

\* render_matches_yaml
Body(t, c) == {<<s, c>> : s \in {s \in Snips : work[t].rows[s].state = "on" /\ work[t].rows[s].scope = c}}

\* (mutant) the artifacts of scopes stay until they are written over
CleanOverridesOnly(t) ==
  /\ work[t].at = "clean" /\ Goto(t, "plain")
  /\ override' = FALSE
  /\ UNCHANGED <<app, rows, policy, plain, scoped, filters, debt, edits>>
Clean(t) ==
  /\ work[t].at = "clean" /\ Goto(t, "plain")
  /\ scoped' = [i \in Slots |-> {}] /\ filters' = [i \in Slots |-> "none"] /\ override' = FALSE
  /\ UNCHANGED <<app, rows, policy, plain, debt, edits>>

AfterSlot(t, i) ==
  work' = [work EXCEPT ![t].at = IF i < Count(t) THEN "match" ELSE "override",
                       ![t].slot = IF i < Count(t) THEN i + 1 ELSE 0]

WritePlain(t) ==
  /\ work[t].at = "plain" /\ plain' = Body(t, "all") /\ AfterSlot(t, 0)
  /\ UNCHANGED <<app, rows, policy, scoped, filters, override, debt, edits>>

WriteMatches(t) ==
  LET i == work[t].slot
  IN /\ work[t].at = "match" /\ scoped' = [scoped EXCEPT ![i] = Body(t, Nth(t, i))]
     /\ Goto(t, "filter")
     /\ UNCHANGED <<app, rows, policy, plain, filters, override, debt, edits>>

WriteFilter(t) ==
  LET i == work[t].slot
  IN /\ work[t].at = "filter" /\ filters' = [filters EXCEPT ![i] = Nth(t, i)]
     /\ AfterSlot(t, i)
     /\ UNCHANGED <<app, rows, policy, plain, scoped, override, debt, edits>>

WriteOverride(t) ==
  /\ work[t].at = "override"
  /\ override' = (override \/ work[t].policy)
  /\ work' = [work EXCEPT ![t] = Idle]
  /\ debt' = IF work[t].alone THEN "none" ELSE debt
  /\ app' = IF t = "main" THEN "up" ELSE app
  /\ UNCHANGED <<rows, policy, plain, scoped, filters, edits>>

\* A file cannot be removed or written: the disk is full, or the other rendering has removed
\* or renamed it.  The first rendering is expected to succeed.
Fail(t) ==
  /\ work[t].at \in {"clean", "plain", "match", "filter", "override"}
  /\ IF Holding(Other(t)) THEN UNCHANGED edits ELSE MayEdit
  /\ work' = [work EXCEPT ![t] = Idle]
  /\ debt' = IF debt = "mixed" THEN debt ELSE "owed"
  /\ app' = IF app = "starting" THEN "down" ELSE app
  /\ UNCHANGED <<rows, policy, files>>

Crash ==
  /\ MayEdit /\ app # "down" /\ app' = "down"
  /\ work' = [t \in Threads |-> Idle]
  /\ debt' = IF debt = "none" /\ \E t \in Threads : work[t].at # "idle" THEN "owed" ELSE debt
  /\ UNCHANGED <<rows, policy, files>>

Launch ==
  /\ app = "down" /\ app' = "starting" /\ Goto("main", "policy")
  /\ UNCHANGED <<rows, policy, files, debt, edits>>

FileStep(t) == Clean(t) \/ WritePlain(t) \/ WriteMatches(t) \/ WriteFilter(t) \/ WriteOverride(t)

OtherStep ==
  \/ \E t \in Threads : \/ \E s \in Snips, r \in Revisions : Edit(t, s, r)
                        \/ Notified(t) \/ ReadPolicy(t) \/ List(t) \/ Fail(t)
  \/ \E s \in Snips, r \in Revisions : ImportRow(s, r)
  \/ ImportDone \/ ImportFails
  \/ \E p \in BOOLEAN : Configure(p)
  \/ Crash \/ Launch

FilesNext == OtherStep \/ \E t \in Threads : FileStep(t)
FilesSpec == FilesInit /\ [][FilesNext]_filesVars

-----------------------------------------------------------------------------
\* What the engine makes of the files: who expands, and in which application.
Active ==
  {<<p[1], "all">> : p \in plain}
  \cup UNION {{<<p[1], filters[i]>> : p \in scoped[i]} : i \in {i \in Slots : filters[i] # "none"}}

\* What the store says of it.
Wanted == {<<s, rows[s].scope>> : s \in {s \in Snips : rows[s].state = "on"}}

Quiet == app = "up" /\ \A t \in Threads : work[t].at = "idle"

\* When nothing renders, the files say what the store and the settings say, unless renderings
\* overlapped or one failed since the last that had the files to itself ("every mutation
\* regenerates the engine config").
InStep == Quiet /\ debt = "none" => Active = Wanted /\ override = policy

\* A snippet of one application never expands in another, not even while files are rendered
\* anew with fewer scopes, or after a rendering that was cut short; only two at a time can do it.
ScopesKept ==
  debt # "mixed" => \A i \in Slots : \A p \in scoped[i] : filters[i] \in {"none", p[2]}

FilesSound == FilesTypeOK /\ InStep /\ ScopesKept
=============================================================================
