# Glyphio in TLA+

A verification project for Glyphio: a desktop text expander (a Tauri application
around a fork of the espanso engine) with screen capture, clipboard history and a
team synchronisation server. The modules are translated from the Rust and
JavaScript sources; TLC checks them on small instances, and TLAPS proves the
safety of every one of them for all instances: the synchronisation, the roles, the session, the engine's processes, the
way from the store to the worker, the expansion and its renderer, the forms, the captures and both histories.

    tlc -workers 2 -config Pages.cfg MCTeamSync     # a run; PROJECT.json lists all
    tlapm TeamSyncProofs.tla                        # the proofs about TeamSync

Paths below are relative to the repository's root; `crates/` is short for
`src-tauri/crates/`, `cli/` for `espanso/espanso/src/cli/`. PROJECT.json maps every
definition to the lines it stands for.

Contents: 1 the system, 2 the modules, 3 the runs, 4 fairness, 5 what is proved,
6 where the code and its documents disagree, 7 what is not modelled, 8 plan.

## 1. The system

### Components, their state, and what makes them correct

| component | state | operations | correct when |
|---|---|---|---|
| snippet store (`crates/snippet-store`) | SQLite tables `snippets`, `groups`, `sync_pushed`, `sync_cursors`; one connection behind a mutex; the rendered match files | create, update, delete, share and unshare; the dirty queries; `apply_remote_*`, `mark_pushed`, the cursor; `render_yaml_with_policy`; imports | a row that is not dirty is on the server, or something newer is; commands and scripts never leave the device; the files say what the store holds |
| sync client (`crates/sync-client`: `engine.rs`, `http.rs`, `auth.rs`) | one loop per engine; the cycle's locals; the cached ID token | `run`, `sync_once`, `pull_team`, `push_team`; `sign_in`, `bearer`, `refresh` | nothing is lost whenever it is aborted; the cursor passes nothing that is not applied; devices converge; no team holds up another |
| sync service of the application (`src-tauri/src/sync.rs`) | `SyncState`: config, engine, task, each under a lock of its own; the keychain | `rebuild`, save, sign in, sign out, join, leave, calls that borrow the engine | one loop at a time; signed out means signed out; "signed out" is shown when it is true |
| server: sync routes (`server/src/routes.rs`) | none of its own | GET and POST `changes`, `redeem_invite`, `leave_team`, `me` | the change feed: what follows a cursor is everything the reader lacks |
| server: storage (`server/src/storage/`) | SQLite under one lock, or DynamoDB items call by call: records with a team-wide number, role rows, tokens | `merge`, `changes`, role and token calls | numbers are distinct and grow; a record gives way only to a newer one |
| server: roles (`rbac.rs`, `admin.rs`) | role rows, invite tokens, grants on folders | `ensure_access` with bootstrap, set, remove, revoke, invite | ownership has a source; the revoked stay out; a team keeps an owner |
| engine supervisor (`src-tauri/src/engine.rs`) | `child`, `stopping`, the respawn counter; the operating system's processes | `start`, `stop`, `restart`, the exit watcher | crash loops are bounded, a deliberate stop is not a crash, quitting leaves no process |
| daemon and worker (`cli/daemon`, `cli/worker`) | two lock files, IPC sockets, the channels of the daemon's loop, `WORKER_EXIT_EXPECTED` | start, configuration change, `restart_worker`, exits, the worker's watch over its daemon | the worker runs the last configuration, a restart is no death, no worker outlives its daemon |
| expansion engine (`espanso/espanso-match`, `-engine`, `-render`) | the matcher's paths and their history, the event channel, the discard thresholds, the renderer's scope | match, choose, render, compensate, inject, undo, disable | a trigger fires exactly when it was typed; only what was typed is deleted; a body depends on nothing but what there is to render |
| form bridge (`bridge.rs`, `windows.rs`, `ui/form`) | `pending_forms`, `pending_payloads`, the window labelled "form" | `handle`, `open_surface`, submit, cancel, the 110 s timeout | the engine, which blocks, is always answered, and by the right form |
| capture (`capture.rs`, `capture/`, `tray.rs`, `ui/editor`) | `Lifecycle` (phase, revision), `CaptureDeliverySessions`, the flag `SCROLLING`, windows | hotkeys, the overlay, capture tasks, delivery, feedback and its timers | one capture at a time; no stale task, page or timer touches another one; the icon comes to rest |
| capture history (`history.rs`, `ui/editor`) | a table, two PNGs per row; pages with the row they saved to | save once, push edits, view, discard, clear, retention | each capture once, files match rows, caps kept, a row follows what its page shows |
| clipboard history (`clipboard.rs`, `clipboard/`) | `IGNORE`, a table and a folder of PNGs | the poll, `record`, retention, pin, delete, clear, use | each content once, caps kept, files match rows, the last copy read for it |
| the rest | settings, shortcuts, updates, logs, rate limiter, JWT validation, capture back-ends | | section 7 |

### How they interact

* The store's dirty flags are the offline queue of the sync client: the user's
  commands write rows on the main thread while the cycle, a tokio task, pushes and
  applies pages. Only the store's mutex stands between them, and `update` gives it
  up between its read and its write (`snippet-store/src/lib.rs:431`).
* The client and the server talk in pages and batches over HTTP. A request, or
  its answer, may be lost; the client's timeout does not stop the server. One cycle serves all
  teams, one after the other.
* `SyncState::rebuild` aborts the loop at whatever await it is in, and is called
  from the main thread (save, start) and from a worker (sign-in).
* Whatever changes the store renders all match files anew: the commands on the main thread, the
  listener of remote changes on the sync client's thread. The daemon's watcher sees the files change and
  has its worker replaced; the new worker expands what the files said when it started.
* In the worker a detection thread numbers keys and puts them into a channel; the engine takes them one by
  one, and while it chooses, renders or injects they wait there. The renderer reads the match files of
  the application in front.
* The daemon is the application's child. It is killed with `pkill`, its exit comes back as
  an event, and its worker blocks on the bridge's socket while a form is open.
* Capture results are handed to a fresh page by a random session; the page saves them to the history,
  copies them, and reports back by a command. Only that report ends the capture. What
  its user edits afterwards follows to the row, also from a second window on it.

### What is hard

Interleavings of callbacks, worker threads and the main thread (all of them);
aborts, errors, crashes and lost answers (sync, rendering, clipboard, captures, roles); read-then-write across storage calls
(roles, DynamoDB); a timeout that races a late answer (forms, `restart_worker`); stale reports
(capture); processes that exit late (supervisor, daemon); keys that are typed ahead of the engine;
clocks of different devices that cross (sync). The `hazards` of PROJECT.json give the line where each bites and
the properties that catch it; one without properties is one that the code runs into, and its note names the disagreement of section 6.

## 2. The modules

Every module is one component. A `MC` module instantiates it for TLC, with the `.cfg` named after
the run. Definitions marked `Mutant` or `(mutant)` are deliberate errors that
nothing uses: PROJECT.json pairs each with a property of a run that fails once the
mutant takes the place of the definition that follows it. The theorems about a module and
their proofs are in a module that ends in `Proofs`. TeamSyncProofs, TeamCycleProofs, SyncSessionProofs and
CaptureSessionProofs are about the modules they are named after. ServerProofs is about DynamoFeed and Membership, DesktopProofs about Supervisor,
FormBridge and ClipHistory: parts that share nothing. EngineProofs is about Deployment and Expansion, and RenderingProofs,
which extends it, about Rendering and EngineLoop.

### The synchronisation core

    SyncProto          records, stamps, last writer wins, what may travel
      SyncServer       the routes and SQLite storage of one team
      SnippetStore     the store of every device, and its user
        TeamSync       client cycle + server + stores: the composed system
      ChangeFeed       the abstract specification of GET changes
      DynamoFeed       the server's other storage, call by call
    TeamCycle          the loop over all teams of one identity

* **SyncProto** (`crates/sync-proto`). A record keeps what the protocol looks at:
  the stamp `(updated_at, version)`, the tombstone, personal or shared, the
  folder, the kind, and one opaque body. `Newer` is `lww_wins`, `Syncable` is the
  hard scope rule.
* **SyncServer** (`routes.rs` `changes`, `push`; `sqlite.rs` `merge`, `changes`). State: the records, their
  numbers, the counter, the owners. `IsPage`/`PageRows` are the query with its
  limit; `Merge`/`Outcome` are a push in one transaction. The push handler takes
  the connection lock twice; joining the two is sound, because a stored owner never changes
  and an id that is not stored is known to a single device.
* **SnippetStore** (`crates/snippet-store/src/lib.rs`). Per device: rows,
  `sync_pushed`, the cursor, and `saving`, the version an `update` has read and
  not yet written. One action per command; `UpdateRead` and `UpdateWrite` are the
  two halves of `update`.
* **TeamSync** (`crates/sync-client/src/engine.rs`). `pc[d]` stands at an await of `sync_once`:
  pull, apply record by record, store the cursor, collect, send, handle the
  outcomes one by one, pull again. `AbortCycle` is a lost message, a server error
  or `rebuild`'s abort; `Crash` also loses a half-done update; `TornApply` and
  `TornFolder` are crashes between the two statements of `apply_remote_*`,
  `set_group_team` and `soft_delete_group`.
* **ChangeFeed** says what the feed promises without saying how: what is published
  is numbered past everything published and past every reader, and a record only
  gives way to a newer one. `TeamSync!ImplementsFeed` is the refinement.
* **DynamoFeed** (`storage/dynamo.rs`). `TakeNumber` is `next_seq`, `Put` the
  conditional put, one per record; requests overlap, fail between calls and
  outlive the client. Devices are simple there: how they go through a cycle is
  TeamSync's subject.
* **TeamCycle** (`engine.rs` `run`, `sync_once`, the listeners; `routes.rs` with roles and grants; `sync.rs` join and leave). One
  device goes through its teams; pages, batches and clocks are TeamSync's subject, so here a page holds
  everything and a stamp is one number. Around it kicks and their draining, the interval, the first refusal
  that ends a cycle, lost answers and rebuilds, roles, archived teams, restricted folders, leaving, and
  the switch that turns a snippet with executable content off.

Two constants of TeamSync switch two behaviours of the code on: `SaveRaces` (a
remote record lands between the halves of an `update`) and `TornCalls` (a crash
between two statements of a store call). Both are real, both break `NoLostEdit`
(section 6). Run Folders has both; the other runs and the conditional theorems
have neither, and so say that these are the only two ways to lose an edit.

### From the store to the text that is typed

    MatchFiles         render_yaml and its callers, file by file
    WorkerDaemon       the daemon's loop, its workers, locks and IPC
      Deployment       both: what the worker expands is what the store holds
    RollingMatcher     the incremental matcher
      Expansion        the engine, key by key
    Rendering          match files with imports, variables, nested bodies
      EngineLoop       Expansion with Rendering in place of "a body"

* **MatchFiles** (`snippet-store/src/lib.rs`, `portability.rs`, `commands.rs`, `lib.rs`). Two threads,
  `work[t]`; a rendering reads the policy, lists the rows, removes what was generated and writes file after
  file (`ReadPolicy`, `List`, `Clean`, `WritePlain`, `WriteMatches`, `WriteFilter`, `WriteOverride`). The scopes that
  are sorted and freed of duplicates are `Listed`, the places of the live ones; `Nth` is the one that gets the i-th files. Each step may
  fail or be the last one before a crash; `ImportRow` commits rows that are rendered at the end.
* **WorkerDaemon** (`cli/daemon/mod.rs`, `cli/worker/mod.rs` and their IPC, locks and monitors). One action per
  branch of the daemon's `select!` and per stage of a worker; `loaded[w]` is the configuration a worker has read.
* **Deployment**: every file written or removed is an event for the watcher. The debouncer waits for
  one second of quiet, so it does not fire while a rendering holds something that it has read.
* **RollingMatcher** (`rolling/matcher.rs`, `tree.rs`): a node of the tree is the sequence of items that leads to it.
* **Expansion** (`process/`, `detect`, `dispatch`): the text changes when a key is pressed; the channel, the
  matcher's states, the choice, the thresholds of `discard.rs`, undo and the injection follow.
* **Rendering** (`renderer/mod.rs`, `resolve.rs`, `matches/store/default.rs`): `walk` goes through the match
  files, `calls` is the stack of renderings, `result` the verdict. The search for dependencies takes a hash set in any order.
* **EngineLoop**: a behaviour either goes through every rendering step by step, in any configuration, or
  lets it come to anything. Keys are pressed outside of a rendering only: the renderer reads nothing that a key changes.

### The application and the roles

* **Membership** (`rbac.rs`, `admin.rs`, `routes.rs`): every request is a sequence of storage calls;
  `open` holds the requests being handled, with what they have read. `ResolveRole`,
  `LookForOwner`, `Crown` are `ensure_access`; `ReadOrg`, `Look`, `Write`, `Tokens`, `Consume`
  the calls of the handlers. `Abandon` ends a request before any of its calls: storage failed, or the client hung up and
  the future was dropped. `DefaultRole` is the environment's and `PutOrg` changes the organisation's, to any role up to owner.
* **SyncSession** (`sync.rs`, `sync-client/src/auth.rs`): `rebuild` lock by lock on two threads
  (`Stop`, `Clear`, `GiveUp`/`Build`, `Install`, `Keep`), the loop's and a command's refresh (`Ask`,
  `Exchange`, `Store`, `Refuse`, `Fail`), and the identity provider, which rotates
  refresh tokens.
* **Supervisor** (`engine.rs`): `start` is `Check`, `Sweep`, `Clear`, `Spawn`, `Store`, for the
  main thread and for every watcher; `StartFails` is `sidecar()?` or `spawn()?`, which the watcher logs; `stop` is `Flag`, `Take`, `SweepAll`;
  the watcher `Reap`, `Decide`, `Wake`.
* **Capture** (`capture/lifecycle.rs`, `orchestration.rs`, `delivery.rs`, `capture.rs`, `tray.rs`,
  `ui/editor/editor.js`): `phase` is the lifecycle, `pending` the undelivered results, `runs` the
  capture tasks, `page` and `reports` the delivering pages and what they have sent.
* **CaptureHistory** (`history.rs`, `ui/editor/editor.js`, `discard.mjs`): `doc[w]` is what a page shows and the row it saved
  it to, `encoding` the snapshots it turns into PNGs, `calls` the commands on their way. A command is a list of steps on disk
  (`Saves`, `Updates`, `Delete`, `Clears`), one of them where the order is the file system's or that of rows of one time; `After` is what the
  tables hold once some of the steps are done. `Run` ends it where a step fails, and a crash anywhere.
* **CaptureSession** composes the two: the page that Capture delivers to is the one that saves, and its report waits for the save.
* **ClipHistory** (`clipboard.rs`, `clipboard/store.rs`): the watcher statement by statement (`Poll`
  to `Insert`, `Scan`, `PruneFile`, `PruneRow`), the user's acts, a pick (`UseGet` to `Touch`), and a crash between any two. What may fail, does:
  the look-up (`InsertBlind`: `.ok()` takes an error for "not there"), the file or a statement of `record` (`RecordFails`), the queries of
  retention (`ScanFails`, `PruneRowFails`), `remove_file`, whose error is ignored (`PruneFileKept`), and deletions by the user (`DropFails`). The history variables
  `torn`, `blind` and `loose` mark what an error or a crash has left: files or rows without the other, an entry stored again, caps not enforced.
* **FormBridge** (`bridge.rs`, `windows.rs`, `ui/form/form.js`): the handlers, the main thread's
  window tasks, the page, and the commands it sends.

### Behaviours in which the parts keep out of each other's way

Much of this code relies on pauses (300 ms after a `pkill`, 2 s before a respawn,
25 ms for a window to close) or on things seldom meeting. The modules contain
every interleaving. A variable marks the behaviours in which they do keep apart, and properties that need
it say so: one chosen in `Init` that never changes, or a history variable that
notes that they have met. Without it each of these
properties fails (section 6); properties that do not mention it hold in
all behaviours.

| module | variable | says | properties that need it |
|---|---|---|---|
| DynamoFeed | `inTurn` | a number is put before the next is taken | FolderKnown, ImplementsFeed |
| Membership | `serial`, `joined` | a request ends before the next begins; who joined, but for requests that were cut short | all but the types and MadeByOwners of OwnershipTraced; InviteOnce |
| Supervisor | `calm`, `failed` | exits are heard of within the pauses, and a crash and a stop do not overlap; the last start failed | SlotHonest, StopIsDeliberate, NoOrphan, BackUp; Tended, BackUp |
| SyncSession | `calm` | the user does not act during a refresh or another rebuild, refreshes do not overlap, no network failure | OneLoop, SignOutSticks, StatusTruth |
| Capture | `orderly` | the overlay sends one gesture, pages are closed after they have reported | IconTells, Rests |
| CaptureHistory | `torn`, `behind` | rows whose command was cut short; pages whose row the code leaves behind (an edit during the save, an overtaken or failed call, another window on the row) | Once, FilesAndCaps; Persisted |
| ClipHistory | `turns`, `torn`, `blind`, `loose` | watcher, pick and everybody else take turns; what an error or a crash has left, or an unpinned entry | Recorded; FilesMatch, NoDuplicate, WithinCaps |
| FormBridge | `prompt` | commands and closed windows come before timers and users; the engine lives | FreshForm, Answerable, GoneBeforeAnswer |
| MatchFiles | `debt` | nothing is owed (an import or a rendering ended by an error) and no two renderings have overlapped since the last whole one | InStep, Deployed; ScopesKept |
| WorkerDaemon | `raced` | a restart was asked for or timed out while the worker could not answer | Tended, Fresh, RestartIsNoDeath, Deployed |
| Expansion | `calm`, `blind` | the user waits for the engine; a backspace has deleted something that the matcher does not know of, or a key went unheard | Believes, UndoRestores, Detects |

## 3. The runs

Twelve runs, one for each question; all must find no error. Times are on two workers.

| run | properties | instance | states, time |
|---|---|---|---|
| Pages | IndInv, Agreement, PendingEditSurvives, Converges | 2 devices, 2 snippets, clocks 1, 3 against 2, pages of 1, 1 fault | 371 k, 81 s |
| Folders | ScopeRule, ImplementsFeed | 2 devices, 1 folder, 1 snippet of any kind, 1 manager, clocks 1, 3 against 2, both races, 2 faults | 471 k, 70 s |
| DynamoTable | TableSound, ImplementsFeed | 2 devices, 1 folder, 1 snippet, clocks 1, 2, 4 against 3, 3 numbers | 1.5 M, 76 s |
| Cycle | Sound, CursorCovers, IdleMeansSent, SwitchedOff, CaughtUp | 2 teams, 3 records, one in a folder and somebody else's, any 3 events | 1.2 M, 100 s |
| Members | Sound, RevokedStaysOut, LeaveStrandsNobody, OwnershipTraced | 3 identities (2 claimed), 4 requests in turn or 2 together, each cut short or not, 1 invite, writer by default or owner | 5.3 M, 142 s on 4 workers |
| Session | Sound, SignOutSticks, RevocationShows | 3 engines, 1 kind of command, 3 tokens, 2 acts, 1 network failure | 494 k, 117 s |
| Engine | Sound, CrashLoopBounded, BackUp | 5 spawns, 3 crashes or failed starts, 1 restart, `MAX_RESPAWNS` 2 | 1.2 M, 125 s |
| Worker | DeploySound, Deployed, RestartIsNoDeath, WorkersFollow | 2 snippets in 2 scopes; 2 edits and acts of others, or 3 acts on the engine; 4 workers | 656 k, 123 s |
| Typing | LoopSound, UndoRestores, VerdictExact, Detects, ChoiceKeysDropped | 5 triggers, 7 keys, or 5 typed ahead; 6 configurations and every rendering with 4 | 788 k, 81 s |
| Forms | FormSound, GoneBeforeAnswer, Answered | 3 triggers, 1 restart of the engine | 30 k, seconds |
| Capturing | SessionSound, Rests, FeedbackHonest | 2 captures of all modes, 1 acknowledgement, 2 tasks; or 2 single shots, a history of 1 entry and 2 bytes or of 2 and 3, 4 rows, 2 acts, errors or crashes | 868 k, 50 s |
| Clips | ClipSound, Recorded | 4 contents (two images, a big one), 3 copies, 2 acts, errors or crashes, 2 entries or 3 bytes | 369 k, 45 s |

`Sound` (`TableSound`, `FormSound`, `ClipSound`) is the type invariant and the invariants of the module that are named in it: DynamoFeed
NumbersDistinct, NoLostPush, FolderKnown; Membership InviteOnce; SyncSession OneLoop, StatusTruth; Supervisor
Tended, SlotHonest, StopIsDeliberate, NoOrphan; Capture Exclusive, IconTells, with Once, FilesAndCaps and Persisted of
CaptureHistory in `SessionSound`; ClipHistory NoDuplicate, WithinCaps, FilesMatch; FormBridge Answerable, FreshForm;
WorkerDaemon Tended, Fresh, with InStep and ScopesKept of MatchFiles in `DeploySound`; Expansion Believes, in `LoopSound`.

**What they show.** Pages: whatever order edits and deletions with crossed clocks
arrive in, a device that is caught up holds the server's record, an edit leaves the
queue only for the server, truncated pages are safe when others publish
between them, and the devices converge once edits and faults stop. Folders: whatever
is shared, unshared or made executable at whatever moment, nothing but what may
travel reaches a push or the server, and the feed's promise survives both races.
DynamoTable: no push is lost by overlap or failure, and the overlap of number and
put is the only thing between the table and the feed. Cycle: draining the kicks of a burst loses no edit, a cursor has
passed nothing but what was withheld, a switch stays off, and all teams before the first refusal come up to date.
Members: ownership always has a source, even for overlapping requests, and where requests come in turn none that is cut short
makes a revoked member a member again or takes the last owner away. Session: a revoked session is shown in the end,
whatever races and fails. Engine: the
crash loop is bounded in any interleaving, and only a spent budget or a start that failed leaves the user without an engine. Worker: once all is quiet the worker expands what the store holds, through renderings that fail or are cut
short, imports, changes during a restart, and crashes on both sides; no scope's snippet is active elsewhere while files are
rewritten; no restart is taken for a death; no worker outlives its daemon. Typing: a trigger is detected exactly
when it stands before the caret, the expansion deletes nothing else, undo restores it, what is typed into a choice stays there,
and whether a body can be rendered is decided as an order-free reference decides it. Forms: the engine is always
answered. Capturing: stale tasks, pages and timers settle nothing of another
capture; a capture is saved once however often it is asked for; files, rows and caps agree; a row follows its page but in
the listed cases. Clips: the caps and the files survive everything the user does during
retention, and an error or a crash loses and leaves nothing but what it cut.

**Bounds, and why they are enough.** Counters stop in guards, never in constraints.

* Two devices: the server handles one request at a time and devices meet only
  there, so a violation needs one that writes and one that reads. The safety of
  the core does not depend on this, as it is proved for any number.
* `Stamps` lists the instants a device's clock shows. Crossing ones include
  "older edit arrives later", "newer loses to older clock" and edits on top of a pulled record.
  Two devices never show the same instant.
* Pages of one record make every page boundary a case. `HalfBatch` is 1 where there is one record of a kind,
  and 2 in Pages: with batches smaller than the dirty set Converges fails after a lost answer
  (section 6, StuckBatch). The safety of split batches is proved.
* One fault (two in Folders): each leaves the device idle with what its store holds, the same as a
  state in which it has just not begun; a further one repeats the first. The proofs have no bound.
* `MaxSeq` 3: both records and one of them again, or one that gives way to the other's push; the clocks let the folder be edited
  before, between and after. The proof has no bound. Two invites, three owners or a third
  overlapping request only repeat what two do: each property relates at most
  two requests.
* Cycle: two teams are one that refuses and one that waits for it; three events are an edit, what interferes with it, and one that repairs it.
* Three engines and three tokens: an old loop, its successor, and one more rebuild; a
  token, its rotation, and a sign-in.
* Members: one claimed and one unclaimed identity beside an owner. Four requests are an invite, its redeem, and a revocation or another redeem, with a change of the
  default in between or a first touch before. Overlapping requests start from any rows of owners and admins, the two roles whose holders may change each other.
* Engine: a crash and a failed start spend the same bound; three are a respawn that fails, one that succeeds, and the end of the budget.
* Worker: a fifth worker is never started (`Room` says that a spawn finds a number). Two edits are what overlaps and what comes after; edits and acts
  are taken together (`MaxDeeds`) because each act on the engine may fall between any two files.
* Typing: the triggers share a prefix, overlap, need a separator, have a choice, and a form. Seven keys are a trigger, its undo and another one;
  a history of three is shorter than the longest trigger and its separator. `MaxDepth` 6 exceeds the number of matches, so only a circle reaches it.
* Two captures and two tasks: every stale report needs one earlier capture. In the history two captures are an
  eviction, by number where there is one place and by size where there are two, in either order; a duplicate shows where there are two. Two deeds are an edit and what interferes. With three and one place (3.7 M states, 160 s, without the temporal properties) the invariants hold as well.
* A close look at the history leaves out what goes on while a report is on its way or an icon's timer runs: neither touches the
  history or a page's document.
* Deadlock is checked in the TeamSync runs, where a device can always begin a cycle. Elsewhere the
  system may stop: the application has exited, or the bound on what users do is spent.

## 4. Fairness

Only what the program's scheduling gives; no user, network failure or operating-system
event is ever forced.

* TeamSync (`FairSpec`): weak fairness of each device's cycle (the interval's tick, `engine.rs` `run`)
  and of a half-done `update`, a function that returns.
* TeamCycle: the loop takes its next step (its interval ticks, a request is answered or times out), and a leave that has begun ends.
* Supervisor: threads and tasks take their next step; a watcher that is queued an event runs.
* WorkerDaemon (`DeploySpec`): the daemon's loop and each worker's threads take their next step. Nobody
  has to press a key, submit a form or edit a file, and no property asks that a rendering ends.
* SyncSession: the loop ticks, requests are answered (a request has a timeout), tokens expire,
  a rebuild or sign-out that has begun ends.
* Capture: timers fire, tasks end, commands of pages arrive, a page that is left alone reports, and an open
  overlay is used or cancelled. CaptureSession: what a page or the main thread has begun with the history goes on
  (`[]<>~HistoryDue`: each such step leads to finitely many, so this is weak fairness of HistoryStep in a form that TLC evaluates fast).
* ClipHistory: the watcher's thread polls; a pick that has begun ends.
* FormBridge: handlers are polled, the event loop turns, timers fire. The user need not answer.
* DynamoFeed, Membership, Expansion and Rendering state no liveness.

## 5. What is proved

All twelve runs check a module of which TLAPS proves the safety for all values
of the constants: any number of devices, records, people, engines, workers, scopes, triggers, match files, variables, forms, captures, rows, copies and
faults, any clocks, caps, any page and batch size. The assumptions are the named ones of the modules (`DisjointIds`, `ServerConstants`, ...), which
say what kind of value a constant is, and those in the last column.

| theorem | says | assumes |
|---|---|---|
| TeamSyncProofs!TypeCorrect | `Spec => []TypeOK`, both races included | |
| FeedImplemented | `Spec => ImplementsFeed`: server and cursors refine ChangeFeed | |
| OnlyScopedTravels | `Spec => []ScopeRule`: nothing personal or executable is sent or stored | |
| Invariant | `Spec => []IndInv` | no SaveRaces, no TornCalls |
| NothingLost, CursorNeverPasses | `Spec => []NoLostEdit`, `Spec => []CursorSound` | the same |
| EditsSurvive | `Spec => PendingEditSurvives` | the same |
| CaughtUpAgrees | `Spec => []Agreement` | the same, and DistinctClocks |
| ServerProofs!TableIsSound | `TableSpec => []TableSound`: NumbersDistinct, NoLostPush, FolderKnown | |
| TableImplementsFeed | `TableSpec => ImplementsFeed`, while numbers are put in turn | |
| MembershipSound | `Spec => []Sound`: an invite lets one request in, of those in turn that end by themselves | |
| RevokedStayOut | `Spec => []RevokedStaysOut` | |
| OwnershipIsTraced, NobodyIsStranded | `Spec => OwnershipTraced`, `Spec => LeaveStrandsNobody` | |
| DesktopProofs!SupervisorSound | `Spec => []Sound`: Tended, SlotHonest, StopIsDeliberate, NoOrphan | |
| NoCrashLoop | `Spec => []CrashLoopBounded`, calm or not | |
| TeamCycleProofs!CycleSound | `Spec => []Sound` | |
| CursorCoversFeed, IdleIsSent | `Spec => []CursorCovers`, `Spec => []IdleMeansSent` | |
| OffStaysOff | `Spec => SwitchedOff` | |
| DesktopProofs!FormsSound | `FormSpec => []FormSound`: Answerable, FreshForm | |
| FormIsGone | `FormSpec => GoneBeforeAnswer` | |
| ClipsSound | `ClipSpec => []ClipSound`: NoDuplicate, WithinCaps, FilesMatch | |
| CaptureSessionProofs!CapturesSound | `SessionSpec => []SessionSound`: Exclusive, IconTells, Once, FilesAndCaps, Persisted | a capture goes by its time |
| FeedbackIsHonest | `SessionSpec => FeedbackHonest` | the same |
| LifecycleSound | `SessionSpec => []LifeInd`, the lifecycle's part of the invariant | the same |
| SyncSessionProofs!SignedInSound | `Spec => []Sound`: OneLoop, StatusTruth | |
| SignOutIsFinal | `Spec => []SignOutSticks` | |
| EngineProofs!Deploys | `DeploySpec => []Deployed`, from the row to the worker | |
| NoFalseDeath | `DeploySpec => []RestartIsNoDeath` | |
| FilesAreSound | `DeploySpec => []FilesSound`: InStep, ScopesKept | |
| EngineIsSound | `DeploySpec => [](Room => DeploySound)`: the types, one holder of the lock, Tended, Fresh, and FilesSound | a spawn finds a number, at the state in question |
| TypingIsSound | `LoopSpec => []TypingSound`: the types of keys, history and job, and Believes | |
| UndoIsExact | `LoopSpec => []UndoRestores` | |
| ChoiceKeysAreDropped | `LoopSpec => ChoiceKeysDropped` | |
| RenderingProofs!LoopIsSound | `LoopSpec => []LoopSound`: TypingSound, Gathered and InOrder | |
| VerdictIsExact | `LoopSpec => []VerdictExact`: success exactly when the reference says so | |

`DistinctClocks` says that no two devices' clocks ever show the same instant. It is needed: two edits with the
same stamp both lose to each other (`sync-proto/src/lib.rs` `lww_wins` is strict), so each device keeps its own. The properties that speak of
`serial`, `inTurn`, `calm`, `prompt`, `orderly` or `raced` behaviours, of a `debt`, or of what is `torn` or `behind` (section 2) are proved with that condition in them, as they are stated; no theorem adds one. "A capture goes by its time" is `SessionConstants`: the revision that
a capture begins with, which is fresh, is also the time at which it was taken.

Each inductive invariant was first checked by TLC on the instance of its run; what
it found not to be inductive is what the parts below add.

**TeamSync.** FeedImplemented needs only *Numbering*: no record, cursor or
page is ahead of the server's counter. `DeliverNumbers` shows that a push numbers
what it accepts past the counter, so past every cursor (`DeliverPublishes`);
`CursorAdvances` that storing a page's cursor is an `Advance`. OnlyScopedTravels needs that
every copy under a folder's id is one that may travel (*GroupKinds*): the query for dirty folders looks at no kind.

NoLostEdit is not inductive: an acknowledgement removes a row from the queue, and
that it does so rightly depends on what the server did several steps before, and on
what the user has done to the row since. `IndInv` therefore follows a record on its way:

* *Booked*: what is acknowledged is a version the row has had, and a half-done
  update still has the version it read (this is what SaveRaces breaks, and TornCalls breaks the first half);
* *Paged*: a fetched record is the server's, or the server has moved on past the page;
* *Batched*: a row that was sent is still there, or was edited to a higher version;
* *Acked*: "accepted" means the server holds it or newer; a superseding copy is the server's or older;
* *Kept* and *Covered*: NoLostEdit and CursorSound, record by record.

Each action preserves *Linked*, their conjunction: `EditLinked`, `ApplyRecordLinked`,
`OutcomeLinked`, `DeliverLinked`, and `QuietLinked` for the steps that change neither rows
nor records. Run Pages checks IndInv as an invariant. Agreement follows with *Authored*: every copy of a record, wherever it is, bears an
instant of one device's clock that this clock has been through (*Timed*), and two copies with the same instant are the same record, the folder aside.

**DynamoFeed.** A number is taken before its record is put, so *Counted* says that the numbers that requests hold are apart from each other and from all
that are stored, whatever overlaps. *Folders* and FolderKnown support each other: a snippet's folder is before it in the
batch, and both go in. *InOrder* is what behaviours with the numbers in turn add: the one number that is held is past all numbers and all cursors, which is `Publish`.

**Membership.** A request acts on what it has read. *Sane* says what that is at each of its steps, for requests that
overlap as they please, and *OfInvite* that a role is redeemed as its invite names it; with *Minted*, no invite names an owner's, that is enough for MadeByOwners.
What it has read is still true when nothing else is open: *Informed* (roles, and the default),
*Unspent* and *Spent* (an invite that somebody joined with is used up, or its redeem is about to), *Harmless* (no request that was begun before a revocation
is left to undo it). `AbandonInTurn`: a request that is cut short only shortens the life of invites, and takes itself out of what it had not paid for.

**Supervisor.** CrashLoopBounded counts daemons; the invariant *Granted* is a potential: the daemons spawned and the
callers on their way to spawn (*Pending*) are within one for each restart and `MaxRespawns` for each budget, of which `respawns` are used. A watcher becomes pending only by taking one
from the budget, a restart only by resetting it, and a start that fails only lowers the sum. *Watched* says which callers a daemon's exit may have woken; *Calm* what an undisturbed stop keeps.

**TeamCycle.** CursorCovers is inductive with *Feed* (numbers and cursors within the feed), *Copies* (every copy is no newer
than its original) and *Ahead*: a page on its way holds all records between the cursor and its end, unless one has changed and
is now past the end. IdleMeansSent needs *Owes*: what is unsent of a team that the cycle has passed has a kick behind it. Records of a batch
get their numbers by `Rank`, a cardinality, so that no induction is needed: `RankFits` says that ranks are bounded and grow, and
`InOrderServes`, by the library's theorem on injections, that every listed team has its turn.

**FormBridge.** The engine's request goes through stages, and *Stage* says in each what the stash, the queue of the main thread, the window and its commands hold: *Idle*, *Closing* (the
old form is waited for), *Opening*, *Shown*. FormIsGone follows from *Windows*: a request that was told a text shows no more.

**SyncSession.** *Booked* holds in all behaviours. In calm ones *OneByOne* makes commands and refreshes take turns, *Handles* says what the two
handles stand for at each step of `rebuild` and sign-out, *Truth* that what an engine shows of the session stays true, *SignedOut* that nothing is left to build an engine from.

**Deployment.** The invariant has three parts. *Engine* is about the daemon and its workers. *Lineage* says who is the worker of the
moment: the daemon has one child that lives or has just ended (*Alone*), or has heard of one end (*Bereft*), or its child was told to
leave and another comes after it (*Leaving*, *Left*, *Replaced*); a worker that finds the lock taken, or a second end, has no place in it.
*Counted* pairs each death on its way with a stroke from outside, and *UpToDate* each worker that has read an older
configuration with an event or a signal that will replace it. All three hold until two causes meet (`raced`). *FilesInd* is about the renderings: *Apart* says that of two
threads that hold something both are suspect, and *Progress* which files the only one has written so far, file by file;
*Timely* that what it has read is what the store holds, or that the other thread is about to render. `ScopesHavePlaces` shows that every live
scope gets files, for any number of scopes. *Configured* joins the two: what a worker may read is what the files
say at each moment. `TouchKeeps` is the step in which both move.

**Expansion.** Believes says that what the matcher's last state holds stands before the caret, and its steps go back: a backspace
brings back an older state. So *Followed* says of the whole history (*Agrees*) that each state believes something that stands before the keys heard since;
the one key in the channel and what is left to inject are counted in (*Landing*). *Undoable* says that an injection that can be undone is either the last thing
that happened (*Current*): the text is what the expansion makes of `before`, and the history ends with its separator; or of an earlier expansion, and a choice was
cancelled since (*Outdated*). *Paced* is what a user who waits adds: one key at a time, and none while the engine works. *ChoiceKeys* says of each key in
the channel that was pressed during a choice that the choice is still open, or that the key is between the thresholds that it set, or that its choice is earlier than they are. FlattenSeq, which the
matcher is built with, is recursive: `FlatExists` shows by well-foundedness that the function it stands for exists, and that what a flattened sequence holds
is in one of its parts is all that the proof needs of it.

**Rendering.** The reference defines what can be made without any order: least sets, and an order exists if each part of
what is needed has a member that needs nothing of that part (*Orderable*). The invariant `RenderInd` follows the three parts of the code.

* *Walked*, the walk through the match files: what has been visited, is on a list or waits under an open file is reached, and closed under imports but for what
  is still on a list (*Due*); the files that are closed have given what is in them once. When nothing is left, the least closed set has been visited.
* *Searched*, the depth-first search: each node on the path is needed by the one before it, and what it needs is left to follow, or resolved, or next on the
  path (*Descending*); what is resolved comes after what it needs (*Resolved*). A node that is seen again and not resolved closes a circle, all of
  whose members need one another (`CircleHasNoOrder`); and a search that ends gives an order, whose first member in any part
  is the one that Orderable asks for (`ThereIsAnOrder`). `LocalsInOrder` derives the order of local variables from the dependency of each on the one before it.
* *Evaluated*: what has a value is what was passed and has an extension, made of what had a value; a nested match that was rendered can be made (*Good*). So the scope at the
  end is *Given* (`ScopeIsGiven`), and the body is empty just when the reference says so.
* *Stacked*: each rendering on the stack is for a variable of the one below it, and so inside all of those. With more of them than there are
  matches two are the same match (the library's pigeonhole theorem), which is then inside itself: an overflow has its reason. A match that is inside itself is never
  *Good*, so that success is exact in both directions: whatever is cut short has a reason in the reference, and each `Return` shows it
  (`ErrorIsExact`, `AbortIsExact`, `OverflowIsExact`, `PanicIsExact`, `SuccessIsExact`).

LoopIsSound joins the two: a request names one of the job's matches, which TypingIsSound says are matches.

**ClipHistory.** `ClipInd` adds to the types and NoDuplicate what the watcher and a pick hold between their statements (*Held*: it came from the
clipboard, and there are entries to drop exactly while they are dropped), that the file of the entry being pruned is gone already, or marked as left behind (*Filed*), and that what
the scan has not condemned is within both caps (*Capped*). The caps are sums over
sets, written as cardinalities so that no induction over data is needed; that a scan leaves what fits rests on `Smallest`, the well-foundedness of the numbers. The proof found a case that TLC's
instance, then with one image, had not: the process ends after retention has removed the file of one entry and before it removes its row,
while another row is being deleted. `StartAgain` marks both as cut short, and the instance has two images.

**CaptureSession, the lifecycle.** A capture is known by its revision, a delivery by its session; both are handed out once. `LifeInd` says so with
*Typed*, whose bounds are the next revision and the sessions given out instead of the bounds of TLC's instance, and *Counted*, from which those
bounds follow: begun captures pay for revisions, tasks and sessions. *Agreed* says that a page or report with the session of the active capture
has its revision, and that what is shown has its timer; FeedbackHonest follows step by step. IconTells is inductive with *Lone*: in an orderly behaviour one of the
overlay, the tasks, the pages and the reports works, for one capture.

**CaptureSession, the history.** A command may be cut short at any of its steps, of which there are as many as there are rows. `AfterAt` says what a table
holds after some of them, and `HeadOutcome` sums up what is known of any command at any step (`Outcome`), so that the rest of the proof never looks into a
sequence of steps again. `HistInd` has these parts:

* *Stocked*: a row that nothing was cut short at has its picture in both images, and no image is without a row;
* *Papers*: a message on its way says what its page showed, with a stamp that is not in the future; an encoding page is still open;
* *OnceEach*: Once, for the saves that are being encoded or on their way as well; *Known*: the page of such a save is waiting for it, and a page
  that shows no save has none;
* *Linked*: where the history is looked at, a capture is with one task or one page, and in the history only once its page has it (*Apart*). It
  joins the two halves: a fresh revision is a time that no row has;
* *CapsKept*, *OldestGone*: the caps, counted over rows whose picture was not edited, and nothing newer than what stays was evicted. `Pruned` says of retention
  that it takes a beginning of the list, oldest first;
* *Pushed*: the note and the picture of a page that is not `behind` are in its row, or are owed, or are on their way and nothing that differs overtakes them
  unnoticed; it needs *EditsOlder* (an edit on its way is older than what it differs in) and *SnapshotsGood* (a save on its way takes what the page shows, or the
  page will push it). Persisted is what remains of Pushed when nothing is on its way.

Each is kept by every step of the history (`StockedStep`, `PapersStep`, ..., `SnapshotsStep`), whose 14 kinds are summed up once for pages (`DocMoves`), messages
(`OnWayMoves`) and rows (`WholeMoves`).

**Model-checked only**

* All liveness: Converges, CaughtUp, BackUp, WorkersFollow, RevocationShows, Rests, Recorded, Answered. It needs fairness and ENABLED, which the prover
  cannot handle.
* Detects: that a trigger fires exactly when the characters before it fit, and the longest first, depends on the triggers: of two with a separator and
  a letter for it in the same place, or with and without a word boundary at the very first key, the matcher takes the one it comes to first.
* That a number is free for each new worker (`Room`): it is about the bound MaxWorkers of the instance. EngineIsSound has it as a hypothesis.

## 6. Where the code and its documents disagree

No run expects a violation: each of these comes
back when the condition named is dropped (set a constant, delete the guard
variable - `calm =>`, `serial =>`, ... - from the property, or add the formula named to the `.cfg` named). Those marked "by hand"
violate a formula that is in no run; the behaviour is given.

Team synchronisation:

* **SaveRace** (Pages with `SaveRaces = TRUE`: IndInv, Agreement). `update` reads the row, gives up the lock and later writes
  `read.version + 1`. A pulled record with a higher version in between is overwritten by
  a version not above `sync_pushed`, so the edit is not dirty and never pushed.
  `engine.rs:7` calls the dirty flags the queue; SYNC-PROTOCOL.md:173: "Never drop local edits on failure."
* **TornCall** (Pages with `TornCalls = TRUE` and `Stamps <- Behind`: IndInv). `apply_remote_snippet` writes row and `sync_pushed` in two
  autocommitted statements (`snippet-store/src/lib.rs:694`); a crash between them
  leaves a row below its own acknowledgement. `sync.rs:88`: "nothing is lost".
* **LostAck** (by hand). After a lost answer the retry is superseded by itself;
  `apply_remote_*` does nothing on an equal stamp, so the record stays dirty and is
  pushed in every cycle. `snippet-store/src/lib.rs:675`: "Applying also acknowledges the record".
* **StuckBatch** (Pages with `HalfBatch = 1`: Converges). Such records stay at the head of every batch, and
  `push_team` sends the same batch for ever. `engine.rs:280`: "loop for the rest".
* **Refused** (by hand). A writer's edit of somebody else's record is "superseded" by the server's older copy,
  which last-writer-wins rejects: the device shows the refused edit and pushes it in every cycle.
  `routes.rs:160`: "the client applies the authoritative record".
* **Dangling** (by hand). Deleting a folder ungroups its snippets without a new version; a device
  that pulls the folder's tombstone first stores snippets in a folder that is gone.
  `snippet-store/src/lib.rs:587`: "its snippets become ungrouped". Agreement leaves the folder out for this reason.
* **FeedGap** (DynamoTable with CursorSound as an invariant). `merge_one` takes the number and puts the record later, so a higher number may be
  served first. `dynamo.rs:14`: "the cursor only needs monotonicity"; SYNC-PROTOCOL.md:74: "Everything after `since`".
* **LateFolder** (DynamoTable: FolderKnown without its second disjunct, and SQLite alike). A folder that is edited again gets a later number, so a
  page may end between a snippet and its folder. `engine.rs:199`: "Groups first so pulled snippets can reference their folder" holds within a page.
* **IdleAndLeave** (Cycle: IdleMeansSent with `ident` in place of `me`). After a Leave the status takes its teams from a fresh `/v1/me`
  (`engine.rs:101`), and may name one that no cycle has served while the state says that all is sent.
* **OneTeamStopsAll** (Cycle: Served for all listed teams). A 403 of one team ends the cycle (`engine.rs:180`) and the teams after it are not
  synchronised while it lasts. SYNC-PROTOCOL.md:162: "skip the team; surface the error". A pending record in a folder that has become restricted, or a
  reader's pending edit, has the same effect.
* **NoEarlierRetry** (by hand). The sleep of the backoff cannot be interrupted: a kick is heard when it is over.
  `engine.rs:159`: "a fresh local edit can still kick an earlier retry".
* **GrantDeliversNothing** (Cycle: CursorCovers without `withheld`). Records of a restricted folder are filtered after the cursor has moved (`routes.rs:88`);
  a grant that is given later brings only what changes from then on.
* **Reuploaded** (by hand). A quarantined copy that the user then switches on is an edit like any other, and is pushed. `engine.rs:318`: "it is never re-uploaded".
* **SwitchedOn** (SwitchedOff without its stamp). A newer remote record switches a snippet on again that the user had switched off.
* **StillShared** (by hand). `sync_leave_team` un-shares the team's folders; a snippet that was shared by itself stays `team`. `sync.rs:262`: "they simply become personal again".

Roles (with overlapping requests, where nothing else is said; drop `serial`):

* **StrandedTeam** (LeaveStrandsNobody). Two owners who leave together both pass the count. SYNC-PROTOCOL.md:141: "a team can never be stranded".
* **InviteTwice** (InviteOnce, with `MaxTogether = 3`, as one request makes the invite; `Ops` invite and redeem). An invite is checked first and revoked last. `routes.rs:243`: "minted for one person to join once".
* **HalfRedeemed** (InviteOnce with `UNCHANGED joined` in Abandon). No overlap is needed: an error, or a client that hangs up, between `set_role` (`routes.rs:280`) and `revoke_token`
  (`:304`) leaves a member and a live invite, which lets the next one in. `routes.rs:243`: "The invite is consumed (revoked) on success". In the same way a leave or a revocation that is
  cut short leaves some tokens live; the row of a leave is gone by then, and the token lets its bearer in again.
* **DefaultOwner** (MadeByOwners without its third disjunct; no overlap is needed). A default role of owner (`DEFAULT_ROLE`, `main.rs:75`, or `put_org`) makes an owner of whoever redeems an invite
  that names no role. `admin.rs:555`: "nobody mints owner tokens — ownership moves only via the explicit role API".
* **RedeemDemotes** (by hand). A role given between redeem's read and write is overwritten. `routes.rs:275`: "Never demote".
* **TwoOwners** (by hand). Bootstrap looks for an owner and writes one in two calls; two requests are crowned. `rbac.rs:10`: "the first identity".
* **AdminDemotes** (ChangedByOwners). `set_role` writes over a target that became an owner meanwhile. `server/README.md:57`.

Sessions (drop `calm`):

* **TornRefresh** (Session with SessionSurvives as an invariant). `rebuild` aborts the exchange of a rotating token; the stored one is spent. `sync.rs:88`: "Aborting mid-cycle is safe".
* **SignOutUndone** (SignOutSticks). A refresh on its way stores the next token after the sign-out. `sync.rs:315`.
* **WrongSignedOut** (StatusTruth). `refresh` maps every failure, a network one included, to SignedOut. `auth.rs:233`: "A rejected refresh token means the session was revoked".
* **Two refreshes** (StatusTruth). A command and the loop present the same rotating token; the second one is told "signed out" though the session lives.
* **TwoLoops** (OneLoop). Two rebuilds at once keep one handle for two loops. `sync.rs:85`: "Tear down any running engine".

The engine's processes and forms (drop `calm`, `prompt`):

* **LateExit** (StopIsDeliberate). `start` clears `stopping` while the exit of the killed process is still queued. `engine.rs:33`.
* **DeadChild** (BackUp). The watcher of a process that dies at once empties the slot before `start` fills it. `engine.rs:93`: "must be respawned".
* **FailedRespawn** (Tended, BackUp without `failed`). A respawn that fails is logged (`engine.rs:112`) and nobody tries again, though budget is left; a failed first start likewise. `engine.rs:93`: "An engine that dies
  unexpectedly must be respawned, or the app keeps believing it's running".
* **Orphan** (NoOrphan). A watcher that sleeps before a respawn is not told of a stop. `lib.rs:350`: "else the daemon/worker are orphaned".
* **LostWorker** (Worker with NeverWithoutWorker as an invariant). A restart times out while the worker waits for a form or does not listen yet; the mark of the
  expected exit stays, and the next clean exit is swallowed. `cli/daemon/mod.rs:240`: "Bring it back, else the daemon lives on with no keystroke detection at all".
* **FormHang** (Answerable). A page that goes before it has its payload cancels an empty request; the engine waits 110 s. `form.js:133`.
* **TwoSenders** (by hand). `pending_forms` is keyed by a fresh id, so a new form drops no older sender. `bridge.rs:123`.

From the store to the worker (drop `debt = "none"` from InStep, Deployed, ScopesKept):

* **MixedFiles**. A command and a remote record render at the same time: files of an older list, or of both, stay until the next rendering. `commands.rs:20`:
  "Every mutation regenerates the engine config". The two also write through the same temporary name, which may fail one of them.
* **ImportOwes**. An import that fails in the middle leaves the committed rows unrendered (`commands.rs:183`, `portability.rs:375`).

The expansion (drop `calm`, `~blind`; by hand where no property is named):

* **StuckKeys** (Typing with StuckKeysDropped as a property). Keys that waited in the channel while an expansion was chosen or rendered reach the matcher afterwards. `discard.rs:26`:
  "discard past events that might have been stuck in the event queue for too long".
* **SeparatorTwice** (by hand). Compensation keeps the left separator, undo types it again (`action.rs:118` to `:151`).
* **StaleUndo** (UndoRestores without its hypothesis on `job.ids`; it takes a trigger of one key with several matches). After an expansion it is typed and the choice cancelled.
  Its key reaches the middleware as the matches it detected, not as a key (`undo.rs:70`), so the record of the expansion stays, and the next backspace undoes it
  though something else stands before the caret.
* **UndoOfNothing** (by hand). `replace.chars().count() - 1` (`action.rs:136`) of an empty body underflows.
* **LeakedChoice** (ChoiceKeysDropped without its second disjunct). Keys typed into a choice reach the matcher if another choice opens from the backlog.
* **OutOfStep** (Believes). Keys typed while expansion is disabled, backspaces into an expansion and more of them than the history holds leave
  the matcher with what is no longer there; typed-ahead keys are deleted in place of the trigger.
* **EmptyCapital** (by hand). An empty body of a trigger typed with a capital panics at `v[0]` (`renderer/mod.rs:179`), which ends the engine's thread only: the
  process lives on without expansion, and the daemon does not notice (`cli/daemon/mod.rs:240`).
* **OwnMatch** (VerdictExact with `result.verdict # "overflow"`). A match that contains itself is rendered without end (`renderer/mod.rs:107`), while circular variables are found (`resolve.rs:164`).
* **HashOrder** (by hand). With an aborting and a failing global variable in a set, it depends on the hash which verdict the user gets.

Capture (drop `orderly`, `behind`, `torn`):

* **ClosedPage** (Rests). A page that is closed before its report leaves the capture active, and every later one is refused. `editor.js:106`: "always settles".
* **Swallowed** (Rests). A region sent and then cancelled leaves a scrolling loop with an idle lifecycle; the capture it
  refuses is reported to nobody. `commands.rs:422`: "Everything from here on has to report itself".
* **EditDuringSave** (Persisted). An edit while the save is on its way finds no row to go to, and the save has taken its snapshot. `editor.js:1649`: "the eventual save picks them up".
* **Overtaken** (Persisted). A content snapshot takes longer to encode than a note takes to send, and then writes the older note back.
* **TwoWindows** (Persisted). The editor and a window on the same row overwrite each other's note and picture.
* **WrongWindow** (by hand). Discarding in a window on the history deletes the row and asks for `close_editor`, which closes the window "editor" (`commands.rs:363`, `windows.rs:328`).
  `editor.js:1704`: "Works both for a just-taken capture … and one opened from history".
* **GrownPicture** (FilesAndCaps without its second disjunct). Retention runs at saves only, so an edit may exceed the cap of bytes until the next one. `history.rs:4`: "50 captures OR 200 MB". A capture
  larger than the cap evicts everything, itself included.
* **SavedTwice** (by hand; it takes three captures). An error of retention after the insert makes the save an error; the retry inserts the capture again. `editor.js:1606`: "at most once per editor session".
* **OrphanPictures** (FilesAndCaps). A crash or an error between the PNGs and the row leaves files that nothing removes.

Clipboard (drop `turns`):

* **ForeignIgnored** (Recorded). `ignore_own_write` reads the counter after the write; what another application copies in between is ignored. `clipboard.rs:53`.
* **ReadsConcealed**, **IgnoredApp** (by hand). The marks and the application in front are checked at other
  moments than the content is read. `clipboard.rs:8`, `:11`.
* **PinnedPruned** (by hand). Retention chooses under the lock and deletes after it; an entry pinned in between goes. `clipboard/store.rs:39`.
* **StoredAgain** (NoDuplicate without `blind`). A look-up that fails is taken for "not there" (`clipboard/store.rs:115`), and the content is stored a second time. `:90`: "rather than
  adding a second copy of it".
* **LeftBehind** (FilesMatch without `torn`, WithinCaps without `loose`). An error of a statement, which `clipboard.rs:83` only logs, leaves an image without its row or retention undone; an image that cannot
  be removed is forgotten with its row. Nothing looks for such images again.
* **RowWithoutFile** (by hand). A crash, or a failing statement, between the two deletions leaves a row whose image is gone; copying the image again finds the row by its digest and moves it up
  (`clipboard/store.rs:107`), so it cannot be put back until it is deleted.

## 7. What is not modelled

* Batches refused with 413 or 422, and the pagination and eventual consistency of DynamoDB queries.
* Static-token mode, the browser round trip, keychain failures.
* Validation of JWTs, the rate limiter, error formats, wiring, creating teams, the audit log: no protocol between parts.
* Of the espanso fork: the regex matcher, images, markdown and html, hotkeys, the search bar, alternative codes, cursor hints, delays, filters by application,
  the loading and inheritance of YAML options, packages, services and the command-line tools, and the back-ends of detection and
  injection (calls of the operating system), which are a key pressed and a text changed.
* A clipboard that cannot be read (`clipboard.rs:120`): the copy is skipped. A file of the capture history that cannot be removed (`history.rs:300`): the code
  ignores the error and deletes the row, and the file stays for ever; in CaptureHistory a removal succeeds or the command ends there.
* Capture back-ends and stitching (calls of the operating system, arithmetic on
  pixels), the capture history's fixed columns and legacy rows, shortcuts, updates, logs, the text of YAML files, exports, drawing and menus.
* Content: texts, names and images are values that are only compared.

## 8. Plan

The models of the plan are built: the core with its abstract feed, the components with the most
concurrency, the loop over the teams, the engine's processes, the way from the store to the expanded text, and the capture history. Of each the
safety is proved. What is left:

1. Detects, under an assumption on the triggers that the code does not make: that no two of them fit the same characters.
2. Back-ends that have a protocol of their own: the regex matcher beside the rolling one, and filters by application in the engine.
