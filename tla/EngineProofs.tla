---------------------------- MODULE EngineProofs -----------------------------
(***************************************************************************)
(* Theorems about the expansion engine.  Deployment: for any number of     *)
(* snippets, scopes and workers, any edits and crashes, and every          *)
(* interleaving of renderings, daemon, workers and the outside.            *)
(* Expansion: for any matches and letters, any text and every interleaving *)
(* of the user's keys with the engine, whatever the renderer comes to.     *)
(***************************************************************************)
EXTENDS Deployment, EngineLoop, Integers, FiniteSetTheorems, SequenceTheorems,
        WellFoundedInduction, TLAPS

(***************************************************************************)
(* The inductive invariant: the engine's processes.                        *)
(***************************************************************************)
\* The lock has one holder, who watches; a process that is over does nothing; and a daemon
\* that has not come to its select has no children and has heard of nothing.
Orderly ==
  /\ \A v, w \in Holders : v = w
  /\ watching \subseteq {w \in Workers : stage[w] = "ready"}
  /\ probe # 0 => probe \in watching /\ daemon \in {"begin", "gone"}
  /\ \A w \in Workers : /\ mail[w] # {} \/ busy[w] => stage[w] = "ready"
                        /\ stage[w] # "ended" <=> code[w] = "none"
  /\ daemon \notin {"loop", "wait"} => mine = {} /\ exits = << >> /\ ~expected

\* The exits that the daemon has heard of, but for its own from outside.
Deaths == {i \in DOMAIN exits : exits[i] # "success"}

\* The daemon has one child, which may have ended, ...
Alone ==
  /\ ~expected /\ Deaths = {}
  /\ \E w \in Workers : /\ mine = {w} /\ stage[w] # "none"
                        /\ "exit" \notin mail[w] /\ code[w] # "already"
\* ... or has heard of its end; ...
Bereft ==
  ~expected /\ mine = {} /\ \E i \in DOMAIN exits : Deaths = {i} /\ exits[i] # "already"
\* ... or its child was told to leave, ...
Leaving ==
  /\ expected /\ Deaths = {}
  /\ \E w \in Workers : /\ mine = {w}
                        /\ \/ stage[w] = "ready" /\ "exit" \in mail[w]
                           \/ stage[w] = "ended" /\ code[w] = "success"
\* ... has left, ...
Left == ~expected /\ Deaths = {} /\ mine = {}
\* ... or has a successor before its end is heard of.
Successor(v, w) ==
  /\ mine = {v, w} /\ Deaths = {} /\ stage[w] # "none"
  /\ "exit" \notin mail[w] /\ code[w] \in {"none", "panic"}
Replaced ==
  /\ expected
  /\ \E v \in Workers :
       /\ stage[v] = "ended" /\ code[v] = "success"
       /\ \/ \E w \in Workers \ {v} : Successor(v, w)
          \/ mine = {v} /\ \E i \in DOMAIN exits : Deaths = {i} /\ exits[i] = "panic"

Lineage ==
  /\ daemon \in {"loop", "wait"} => Live \subseteq mine
  /\ daemon = "loop" => Alone \/ Bereft \/ Replaced
  /\ daemon = "wait" => Leaving \/ Left

\* A death that the daemon will count, or has been told to.
Counting ==
  \/ \E w \in mine : code[w] = "nocode" \/ (code[w] = "success" /\ ~expected)
  \/ \E i \in DOMAIN exits : exits[i] \in {"unexpected", "nocode"}

\* Every death that is counted was a stroke.
Counted ==
  /\ respawns <= strikes /\ (Counting => respawns < strikes)
  /\ verdict = "general" => strikes > MaxRespawns

\* A worker that has not read the configuration as it is will be replaced.
UpToDate ==
  daemon = "loop" /\ ~broken => \A w \in Holders : loaded[w] = version \/ changed \/ signals > 0

Engine == TypeOK /\ Orderly /\ (~raced => Lineage /\ Counted /\ UpToDate)

(***************************************************************************)
(* The inductive invariant: the files.                                     *)
(***************************************************************************)
\* It will read the store.
Waiting(t) == work[t].at \in {"notify", "noting", "import", "policy"}

\* The files of the i-th scope.
Bare(i) == scoped[i] = {} /\ filters[i] = "none"
Half(t, i) == scoped[i] = Body(t, Nth(t, i)) /\ filters[i] = "none"
Full(t, i) == scoped[i] = Body(t, Nth(t, i)) /\ filters[i] = Nth(t, i)
Placed(t, n) == \A i \in Slots : IF i <= n THEN Full(t, i) ELSE Bare(i)

\* What a rendering that has the files to itself has done to them.
Progress(t) ==
  /\ work[t].at \in {"plain", "match", "filter", "override"} => ~override
  /\ work[t].at \in {"match", "filter", "override"} => plain = Body(t, "all")
  /\ work[t].at = "plain" => Placed(t, 0)
  /\ work[t].at = "match" => Placed(t, work[t].slot - 1)
  /\ work[t].at = "filter" =>
       \A i \in Slots : IF i < work[t].slot THEN Full(t, i)
                        ELSE IF i = work[t].slot THEN Half(t, i) ELSE Bare(i)
  /\ work[t].at = "override" => Placed(t, Count(t))

\* What it has read is what the store holds, or the other thread will render.
Timely(t) ==
  /\ Waiting(Other(t)) \/ work[t].policy = policy
  /\ Waiting(Other(t)) \/ work[t].at = "list" \/ work[t].rows = rows

\* A rendering that is alone is the only one, and where nothing is owed all are.
Apart(t) ==
  /\ work[t].at \in {"match", "filter"} => work[t].slot \in 1..Count(t)
  /\ work[t].alone => Holding(t) /\ ~Holding(Other(t)) /\ Timely(t)
  /\ Holding(t) /\ debt # "mixed" => ~Holding(Other(t))
  /\ Holding(t) /\ debt = "none" => work[t].alone
  /\ Holding(t) /\ (debt # "mixed" \/ work[t].alone) => Progress(t)

Matched == Active = Wanted /\ override = policy

\* Nothing renders in an application that is down, and one that starts has no client yet.
Started ==
  /\ app = "down" => \A t \in Threads : work[t].at = "idle"
  /\ app = "starting" => work["sync"].at = "idle"

FilesInd ==
  /\ FilesTypeOK /\ ScopesKept /\ Started
  /\ \A t \in Threads : Apart(t)
  /\ debt = "none" /\ (\A t \in Threads : work[t].at = "idle") => Matched

\* The configuration is what the files make of it.
Configured ==
  version.active = Active /\ version.override = override /\ version.hand <= acts /\ acts <= MaxActs

Ind == Engine /\ FilesInd /\ Configured

-----------------------------------------------------------------------------
(***************************************************************************)
(* Types of the engine's processes.                                        *)
(***************************************************************************)
\* What the two constants of the daemon are, and the workers.
LEMMA Numbers ==
  /\ MaxRespawns \in Nat /\ MaxActs \in Nat /\ MaxWorkers \in Nat /\ Unread \notin Versions
  /\ Workers \subseteq Nat \ {0} /\ 0 \notin Workers
BY DaemonConstants DEF Workers

\* A spawned worker takes the place of one that is over.
LEMMA Spawned ==
  ASSUME TypeOK, Spawn
  PROVE  \E w \in Workers :
           /\ Over(w) /\ mine' = mine \cup {w}
           /\ stage' = [stage EXCEPT ![w] = "loading"]
           /\ loaded' = [loaded EXCEPT ![w] = Unread] /\ code' = [code EXCEPT ![w] = "none"]
BY DEF Spawn

\* The types of what a worker's end touches.
LEMMA EndedTypes ==
  ASSUME TypeOK, NEW w \in Workers,
         NEW c \in {"success", "all", "restart", "nocode", "already", "panic"}, EndWorker(w, c)
  PROVE  /\ stage' \in [Workers -> {"none", "loading", "locked", "ready", "ended"}]
         /\ busy' \in [Workers -> BOOLEAN] /\ mail' \in [Workers -> SUBSET ExitModes]
         /\ code' \in [Workers -> {"none", "success", "all", "restart", "nocode", "already", "panic"}]
         /\ watching' \subseteq Workers /\ probe' \in Workers \cup {0}
BY DEF EndWorker, TypeOK

\* What the daemon may hear of a worker's end.
ExitCodes == {"success", "all", "restart", "unexpected", "nocode", "already", "panic"}

\* The types of what the daemon's end touches.
LEMMA GoneTypes ==
  ASSUME NEW v, EndDaemon(v)
  PROVE  /\ daemon' = "gone" /\ verdict' = v /\ mine' = {} /\ exits' = << >> /\ exits' \in Seq(ExitCodes)
         /\ expected' = FALSE /\ respawns' = 0 /\ changed' = FALSE /\ signals' = 0 /\ nudges' = 0
<1>1. << >> \in Seq(ExitCodes)
  OBVIOUS
<1> QED BY <1>1 DEF EndDaemon

\* A daemon that ends touches nothing else.
LEMMA GoneKeeps ==
  ASSUME TypeOK, NEW v \in {"success", "general", "config", "running", "panic", "code"}, EndDaemon(v),
         UNCHANGED <<stage, loaded, busy, mail, code, watching, probe, version, broken, strikes, raced>>,
         acts' \in Nat
  PROVE  TypeOK'
<1>1. /\ daemon' \in {"begin", "load", "stuck", "clear", "purge", "loop", "wait", "gone"}
      /\ verdict' \in {"none", "success", "general", "config", "running", "panic", "code"}
      /\ expected' \in BOOLEAN /\ changed' \in BOOLEAN /\ mine' \subseteq Workers
      /\ respawns' \in Nat /\ signals' \in Nat /\ nudges' \in Nat
  BY DEF EndDaemon
<1>2. exits' \in Seq({"success", "all", "restart", "unexpected", "nocode", "already", "panic"})
  BY GoneTypes DEF ExitCodes
<1> QED BY <1>1, <1>2 DEF TypeOK

\* The daemon's steps keep the types.
LEMMA DaemonTypes == ASSUME TypeOK, Daemon PROVE TypeOK'
<1> USE DEF conf, chans, books, procs
<1>1. CASE Begin
  <2>1. CASE probe = 0
    BY <1>1, <2>1 DEF TypeOK, Begin
  <2>2. CASE probe # 0
    BY <1>1, <2>2, GoneKeeps DEF TypeOK, Begin
  <2> QED BY <2>1, <2>2
<1>10. CASE LoadConfig \/ WaitOver
  BY <1>10 DEF TypeOK, LoadConfig, WaitOver
<1>2. CASE PurgeOver
  BY <1>2, GoneKeeps DEF TypeOK, PurgeOver
<1>11. CASE Reload
  <2>1. signals' \in Nat
    BY <1>11 DEF Reload, TypeOK
  <2> QED BY <1>11, <2>1 DEF TypeOK, Reload
<1>12. CASE Debounce
  <2>1. signals \in Nat /\ signals' = signals + 1 /\ changed' = FALSE
    BY <1>12 DEF Debounce, TypeOK
  <2>2. changed' \in BOOLEAN
    BY <2>1
  <2>4. signals' \in Nat
    BY <2>1
  <2>3. UNCHANGED <<daemon, verdict, mine, exits, expected, respawns, nudges, version, broken, stage, loaded, busy, mail,
                    code, watching, probe, acts, strikes, raced>>
    BY <1>12 DEF Debounce
  <2> QED BY <2>2, <2>3, <2>4 DEF TypeOK
<1>m. ASSUME NEW m \in ExitModes, Tell(m) PROVE mail' \in [Workers -> SUBSET ExitModes]
  BY <1>m DEF Tell, TypeOK
<1>3. CASE ClearTell
  <2>1. mail' \in [Workers -> SUBSET ExitModes]
    BY <1>m, <1>3 DEF ClearTell, ExitModes
  <2> QED BY <1>3, <2>1 DEF TypeOK, ClearTell
<1>4. ASSUME Restart PROVE /\ mail' \in [Workers -> SUBSET ExitModes] /\ expected' = TRUE /\ daemon' = "wait"
                           /\ raced' \in BOOLEAN /\ UNCHANGED <<stage, loaded, busy, code, watching>>
  BY <1>m, <1>4 DEF Restart, ExitModes, TypeOK
<1>5. CASE OnConfigSignal
  <2>1. signals' \in Nat
    BY <1>5 DEF OnConfigSignal, TypeOK
  <2>2. CASE broken
    BY <1>5, <2>1, <2>2 DEF OnConfigSignal, TypeOK
  <2>3. CASE ~broken
    <3>1. Restart
      BY <1>5, <2>3 DEF OnConfigSignal
    <3> QED BY <1>4, <1>5, <2>1, <3>1 DEF OnConfigSignal, TypeOK
  <2> QED BY <2>2, <2>3
<1>6. CASE OnNudge
  BY <1>4, <1>6 DEF OnNudge, TypeOK
<1>7. ASSUME Spawn
      PROVE /\ mine' \subseteq Workers
            /\ stage' \in [Workers -> {"none", "loading", "locked", "ready", "ended"}]
            /\ loaded' \in [Workers -> Versions \cup {Unread}]
            /\ code' \in [Workers -> {"none", "success", "all", "restart", "nocode", "already", "panic"}]
  BY <1>7, Spawned DEF TypeOK
<1>8. CASE ClearFree \/ WaitFree
  BY <1>7, <1>8 DEF ClearFree, WaitFree, TypeOK
<1>9. CASE OnExit
  <2> DEFINE c == Head(exits)
             died == c \in {"unexpected", "nocode"}
  <2>1. Tail(exits) \in Seq({"success", "all", "restart", "unexpected", "nocode", "already", "panic"})
    BY <1>9 DEF OnExit, TypeOK
  <2>2. CASE c = "restart" \/ (died /\ respawns < MaxRespawns)
    <3>1. /\ Spawn /\ exits' = Tail(exits) /\ respawns' = respawns + (IF died THEN 1 ELSE 0)
          /\ UNCHANGED <<daemon, verdict, expected, changed, signals, nudges, version, broken, busy, mail, watching,
                         probe, acts, strikes, raced>>
      BY <1>9, <2>2 DEF OnExit
    <3> QED BY <1>7, <2>1, <3>1 DEF TypeOK
  <2>3. CASE ~(c = "restart" \/ (died /\ respawns < MaxRespawns))
    <3>1. /\ \E v \in {"success", "general", "code"} : EndDaemon(v)
          /\ UNCHANGED <<stage, loaded, code, version, broken, busy, mail, watching, probe, acts, strikes, raced>>
      BY <1>9, <2>3 DEF OnExit
    <3> QED BY <3>1, GoneKeeps DEF TypeOK
  <2> QED BY <2>2, <2>3
<1> QED BY <1>1, <1>2, <1>3, <1>5, <1>6, <1>8, <1>9, <1>10, <1>11, <1>12 DEF Daemon

\* The workers' steps keep the types.
LEMMA WorkerTypes == ASSUME TypeOK, Orderly, NEW w \in Workers, Worker(w) PROVE TypeOK'
<1> USE DEF conf, chans, books, procs
<1>1. CASE Report(w)
  <2>1. code[w] \in {"success", "all", "restart", "nocode", "already", "panic"}
    BY <1>1 DEF Report, TypeOK, Orderly
  <2>2. exits' = exits \/ \E c \in {"all", "restart", "unexpected", "nocode", "already", "panic"} : exits' = Append(exits, c)
    BY <1>1, <2>1 DEF Report
  <2>3. exits' \in Seq({"success", "all", "restart", "unexpected", "nocode", "already", "panic"})
    BY <2>2 DEF TypeOK
  <2>4. expected' \in BOOLEAN
    BY <1>1 DEF Report, TypeOK
  <2> QED BY <1>1, <2>3, <2>4 DEF Report, TypeOK
<1>2. CASE StartUp(w)
  <2>1. CASE EndWorker(w, "panic") \/ EndWorker(w, "already")
    BY <1>2, <2>1, EndedTypes DEF StartUp, TypeOK
  <2>2. CASE /\ stage' = [stage EXCEPT ![w] = "locked"] /\ loaded' = [loaded EXCEPT ![w] = version]
             /\ UNCHANGED <<busy, mail, code, watching, probe>>
    BY <1>2, <2>2 DEF StartUp, TypeOK
  <2> QED BY <1>2, <2>1, <2>2 DEF StartUp
<1>3. CASE Listen(w)
  BY <1>3 DEF Listen, TypeOK
<1>6. CASE FormCloses(w)
  BY <1>6 DEF FormCloses, TypeOK
<1>7. CASE Probe(w)
  BY <1>7 DEF Probe, TypeOK
<1>4. CASE Conclude(w)
  BY <1>4 DEF Conclude, TypeOK, ExitModes
<1>5. ASSUME NEW m \in ExitModes, Leave(w, m) PROVE TypeOK'
  <2>1. \E c \in {"success", "all", "restart"} : EndWorker(w, c)
    BY <1>5 DEF Leave, ExitModes
  <2>2. raced' \in BOOLEAN
    BY <1>5 DEF Leave, TypeOK
  <2> QED BY <1>5, <2>1, <2>2, EndedTypes DEF Leave, TypeOK
<1> QED BY <1>1, <1>2, <1>3, <1>4, <1>5, <1>6, <1>7 DEF Worker

\* What comes from outside keeps the types.
LEMMA OutsideTypes == ASSUME TypeOK, Outside PROVE TypeOK'
<1> USE DEF conf, chans, books, procs
<1>1. CASE Abort \/ KillDaemon
  BY <1>1, GoneKeeps DEF Abort, KillDaemon, Act, TypeOK
<1>2. CASE Nudge \/ Relaunch
  BY <1>2 DEF Nudge, Relaunch, Act, TypeOK
<1>3. CASE AskDaemon
  BY <1>3 DEF AskDaemon, Act, TypeOK
<1>4. ASSUME NEW w \in Workers, FormOpens(w) PROVE TypeOK'
  BY <1>4 DEF FormOpens, Act, TypeOK
<1>5. ASSUME NEW w \in Workers, NEW m \in {"all", "restart"}, Ask(w, m) PROVE TypeOK'
  BY <1>5 DEF Ask, Act, TypeOK, ExitModes
<1>6. ASSUME NEW w \in Workers, NEW c \in {"success", "nocode"}, StrikeWorker(w, c) PROVE TypeOK'
  BY <1>6, EndedTypes DEF StrikeWorker, Act, TypeOK
<1> QED BY <1>1, <1>2, <1>3, <1>4, <1>5, <1>6 DEF Outside

-----------------------------------------------------------------------------
(***************************************************************************)
(* The locks, the mail and the monitors.                                   *)
(***************************************************************************)
\* The end of a worker frees what it held.
LEMMA EndedOrderly ==
  ASSUME TypeOK, Orderly, NEW w \in Workers, EndWorker(w, code'[w]), code'[w] # "none",
         UNCHANGED <<daemon, mine, exits, expected>>
  PROVE  Orderly'
<1>1. \A v \in Workers : /\ stage'[v] = IF v = w THEN "ended" ELSE stage[v]
                         /\ code'[v] = IF v = w THEN code'[w] ELSE code[v]
                         /\ busy'[v] = IF v = w THEN FALSE ELSE busy[v]
                         /\ mail'[v] = IF v = w THEN {} ELSE mail[v]
  BY DEF EndWorker, TypeOK
<1>2. Holders' = Holders \ {w}
  BY <1>1 DEF Holders
<1>3. watching' = watching \ {w} /\ probe' = IF probe = w THEN 0 ELSE probe
  BY DEF EndWorker
<1>4. probe' # 0 => probe' \in watching' /\ daemon' \in {"begin", "gone"}
  BY <1>3 DEF Orderly
<1> QED BY <1>1, <1>2, <1>3, <1>4 DEF Orderly

\* A spawned worker holds nothing and has no mail.
LEMMA SpawnOrderly ==
  ASSUME TypeOK, Orderly, Spawn, daemon' \in {"loop", "wait"}, probe = 0,
         UNCHANGED <<busy, mail, watching, probe>>
  PROVE  Orderly'
<1>1. PICK w \in Workers :
        /\ Over(w) /\ stage' = [stage EXCEPT ![w] = "loading"] /\ code' = [code EXCEPT ![w] = "none"]
  BY Spawned
<1>2. \A v \in Workers : /\ stage'[v] = IF v = w THEN "loading" ELSE stage[v]
                         /\ code'[v] = IF v = w THEN "none" ELSE code[v]
  BY <1>1 DEF TypeOK
<1>3. Holders' = Holders /\ mail[w] = {} /\ ~busy[w]
  BY <1>1, <1>2 DEF Holders, Over, Orderly, TypeOK
<1>4. stage[w] # "ready" /\ \A v \in Workers : stage'[v] = "ready" <=> stage[v] = "ready"
  BY <1>1, <1>2 DEF Over
<1> QED BY <1>2, <1>3, <1>4 DEF Orderly

\* The daemon's steps leave the lock, the mail and the monitors in order.
LEMMA DaemonOrderly == ASSUME TypeOK, Orderly, Daemon PROVE Orderly'
<1> USE DEF conf, chans, books, procs
<1>1. ASSUME NEW v, EndDaemon(v), UNCHANGED procs, UNCHANGED probe PROVE Orderly'
  BY <1>1, GoneTypes DEF Orderly, Holders
<1>2. ASSUME NEW m, Tell(m)
      PROVE  \A w \in Workers : mail'[w] = IF stage[w] = "ready" THEN mail[w] \cup {m} ELSE mail[w]
  BY <1>2 DEF Tell
<1>3. CASE Begin
  <2>1. CASE probe = 0
    BY <1>3, <2>1 DEF Begin, Orderly, Holders
  <2>2. CASE probe # 0
    BY <1>1, <1>3, <2>2 DEF Begin
  <2> QED BY <2>1, <2>2
<1>4. CASE LoadConfig \/ Reload
  BY <1>4 DEF LoadConfig, Reload, Orderly, Holders
<1>5. CASE PurgeOver
  BY <1>1, <1>5 DEF PurgeOver
<1>6. CASE WaitOver \/ Debounce
  BY <1>6 DEF WaitOver, Debounce, Orderly, Holders
<1>7. CASE ClearTell
  BY <1>2, <1>7 DEF ClearTell, Orderly, Holders
<1>8. CASE OnConfigSignal \/ OnNudge
  <2>1. UNCHANGED <<daemon, expected, stage, loaded, busy, mail, code, watching>> \/ Restart
    BY <1>8 DEF OnConfigSignal, OnNudge
  <2>2. daemon = "loop" /\ UNCHANGED <<probe, mine, exits>>
    BY <1>8 DEF OnConfigSignal, OnNudge
  <2>3. CASE Restart
    BY <1>2, <2>2, <2>3 DEF Restart, Orderly, Holders
  <2>4. CASE UNCHANGED <<daemon, expected, stage, loaded, busy, mail, code, watching>>
    BY <2>2, <2>4 DEF Orderly, Holders
  <2> QED BY <2>1, <2>3, <2>4
<1>9. CASE ClearFree \/ WaitFree
  <2>1. probe = 0
    BY <1>9 DEF ClearFree, WaitFree, Orderly
  <2> QED BY <1>9, <2>1, SpawnOrderly DEF ClearFree, WaitFree
<1>10. CASE OnExit
  <2>1. probe = 0
    BY <1>10 DEF OnExit, Orderly
  <2>2. \/ Spawn /\ UNCHANGED <<daemon, expected>>
        \/ (\E v \in {"success", "general", "code"} : EndDaemon(v)) /\ UNCHANGED <<stage, loaded, code>>
    BY <1>10 DEF OnExit
  <2>3. UNCHANGED <<busy, mail, watching, probe>> /\ daemon = "loop"
    BY <1>10 DEF OnExit
  <2>4. CASE Spawn /\ UNCHANGED <<daemon, expected>>
    BY <2>1, <2>3, <2>4, SpawnOrderly
  <2>5. CASE (\E v \in {"success", "general", "code"} : EndDaemon(v)) /\ UNCHANGED <<stage, loaded, code>>
    BY <1>1, <2>3, <2>5
  <2> QED BY <2>2, <2>4, <2>5
<1> QED BY <1>3, <1>4, <1>5, <1>6, <1>7, <1>8, <1>9, <1>10 DEF Daemon

\* Where a worker's mail, form and place are all that changes.
LEMMA MailOrderly ==
  ASSUME TypeOK, Orderly, UNCHANGED <<daemon, mine, exits, expected, stage, code>>,
         \A v \in Workers : mail'[v] # {} \/ busy'[v] => stage[v] = "ready",
         watching' \subseteq watching, probe' # 0 => probe' \in watching' /\ daemon \in {"begin", "gone"}
  PROVE  Orderly'
BY DEF Orderly, Holders

\* A worker takes the lock only when nobody holds it, and frees it when it ends.
LEMMA WorkerOrderly == ASSUME TypeOK, Orderly, NEW w \in Workers, Worker(w) PROVE Orderly'
<1> USE DEF conf, chans, books, procs
<1>1. CASE Report(w)
  <2>1. \A v \in Workers : /\ stage'[v] = IF v = w THEN "none" ELSE stage[v]
                           /\ code'[v] = IF v = w THEN "none" ELSE code[v]
    BY <1>1 DEF Report, TypeOK
  <2>2. stage[w] = "ended" /\ w \in mine /\ UNCHANGED <<daemon, busy, mail, watching, probe>>
    BY <1>1 DEF Report
  <2>3. Holders' = Holders /\ daemon \in {"loop", "wait"}
    BY <2>1, <2>2 DEF Holders, Orderly
  <2> QED BY <2>1, <2>2, <2>3 DEF Orderly
<1>2. CASE StartUp(w)
  <2>1. UNCHANGED <<daemon, mine, exits, expected>> /\ stage[w] = "loading"
    BY <1>2 DEF StartUp
  <2>2. ASSUME NEW c \in {"panic", "already"}, EndWorker(w, c) PROVE Orderly'
    <3>1. code'[w] = c
      BY <2>2 DEF EndWorker, TypeOK
    <3> QED BY <2>1, <2>2, <3>1, EndedOrderly
  <2>3. CASE /\ Holders = {}
             /\ stage' = [stage EXCEPT ![w] = "locked"] /\ loaded' = [loaded EXCEPT ![w] = version]
             /\ UNCHANGED <<busy, mail, code, watching, probe>>
    <3>1. \A v \in Workers : stage'[v] = IF v = w THEN "locked" ELSE stage[v]
      BY <2>3 DEF TypeOK
    <3>2. Holders' = {w}
      BY <2>3, <3>1 DEF Holders
    <3>3. watching = {} /\ probe = 0
      BY <2>3 DEF Orderly, Holders
    <3> QED BY <2>1, <2>3, <3>1, <3>2, <3>3 DEF Orderly
  <2> QED BY <1>2, <2>2, <2>3 DEF StartUp
<1>3. CASE Listen(w)
  <2>1. \A v \in Workers : stage'[v] = IF v = w THEN "ready" ELSE stage[v]
    BY <1>3 DEF Listen, TypeOK
  <2>2. stage[w] = "locked" /\ watching' = watching \cup {w} /\ UNCHANGED <<daemon, mine, exits, expected, busy, mail, code, probe>>
    BY <1>3 DEF Listen
  <2>3. Holders' = Holders /\ w \in Holders
    BY <2>1, <2>2 DEF Holders
  <2> QED BY <2>1, <2>2, <2>3 DEF Orderly
<1>4. CASE FormCloses(w)
  <2>1. \A v \in Workers : busy'[v] => busy[v]
    BY <1>4 DEF FormCloses, TypeOK
  <2>2. UNCHANGED <<daemon, mine, exits, expected, stage, code, mail, watching, probe>>
    BY <1>4 DEF FormCloses
  <2> QED BY <2>1, <2>2, MailOrderly DEF Orderly
<1>5. CASE Probe(w)
  BY <1>5, MailOrderly DEF Probe, Orderly
<1>6. CASE Conclude(w)
  <2>1. \A v \in Workers : mail'[v] # {} => mail[v] # {} \/ v = w
    BY <1>6 DEF Conclude, TypeOK
  <2>2. w \in watching /\ probe = w /\ UNCHANGED <<daemon, mine, exits, expected, stage, code, busy>>
        /\ probe' = 0 /\ watching' = watching \ {w}
    BY <1>6, Numbers DEF Conclude, Orderly
  <2>3. stage[w] = "ready"
    BY <2>2 DEF Orderly
  <2> QED BY <2>1, <2>2, <2>3, MailOrderly DEF Orderly
<1>7. ASSUME NEW m \in ExitModes, Leave(w, m) PROVE Orderly'
  <2>1. \E c \in {"success", "all", "restart"} : EndWorker(w, c)
    BY <1>7 DEF Leave, ExitModes
  <2>2. PICK c \in {"success", "all", "restart"} : EndWorker(w, c)
    BY <2>1
  <2>3. code'[w] = c
    BY <2>2 DEF EndWorker, TypeOK
  <2>4. UNCHANGED <<daemon, mine, exits, expected>>
    BY <1>7 DEF Leave
  <2> QED BY <2>2, <2>3, <2>4, EndedOrderly
<1> QED BY <1>1, <1>2, <1>3, <1>4, <1>5, <1>6, <1>7 DEF Worker

\* What comes from outside reaches only who listens.
LEMMA OutsideOrderly == ASSUME TypeOK, Orderly, Outside PROVE Orderly'
<1> USE DEF conf, chans, books, procs
<1>1. CASE Abort \/ KillDaemon
  BY <1>1, GoneTypes DEF Abort, KillDaemon, Orderly, Holders
<1>2. CASE Nudge \/ Relaunch
  BY <1>2 DEF Nudge, Relaunch, Orderly, Holders
<1>3. CASE AskDaemon
  BY <1>3 DEF AskDaemon, Orderly, Holders
<1>4. ASSUME NEW w \in Workers, FormOpens(w) PROVE Orderly'
  <2>1. \A v \in Workers : busy'[v] => busy[v] \/ v = w
    BY <1>4 DEF FormOpens, TypeOK
  <2>2. UNCHANGED <<daemon, mine, exits, expected, stage, code, mail, watching, probe>> /\ stage[w] = "ready"
    BY <1>4 DEF FormOpens
  <2> QED BY <2>1, <2>2, MailOrderly DEF Orderly
<1>5. ASSUME NEW w \in Workers, NEW m \in {"all", "restart"}, Ask(w, m) PROVE Orderly'
  <2>1. \A v \in Workers : mail'[v] # {} => mail[v] # {} \/ v = w
    BY <1>5 DEF Ask, TypeOK
  <2>2. UNCHANGED <<daemon, mine, exits, expected, stage, code, busy, watching, probe>> /\ stage[w] = "ready"
    BY <1>5 DEF Ask
  <2> QED BY <2>1, <2>2, MailOrderly DEF Orderly
<1>6. ASSUME NEW w \in Workers, NEW c \in {"success", "nocode"}, StrikeWorker(w, c) PROVE Orderly'
  <2>1. EndWorker(w, c) /\ UNCHANGED <<daemon, mine, exits, expected>>
    BY <1>6 DEF StrikeWorker
  <2>2. code'[w] = c
    BY <2>1 DEF EndWorker, TypeOK
  <2> QED BY <2>1, <2>2, EndedOrderly
<1> QED BY <1>1, <1>2, <1>3, <1>4, <1>5, <1>6 DEF Outside

-----------------------------------------------------------------------------
(***************************************************************************)
(* The exits that are heard of.                                            *)
(***************************************************************************)
\* An exit that was asked for from outside is no death.
LEMMA AskedIsNoDeath ==
  ASSUME TypeOK, exits' = Append(exits, "success")
  PROVE  Deaths' = Deaths /\ DOMAIN exits \subseteq DOMAIN exits' /\ \A i \in DOMAIN exits : exits'[i] = exits[i]
BY DEF TypeOK, Deaths

\* One that is not is the only one where there was none.
LEMMA FirstDeath ==
  ASSUME TypeOK, Deaths = {}, NEW c \in ExitCodes \ {"success"}, exits' = Append(exits, c)
  PROVE  \E i \in DOMAIN exits' : Deaths' = {i} /\ exits'[i] = c
<1>1. exits \in Seq(ExitCodes) /\ Len(exits) + 1 \in DOMAIN exits' /\ exits'[Len(exits) + 1] = c
  BY DEF TypeOK, ExitCodes
<1>2. Deaths' = {Len(exits) + 1}
  BY <1>1 DEF Deaths
<1> QED BY <1>1, <1>2

\* Where one is heard of there was one, and taking the only one leaves none.
LEMMA LastDeath ==
  ASSUME TypeOK, exits # << >>, Head(exits) # "success"
  PROVE  /\ 1 \in Deaths /\ 1 \in DOMAIN exits /\ exits[1] = Head(exits)
         /\ (Deaths = {1} /\ exits' = Tail(exits)) => Deaths' = {} /\ \A i \in DOMAIN exits' : exits'[i] = "success"
<1>1. exits \in Seq(ExitCodes) /\ 1 \in DOMAIN exits /\ exits[1] = Head(exits)
  BY DEF TypeOK, ExitCodes
<1>2. ASSUME Deaths = {1}, exits' = Tail(exits), NEW i \in DOMAIN exits' PROVE exits'[i] = "success"
  <2>1. i \in Nat /\ i + 1 \in DOMAIN exits /\ exits'[i] = exits[i + 1] /\ i + 1 # 1
    BY <1>1, <1>2
  <2> QED BY <1>2, <2>1 DEF Deaths
<1> QED BY <1>1, <1>2 DEF Deaths

-----------------------------------------------------------------------------
(***************************************************************************)
(* The line of workers.                                                    *)
(***************************************************************************)
\* Most steps do not touch it.
LEMMA SameLine ==
  ASSUME Lineage, UNCHANGED <<mine, exits, expected, stage, code>>,
         daemon' = daemon \/ daemon' \notin {"loop", "wait"},
         \A w \in Workers : "exit" \in mail'[w] <=> "exit" \in mail[w]
  PROVE  Lineage'
<1>1. Live' = Live /\ Deaths' = Deaths
  BY DEF Live, Deaths
<1>2. (Alone => Alone') /\ (Bereft => Bereft') /\ (Leaving => Leaving') /\ (Left => Left')
  BY <1>1 DEF Alone, Bereft, Leaving, Left
<1>3. Replaced => Replaced'
  <2>1. \A v, w \in Workers : Successor(v, w) => Successor(v, w)'
    BY <1>1 DEF Successor
  <2> QED BY <1>1, <2>1 DEF Replaced
<1> QED BY <1>1, <1>2, <1>3 DEF Lineage

\* A worker that is spawned where the daemon has none is alone.
LEMMA SpawnAlone ==
  ASSUME TypeOK, Orderly, Spawn, UNCHANGED mail, mine = {}, Live = {}, ~expected', Deaths' = {}
  PROVE  Live' \subseteq mine' /\ Alone'
<1>1. PICK w \in Workers :
        /\ Over(w) /\ stage' = [stage EXCEPT ![w] = "loading"] /\ code' = [code EXCEPT ![w] = "none"]
        /\ mine' = mine \cup {w}
  BY Spawned
<1>2. \A v \in Workers : stage'[v] = IF v = w THEN "loading" ELSE stage[v]
  BY <1>1 DEF TypeOK
<1>3. code'[w] = "none" /\ mail'[w] = {}
  BY <1>1 DEF TypeOK, Over, Orderly
<1> QED BY <1>1, <1>2, <1>3 DEF Live, Alone

\* Whatever the daemon does, it knows of one worker at most; a step that does not is `raced'.
LEMMA DaemonLine == ASSUME TypeOK, Orderly, Lineage, Daemon, ~raced' PROVE Lineage'
<1> USE DEF conf, chans, books, procs
<1>1. CASE Begin \/ LoadConfig \/ Reload \/ PurgeOver
  BY <1>1, GoneTypes DEF Begin, LoadConfig, Reload, PurgeOver, Lineage
<1>2. CASE ClearTell
  BY <1>2 DEF ClearTell, Lineage
<1>3. CASE WaitOver
  BY <1>3 DEF WaitOver
<1>4. CASE Debounce
  BY <1>4, SameLine DEF Debounce
<1>5. CASE OnConfigSignal \/ OnNudge
  <2>1. UNCHANGED <<daemon, expected, stage, busy, mail, code>> \/ Restart
    BY <1>5 DEF OnConfigSignal, OnNudge
  <2>2. UNCHANGED <<mine, exits>>
    BY <1>5 DEF OnConfigSignal, OnNudge
  <2>3. CASE Restart
    <3>1. Steady /\ expected' = TRUE /\ daemon' = "wait" /\ Tell("exit") /\ UNCHANGED <<stage, code>>
      BY <2>3 DEF Restart
    <3>2. PICK w \in Workers : mine = {w} /\ Live = {w} /\ stage[w] = "ready" /\ exits = << >>
      BY <3>1 DEF Steady
    <3>3. "exit" \in mail'[w]
      BY <3>1, <3>2 DEF Tell
    <3>4. Deaths' = {} /\ Live' = Live
      BY <2>2, <3>1, <3>2 DEF Deaths, Live
    <3>5. Leaving'
      BY <2>2, <3>1, <3>2, <3>3, <3>4 DEF Leaving
    <3> QED BY <2>2, <3>1, <3>2, <3>4, <3>5 DEF Lineage
  <2>4. CASE UNCHANGED <<daemon, expected, stage, busy, mail, code>>
    BY <2>2, <2>4, SameLine
  <2> QED BY <2>1, <2>3, <2>4
<1>6. CASE ClearFree
  <2>1. mine = {} /\ exits = << >> /\ ~expected /\ Live = {} /\ Spawn /\ UNCHANGED <<mail, exits, expected>>
        /\ daemon' = "loop"
    BY <1>6 DEF ClearFree, Orderly
  <2>2. Deaths' = {}
    BY <2>1 DEF Deaths
  <2> QED BY <2>1, <2>2, SpawnAlone DEF Lineage
<1>7. CASE WaitFree
  <2>1. /\ daemon = "wait" /\ Holders = {} /\ Spawn /\ daemon' = "loop" /\ UNCHANGED <<exits, expected, mail>>
        /\ Live \subseteq mine /\ (Leaving \/ Left)
    BY <1>7 DEF WaitFree, Lineage
  <2>2. Deaths' = Deaths
    BY <2>1 DEF Deaths
  <2>3. CASE Left
    <3>1. mine = {} /\ Live = {} /\ ~expected' /\ Deaths' = {}
      BY <2>1, <2>2, <2>3 DEF Left
    <3> QED BY <2>1, <3>1, SpawnAlone DEF Lineage
  <2>4. CASE Leaving
    <3>1. PICK v \in Workers : mine = {v} /\ stage[v] = "ended" /\ code[v] = "success" /\ expected /\ Deaths = {}
      BY <2>1, <2>4 DEF Leaving, Holders
    <3>2. PICK w \in Workers :
            /\ Over(w) /\ stage' = [stage EXCEPT ![w] = "loading"] /\ code' = [code EXCEPT ![w] = "none"]
            /\ mine' = mine \cup {w}
      BY <2>1, Spawned
    <3>3. w # v
      BY <3>1, <3>2 DEF Over
    <3>4. \A u \in Workers : /\ stage'[u] = IF u = w THEN "loading" ELSE stage[u]
                             /\ code'[u] = IF u = w THEN "none" ELSE code[u]
      BY <3>2 DEF TypeOK
    <3>5. mail'[w] = {}
      BY <2>1, <3>2 DEF Over, Orderly
    <3>6. Successor(v, w)'
      BY <2>2, <3>1, <3>2, <3>3, <3>4, <3>5 DEF Successor
    <3>7. Replaced'
      BY <2>1, <3>1, <3>3, <3>4, <3>6 DEF Replaced
    <3>8. Live' \subseteq mine'
      BY <2>1, <3>2, <3>4 DEF Live
    <3> QED BY <2>1, <3>7, <3>8 DEF Lineage
  <2> QED BY <2>1, <2>3, <2>4
<1>8. CASE OnExit
  <2> DEFINE c == Head(exits)
  <2>1. /\ daemon = "loop" /\ exits # << >> /\ UNCHANGED mail
        /\ \/ Spawn /\ c \in {"restart", "unexpected", "nocode"} /\ exits' = Tail(exits) /\ UNCHANGED <<daemon, expected>>
           \/ daemon' = "gone"
    BY <1>8, GoneTypes DEF OnExit
  <2>2. CASE daemon' = "gone"
    BY <2>2 DEF Lineage
  <2>3. CASE Spawn /\ c \in {"restart", "unexpected", "nocode"} /\ exits' = Tail(exits) /\ UNCHANGED <<daemon, expected>>
    <3>1. c # "success" /\ 1 \in Deaths /\ exits[1] = c
      BY <2>1, <2>3, LastDeath
    <3>2. ~Alone
      BY <3>1 DEF Alone
    <3>3. ~Replaced
      BY <2>3, <3>1 DEF Replaced, Successor
    <3>4. Bereft /\ Live \subseteq mine
      BY <2>1, <3>2, <3>3 DEF Lineage
    <3>5. mine = {} /\ ~expected /\ Live = {} /\ Deaths = {1}
      BY <3>1, <3>4 DEF Bereft
    <3>6. Deaths' = {}
      BY <2>1, <2>3, <3>1, <3>5, LastDeath
    <3>7. Live' \subseteq mine' /\ Alone'
      BY <2>1, <2>3, <3>5, <3>6, SpawnAlone
    <3> QED BY <2>1, <2>3, <3>7 DEF Lineage
  <2> QED BY <2>1, <2>2, <2>3
<1> QED BY <1>1, <1>2, <1>3, <1>4, <1>5, <1>6, <1>7, <1>8 DEF Daemon

\* What a worker that is the daemon's, and has not ended, can be.
LEMMA OfTheLine ==
  ASSUME TypeOK, Lineage, daemon \in {"loop", "wait"}, NEW w \in Live
  PROVE  /\ w \in Workers /\ w \in mine /\ stage[w] \in {"loading", "locked", "ready"}
         /\ \/ daemon = "loop" /\ Alone /\ mine = {w}
            \/ daemon = "wait" /\ Leaving /\ mine = {w} /\ stage[w] = "ready"
            \/ /\ daemon = "loop" /\ expected
               /\ \E v \in Workers \ {w} : stage[v] = "ended" /\ code[v] = "success" /\ Successor(v, w)
<1>1. w \in Workers /\ w \in mine /\ stage[w] \in {"loading", "locked", "ready"}
  BY DEF Lineage, Live
<1>2. ~Bereft /\ ~Left
  BY <1>1 DEF Bereft, Left
<1>3. CASE daemon = "loop" /\ Alone
  BY <1>1, <1>3 DEF Alone
<1>4. CASE daemon = "wait" /\ Leaving
  BY <1>1, <1>4 DEF Leaving
<1>5. CASE daemon = "loop" /\ Replaced
  BY <1>1, <1>5 DEF Replaced, Successor
<1> QED BY <1>1, <1>2, <1>3, <1>4, <1>5 DEF Lineage

\* The end of a worker, in the line or not.
LEMMA EndedLine ==
  ASSUME TypeOK, Orderly, Lineage, NEW w \in Live, NEW c, EndWorker(w, c), c # "none", c # "already",
         UNCHANGED <<daemon, mine, exits, expected>>,
         expected => (c = "panic" /\ stage[w] = "loading") \/ (c = "success" /\ daemon = "wait")
  PROVE  Lineage'
<1>w. w \in Workers /\ stage[w] \in {"loading", "locked", "ready"}
  BY DEF Live
<1>1. \A v \in Workers : /\ stage'[v] = IF v = w THEN "ended" ELSE stage[v]
                         /\ code'[v] = IF v = w THEN c ELSE code[v]
                         /\ mail'[v] = IF v = w THEN {} ELSE mail[v]
  BY DEF EndWorker, TypeOK
<1>2. Live' = Live \ {w} /\ Deaths' = Deaths
  BY <1>1 DEF Live, Deaths
<1>3. CASE daemon \notin {"loop", "wait"}
  BY <1>3 DEF Lineage
<1>4. CASE daemon = "loop" /\ Alone /\ mine = {w}
  <2>1. Alone'
    BY <1>w, <1>1, <1>2, <1>4 DEF Alone
  <2> QED BY <1>2, <1>4, <2>1 DEF Lineage
<1>5. CASE daemon = "wait" /\ Leaving /\ mine = {w} /\ stage[w] = "ready"
  <2>1. c = "success"
    BY <1>5 DEF Leaving
  <2>2. Leaving'
    BY <1>w, <1>1, <1>2, <1>5, <2>1 DEF Leaving
  <2> QED BY <1>2, <1>5, <2>2 DEF Lineage
<1>6. ASSUME daemon = "loop", expected, NEW v \in Workers \ {w}, stage[v] = "ended", code[v] = "success", Successor(v, w)
      PROVE  Lineage'
  <2>1. c = "panic"
    BY <1>6
  <2>2. Successor(v, w)'
    BY <1>w, <1>1, <1>2, <1>6, <2>1 DEF Successor
  <2>3. Replaced'
    BY <1>w, <1>1, <1>6, <2>2 DEF Replaced
  <2>4. Live' \subseteq mine'
    BY <1>2, <1>6 DEF Lineage
  <2> QED BY <1>6, <2>3, <2>4 DEF Lineage
<1> QED BY <1>3, <1>4, <1>5, <1>6, OfTheLine

\* A worker that goes on stays in the line.
LEMMA GoesOn ==
  ASSUME TypeOK, Lineage, NEW w \in Workers, NEW p \in {"locked", "ready"}, stage[w] \in {"loading", "locked"},
         stage' = [stage EXCEPT ![w] = p], UNCHANGED <<daemon, mine, exits, expected, code, mail>>
  PROVE  Lineage'
<1>1. \A v \in Workers : stage'[v] = IF v = w THEN p ELSE stage[v]
  BY DEF TypeOK
<1>2. Live' = Live /\ Deaths' = Deaths
  BY <1>1 DEF Live, Deaths
<1>3. (Alone => Alone') /\ (Bereft => Bereft') /\ (Left => Left') /\ (Leaving => Leaving')
  BY <1>1, <1>2 DEF Alone, Bereft, Leaving, Left
<1>4. Replaced => Replaced'
  <2>1. \A u, v \in Workers : Successor(u, v) => Successor(u, v)'
    BY <1>1, <1>2 DEF Successor
  <2> QED BY <1>1, <1>2, <2>1 DEF Replaced
<1> QED BY <1>2, <1>3, <1>4 DEF Lineage

\* The report of an end takes it out of the line.
LEMMA ReportLine == ASSUME TypeOK, Orderly, Lineage, NEW w \in Workers, Report(w) PROVE Lineage'
<1>1. /\ w \in mine /\ stage[w] = "ended" /\ mine' = mine \ {w} /\ UNCHANGED <<daemon, mail>>
      /\ code[w] \in ExitCodes
  BY DEF Report, Orderly, TypeOK, ExitCodes
<1>2. daemon \in {"loop", "wait"}
  BY <1>1 DEF Orderly
<1>3. \A v \in Workers : /\ stage'[v] = IF v = w THEN "none" ELSE stage[v]
                         /\ code'[v] = IF v = w THEN "none" ELSE code[v]
  BY DEF Report, TypeOK
<1>4. Live' = Live /\ w \notin Live
  BY <1>1, <1>3 DEF Live
<1>5. Live' \subseteq mine'
  BY <1>1, <1>2, <1>4 DEF Lineage
<1>6. ~Bereft /\ ~Left
  BY <1>1 DEF Bereft, Left
<1>7. CASE daemon = "loop" /\ Alone
  <2>1. mine = {w} /\ ~expected /\ Deaths = {} /\ code[w] # "already"
    BY <1>1, <1>7 DEF Alone
  <2>2. ~expected' /\ \E c \in ExitCodes \ {"success", "already"} : exits' = Append(exits, c)
    BY <1>1, <2>1 DEF Report, ExitCodes
  <2>3. PICK c \in ExitCodes \ {"success", "already"} : exits' = Append(exits, c)
    BY <2>2
  <2>4. \E i \in DOMAIN exits' : Deaths' = {i} /\ exits'[i] = c
    BY <2>1, <2>3, FirstDeath
  <2>5. Bereft'
    BY <1>1, <2>1, <2>2, <2>3, <2>4 DEF Bereft
  <2> QED BY <1>1, <1>5, <1>7, <2>5 DEF Lineage
<1>8. CASE daemon = "wait" /\ Leaving
  <2>1. mine = {w} /\ expected /\ code[w] = "success" /\ Deaths = {}
    BY <1>1, <1>8 DEF Leaving
  <2>2. expected' = FALSE /\ exits' = exits
    BY <2>1 DEF Report
  <2>3. Left'
    BY <1>1, <2>1, <2>2 DEF Left, Deaths
  <2> QED BY <1>1, <1>5, <1>8, <2>3 DEF Lineage
<1>9. CASE daemon = "loop" /\ Replaced
  <2>1. expected
    BY <1>9 DEF Replaced
  <2>2. PICK v \in Workers :
          /\ stage[v] = "ended" /\ code[v] = "success"
          /\ \/ \E u \in Workers \ {v} : Successor(v, u)
             \/ mine = {v} /\ \E i \in DOMAIN exits : Deaths = {i} /\ exits[i] = "panic"
    BY <1>9 DEF Replaced
  <2>3. CASE w = v
    <3>1. expected' = FALSE /\ exits' = exits
      BY <2>1, <2>2, <2>3 DEF Report
    <3>2. Deaths' = Deaths
      BY <3>1 DEF Deaths
    <3>3. ASSUME NEW u \in Workers \ {v}, Successor(v, u) PROVE Alone'
      <4>1. mine' = {u} /\ "exit" \notin mail'[u] /\ code'[u] # "already" /\ stage'[u] # "none" /\ Deaths' = {}
        BY <1>1, <1>3, <2>3, <3>2, <3>3 DEF Successor
      <4> QED BY <3>1, <4>1 DEF Alone
    <3>4. ASSUME mine = {v}, NEW i \in DOMAIN exits, Deaths = {i}, exits[i] = "panic" PROVE Bereft'
      <4>1. mine' = {} /\ i \in DOMAIN exits' /\ Deaths' = {i} /\ exits'[i] # "already"
        BY <1>1, <2>3, <3>1, <3>2, <3>4
      <4> QED BY <3>1, <4>1 DEF Bereft
    <3> QED BY <1>1, <1>5, <1>9, <2>2, <3>3, <3>4 DEF Lineage
  <2>4. CASE w # v
    <3>1. PICK u \in Workers \ {v} : Successor(v, u)
      BY <1>1, <2>2, <2>4
    <3>2. u = w /\ mine = {v, w} /\ Deaths = {} /\ code[w] = "panic"
      BY <1>1, <2>4, <3>1 DEF Successor, ExitCodes
    <3>3. exits' = Append(exits, "panic") /\ expected' = expected
      BY <3>2 DEF Report
    <3>4. \E i \in DOMAIN exits' : Deaths' = {i} /\ exits'[i] = "panic"
      BY <3>2, <3>3, FirstDeath DEF ExitCodes
    <3>5. mine' = {v} /\ stage'[v] = "ended" /\ code'[v] = "success"
      BY <1>1, <1>3, <2>2, <2>4, <3>2
    <3>6. Replaced'
      BY <2>1, <3>3, <3>4, <3>5 DEF Replaced
    <3> QED BY <1>1, <1>5, <1>9, <3>6 DEF Lineage
  <2> QED BY <2>3, <2>4
<1> QED BY <1>2, <1>6, <1>7, <1>8, <1>9 DEF Lineage

\* A worker that starts, works or leaves keeps its place in the line.
LEMMA WorkerLine == ASSUME TypeOK, Orderly, Lineage, NEW w \in Workers, Worker(w), ~raced, ~raced' PROVE Lineage'
<1> USE DEF conf, chans, books, procs
<1>1. CASE Report(w)
  BY <1>1, ReportLine
<1>2. CASE StartUp(w)
  <2>1. stage[w] = "loading" /\ w \in Live /\ UNCHANGED <<daemon, mine, exits, expected>>
    BY <1>2 DEF StartUp, Live
  <2>2. CASE EndWorker(w, "panic")
    BY <2>1, <2>2, EndedLine
  <2>3. CASE /\ stage' = [stage EXCEPT ![w] = "locked"] /\ UNCHANGED <<mail, code>>
    BY <2>1, <2>3, GoesOn
  <2>4. CASE Holders # {} \/ daemon \in {"clear", "purge", "wait"}
    <3>1. CASE daemon \notin {"loop", "wait"}
      BY <2>1, <3>1 DEF Lineage
    <3>2. CASE daemon \in {"loop", "wait"}
      <4>1. daemon # "wait"
        BY <2>1, <3>2, OfTheLine
      <4>2. Holders = {}
        <5>1. ASSUME NEW u \in Holders PROVE FALSE
          <6>1. u \in Live /\ u # w /\ Live \subseteq mine
            BY <2>1, <3>2, <5>1 DEF Holders, Live, Lineage
          <6>2. \E v \in Workers : stage[v] = "ended" /\ mine = {v, w}
            BY <2>1, <3>2, <4>1, <6>1, OfTheLine DEF Successor
          <6> QED BY <5>1, <6>1, <6>2 DEF Holders
        <5> QED BY <5>1
      <4> QED BY <2>4, <3>2, <4>1, <4>2
    <3> QED BY <3>1, <3>2
  <2> QED BY <1>2, <2>2, <2>3, <2>4 DEF StartUp
<1>3. CASE Listen(w)
  BY <1>3, GoesOn DEF Listen
<1>4. CASE FormCloses(w) \/ Probe(w)
  BY <1>4, SameLine DEF FormCloses, Probe
<1>5. CASE Conclude(w)
  BY <1>5, Numbers DEF Conclude, Orderly, Lineage
<1>6. ASSUME NEW m \in ExitModes, Leave(w, m) PROVE Lineage'
  <2> DEFINE c == IF m = "exit" THEN "success" ELSE m
  <2>1. /\ stage[w] = "ready" /\ m \in mail[w] /\ EndWorker(w, c) /\ UNCHANGED <<daemon, mine, exits, expected>>
        /\ expected => m = "exit"
    BY <1>6 DEF Leave
  <2>2. w \in Live /\ c # "none" /\ c # "already"
    BY <2>1 DEF Live, ExitModes
  <2>3. ASSUME expected PROVE daemon = "wait"
    <3>1. c = "success" /\ "exit" \in mail[w]
      BY <2>1, <2>3
    <3>2. daemon \in {"loop", "wait"}
      BY <2>3 DEF Orderly
    <3> QED BY <2>2, <2>3, <3>1, <3>2, OfTheLine DEF Alone, Successor
  <2> QED BY <2>1, <2>2, <2>3, EndedLine
<1> QED BY <1>1, <1>2, <1>3, <1>4, <1>5, <1>6 DEF Worker

\* A kill, a stroke or a command is no second end.
LEMMA OutsideLine == ASSUME TypeOK, Orderly, Lineage, Outside, ~raced, ~raced' PROVE Lineage'
<1> USE DEF conf, chans, books, procs
<1>1. CASE Abort \/ KillDaemon
  BY <1>1, GoneTypes DEF Abort, KillDaemon, Lineage
<1>2. CASE Nudge
  BY <1>2, SameLine DEF Nudge
<1>3. CASE Relaunch
  BY <1>3 DEF Relaunch, Lineage
<1>4. CASE AskDaemon
  <2>1. /\ UNCHANGED <<daemon, mine, expected, stage, mail, code>> /\ exits' = Append(exits, "success")
    BY <1>4 DEF AskDaemon
  <2>2. /\ Deaths' = Deaths /\ Live' = Live /\ DOMAIN exits \subseteq DOMAIN exits'
        /\ \A i \in DOMAIN exits : exits'[i] = exits[i]
    BY <2>1, AskedIsNoDeath DEF Live
  <2>3. (Alone => Alone') /\ (Bereft => Bereft') /\ (Left => Left') /\ (Leaving => Leaving')
    BY <2>1, <2>2 DEF Alone, Bereft, Leaving, Left
  <2>4. Replaced => Replaced'
    <3>1. \A u, v \in Workers : Successor(u, v) => Successor(u, v)'
      BY <2>1, <2>2 DEF Successor
    <3> QED BY <2>1, <2>2, <3>1 DEF Replaced
  <2> QED BY <2>1, <2>2, <2>3, <2>4 DEF Lineage
<1>5. ASSUME NEW w \in Workers, FormOpens(w) PROVE Lineage'
  BY <1>5, SameLine DEF FormOpens
<1>6. ASSUME NEW w \in Workers, NEW m \in {"all", "restart"}, Ask(w, m) PROVE Lineage'
  <2>1. \A v \in Workers : "exit" \in mail'[v] <=> "exit" \in mail[v]
    BY <1>6 DEF Ask, TypeOK
  <2> QED BY <1>6, <2>1, SameLine DEF Ask
<1>7. ASSUME NEW w \in Workers, NEW c \in {"success", "nocode"}, StrikeWorker(w, c) PROVE Lineage'
  <2>1. /\ w \in Live /\ EndWorker(w, c) /\ ~expected /\ UNCHANGED <<daemon, mine, exits, expected>>
    BY <1>7 DEF StrikeWorker, Live
  <2> QED BY <2>1, EndedLine
<1> QED BY <1>1, <1>2, <1>3, <1>4, <1>5, <1>6, <1>7 DEF Outside

-----------------------------------------------------------------------------
(***************************************************************************)
(* Deaths and respawns.                                                    *)
(***************************************************************************)
\* A step after which no death is to be counted that was not before.
LEMMA SameCount ==
  ASSUME TypeOK, Counted, Counting' => Counting, UNCHANGED <<respawns, strikes>>,
         verdict' = verdict \/ verdict' # "general"
  PROVE  Counted'
BY DEF Counted

\* A daemon that is gone counts nothing.
LEMMA GoneCount ==
  ASSUME TypeOK, Counted, NEW v, EndDaemon(v), v # "general" \/ strikes > MaxRespawns, UNCHANGED strikes
  PROVE  Counted'
<1>1. ~Counting' /\ respawns' = 0 /\ verdict' = v
  BY DEF EndDaemon, Counting
<1>2. strikes \in Nat
  BY DEF TypeOK
<1> QED BY <1>1, <1>2 DEF Counted

\* A stroke is good for one respawn.
LEMMA StruckCount ==
  ASSUME TypeOK, Counted, strikes' = strikes + 1, UNCHANGED <<respawns, verdict>>
  PROVE  Counted'
BY Numbers DEF Counted, TypeOK

\* The end of a worker is a death only if it was struck.
LEMMA SafeEnd ==
  ASSUME TypeOK, NEW w \in Workers, NEW c, EndWorker(w, c), c # "nocode",
         c = "success" => expected \/ w \notin mine, UNCHANGED <<mine, exits, expected>>
  PROVE  Counting' => Counting
<1>1. \A v \in Workers : code'[v] = IF v = w THEN c ELSE code[v]
  BY DEF EndWorker, TypeOK
<1>2. mine \subseteq Workers
  BY DEF TypeOK
<1> QED BY <1>1, <1>2 DEF Counting

\* A respawn uses up a death that was heard of.
LEMMA DaemonCount ==
  ASSUME TypeOK, Orderly, Lineage, Counted, Daemon, ~raced' PROVE Counted'
<1> USE DEF conf, chans, books, procs
<1>1. CASE Begin
  <2>1. CASE probe = 0
    BY <1>1, <2>1, SameCount DEF Begin, Counting
  <2>2. CASE probe # 0
    BY <1>1, <2>2, GoneCount DEF Begin
  <2> QED BY <2>1, <2>2
<1>2. CASE PurgeOver
  BY <1>2, GoneCount DEF PurgeOver
<1>3. CASE LoadConfig \/ Reload
  BY <1>3, SameCount DEF LoadConfig, Reload, Counting
<1>4. CASE WaitOver \/ Debounce \/ ClearTell
  BY <1>4, SameCount DEF WaitOver, Debounce, ClearTell, Counting
<1>5. CASE OnConfigSignal \/ OnNudge
  <2>1. /\ UNCHANGED <<expected, code>> \/ Restart
        /\ UNCHANGED <<mine, exits, verdict, respawns, strikes>>
    BY <1>5 DEF OnConfigSignal, OnNudge
  <2>2. Restart => expected' = TRUE /\ UNCHANGED code
    BY DEF Restart
  <2>3. Counting' => Counting
    BY <2>1, <2>2 DEF Counting
  <2> QED BY <2>1, <2>3, SameCount
<1>6. ASSUME Spawn, UNCHANGED <<exits, expected>> PROVE Counting' => Counting
  <2>1. PICK w \in Workers : code' = [code EXCEPT ![w] = "none"] /\ mine' = mine \cup {w}
    BY <1>6, Spawned
  <2>2. \A v \in Workers : code'[v] = IF v = w THEN "none" ELSE code[v]
    BY <2>1 DEF TypeOK
  <2>3. mine \subseteq Workers
    BY DEF TypeOK
  <2> QED BY <1>6, <2>1, <2>2, <2>3 DEF Counting
<1>7. CASE ClearFree \/ WaitFree
  BY <1>6, <1>7, SameCount DEF ClearFree, WaitFree
<1>8. CASE OnExit
  <2> DEFINE c == Head(exits)
             died == c \in {"unexpected", "nocode"}
  <2>1. daemon = "loop" /\ exits # << >> /\ UNCHANGED strikes
    BY <1>8 DEF OnExit
  <2>2. ASSUME died PROVE Counting
    BY <2>1, <2>2, LastDeath DEF Counting
  <2>3. CASE c = "restart" \/ (died /\ respawns < MaxRespawns)
    <3>1. Spawn /\ exits' = Tail(exits) /\ respawns' = respawns + (IF died THEN 1 ELSE 0)
          /\ UNCHANGED <<verdict, expected>>
      BY <1>8, <2>3 DEF OnExit
    <3>2. c # "success" /\ 1 \in Deaths /\ exits[1] = c
      BY <2>1, <2>3, LastDeath
    <3>3. ~Alone /\ ~Replaced
      BY <2>3, <3>2 DEF Alone, Replaced, Successor
    <3>4. mine = {} /\ Deaths = {1}
      BY <2>1, <3>2, <3>3 DEF Lineage, Bereft
    <3>5. \A i \in DOMAIN exits' : exits'[i] = "success"
      BY <2>1, <3>1, <3>2, <3>4, LastDeath
    <3>6. PICK w \in Workers : code' = [code EXCEPT ![w] = "none"] /\ mine' = mine \cup {w}
      BY <3>1, Spawned
    <3>7. code'[w] = "none" /\ mine' = {w}
      BY <3>4, <3>6 DEF TypeOK
    <3>8. ~Counting'
      BY <3>5, <3>7 DEF Counting
    <3>9. respawns' <= strikes
      BY <2>2, <3>1 DEF Counted, TypeOK
    <3> QED BY <2>1, <3>1, <3>8, <3>9 DEF Counted
  <2>4. CASE ~(c = "restart" \/ (died /\ respawns < MaxRespawns))
    <3>1. EndDaemon(IF c = "all" THEN "success" ELSE IF died THEN "general" ELSE "code")
      BY <1>8, <2>4 DEF OnExit
    <3>2. died => strikes > MaxRespawns
      BY <2>2, <2>4, Numbers DEF Counted, TypeOK
    <3> QED BY <2>1, <3>1, <3>2, GoneCount
  <2> QED BY <2>3, <2>4
<1> QED BY <1>1, <1>2, <1>3, <1>4, <1>5, <1>7, <1>8 DEF Daemon

\* A report turns the end of a child into an exit of the same kind.
LEMMA ReportCount ==
  ASSUME TypeOK, Orderly, Lineage, Counted, NEW w \in Workers, Report(w) PROVE Counted'
<1>1. /\ w \in mine /\ stage[w] = "ended" /\ mine' = mine \ {w} /\ UNCHANGED <<daemon, respawns, strikes, verdict>>
      /\ code[w] \in ExitCodes /\ mine \subseteq Workers
  BY DEF Report, Orderly, TypeOK, ExitCodes, books
<1>2. \A v \in Workers : v # w => code'[v] = code[v]
  BY DEF Report, TypeOK
<1>3. CASE code[w] # "success" \/ ~expected
  <2>1. expected' => expected
    BY <1>3 DEF Report
  <2>2. ~expected' => ~expected
    BY <1>3 DEF Report
  <2> DEFINE c == IF code[w] = "success" THEN "unexpected" ELSE code[w]
  <2>3. /\ c \in ExitCodes /\ exits' = Append(exits, c)
        /\ c \in {"unexpected", "nocode"} => Counting
    <3>1. CASE code[w] = "success"
      BY <1>1, <1>3, <3>1 DEF Report, Counting, ExitCodes
    <3>2. CASE code[w] # "success"
      <4>1. exits' = Append(exits, code[w])
        BY <3>2 DEF Report
      <4>2. code[w] # "unexpected"
        BY <1>1 DEF TypeOK
      <4>3. code[w] = "nocode" => Counting
        BY <1>1 DEF Counting
      <4> QED BY <1>1, <3>2, <4>1, <4>2, <4>3
    <3> QED BY <3>1, <3>2
  <2>4. exits \in Seq(ExitCodes)
    BY DEF TypeOK, ExitCodes
  <2> HIDE DEF c
  <2>5. \A i \in DOMAIN exits' : exits'[i] = c \/ (i \in DOMAIN exits /\ exits'[i] = exits[i])
    BY <2>3, <2>4
  <2>6. Counting' => Counting
    BY <1>1, <1>2, <2>1, <2>2, <2>3, <2>5 DEF Counting
  <2> QED BY <1>1, <2>6, SameCount
<1>4. CASE code[w] = "success" /\ expected
  <2>1. exits' = exits
    BY <1>4 DEF Report
  <2>2. daemon \in {"loop", "wait"}
    BY <1>1 DEF Orderly
  <2>3. \A v \in mine' : code[v] \in {"none", "panic"}
    <3>1. ~Alone /\ ~Bereft /\ ~Left
      BY <1>4 DEF Alone, Bereft, Left
    <3>2. CASE Leaving
      BY <1>1, <3>2 DEF Leaving
    <3>3. CASE Replaced
      BY <1>1, <1>4, <3>3 DEF Replaced, Successor
    <3> QED BY <2>2, <3>1, <3>2, <3>3 DEF Lineage
  <2>4. Counting' => Counting
    BY <1>1, <1>2, <2>1, <2>3 DEF Counting
  <2> QED BY <1>1, <2>4, SameCount
<1> QED BY <1>3, <1>4

\* A worker that ends by itself was told to, or its end is not counted.
LEMMA WorkerCount ==
  ASSUME TypeOK, Orderly, Lineage, Counted, NEW w \in Workers, Worker(w) PROVE Counted'
<1> USE DEF conf, chans, books, procs
<1>1. CASE Report(w)
  BY <1>1, ReportCount
<1>2. CASE StartUp(w)
  <2>1. UNCHANGED <<mine, exits, expected, respawns, strikes, verdict>>
    BY <1>2 DEF StartUp
  <2>2. ASSUME NEW c \in {"panic", "already"}, EndWorker(w, c) PROVE Counting' => Counting
    BY <2>1, <2>2, SafeEnd
  <2>3. CASE UNCHANGED code
    BY <2>1, <2>3, SameCount DEF Counting
  <2> QED BY <1>2, <2>1, <2>2, <2>3, SameCount DEF StartUp
<1>3. CASE Listen(w) \/ FormCloses(w)
  BY <1>3, SameCount DEF Listen, FormCloses, Counting
<1>4. CASE Probe(w) \/ Conclude(w)
  BY <1>4, SameCount DEF Probe, Conclude, Counting
<1>5. ASSUME NEW m \in ExitModes, Leave(w, m) PROVE Counted'
  <2> DEFINE c == IF m = "exit" THEN "success" ELSE m
  <2>1. /\ stage[w] = "ready" /\ m \in mail[w] /\ EndWorker(w, c)
        /\ UNCHANGED <<daemon, mine, exits, expected, respawns, strikes, verdict>>
    BY <1>5 DEF Leave
  <2>2. c # "nocode"
    BY DEF ExitModes
  <2>3. ASSUME c = "success", w \in mine PROVE expected
    <3>1. "exit" \in mail[w] /\ w \in Live
      BY <2>1, <2>3 DEF Live, ExitModes
    <3>2. daemon \in {"loop", "wait"}
      BY <2>3 DEF Orderly
    <3> QED BY <3>1, <3>2, OfTheLine DEF Alone, Leaving
  <2>4. Counting' => Counting
    BY <2>1, <2>2, <2>3, SafeEnd
  <2> QED BY <2>1, <2>4, SameCount
<1> QED BY <1>1, <1>2, <1>3, <1>4, <1>5 DEF Worker

\* A stroke is counted before its death is.
LEMMA OutsideCount == ASSUME TypeOK, Orderly, Counted, Outside PROVE Counted'
<1> USE DEF conf, chans, books, procs
<1>1. CASE Abort \/ KillDaemon
  BY <1>1, GoneCount DEF Abort, KillDaemon
<1>2. CASE Nudge \/ Relaunch
  BY <1>2, SameCount DEF Nudge, Relaunch, Counting
<1>3. CASE AskDaemon
  <2>1. UNCHANGED <<mine, expected, code, respawns, strikes, verdict>> /\ exits' = Append(exits, "success")
    BY <1>3 DEF AskDaemon
  <2>2. \A i \in DOMAIN exits' : exits'[i] = "success" \/ (i \in DOMAIN exits /\ exits'[i] = exits[i])
    BY <2>1 DEF TypeOK
  <2>3. Counting' => Counting
    BY <2>1, <2>2 DEF Counting
  <2> QED BY <2>1, <2>3, SameCount
<1>4. ASSUME NEW w \in Workers, FormOpens(w) \/ (\E m \in {"all", "restart"} : Ask(w, m)) PROVE Counted'
  BY <1>4, SameCount DEF FormOpens, Ask, Counting
<1>5. ASSUME NEW w \in Workers, NEW c \in {"success", "nocode"}, StrikeWorker(w, c) PROVE Counted'
  BY <1>5, StruckCount DEF StrikeWorker
<1> QED BY <1>1, <1>2, <1>3, <1>4, <1>5 DEF Outside

-----------------------------------------------------------------------------
(***************************************************************************)
(* What the worker has read.                                               *)
(***************************************************************************)
\* Who holds the lock after a step has read the files as they are, or has not changed.
LEMMA StillUpToDate ==
  ASSUME TypeOK, UpToDate, UNCHANGED <<version, broken>>, daemon' = "loop" => daemon = "loop",
         \A w \in Holders' : loaded'[w] = version \/ (w \in Holders /\ loaded'[w] = loaded[w]),
         (changed \/ signals > 0) => (changed' \/ signals' > 0)
  PROVE  UpToDate'
BY DEF UpToDate

\* A spawned worker holds nothing.
LEMMA SpawnHolders ==
  ASSUME TypeOK, Spawn
  PROVE  Holders' = Holders /\ \A w \in Holders : loaded'[w] = loaded[w]
<1>1. PICK w \in Workers :
        /\ Over(w) /\ stage' = [stage EXCEPT ![w] = "loading"] /\ loaded' = [loaded EXCEPT ![w] = Unread]
  BY Spawned
<1>2. \A v \in Workers : /\ stage'[v] = IF v = w THEN "loading" ELSE stage[v]
                         /\ loaded'[v] = IF v = w THEN Unread ELSE loaded[v]
  BY <1>1 DEF TypeOK
<1> QED BY <1>1, <1>2 DEF Holders, Over

\* A signal is used up by a restart, after which the daemon waits.
LEMMA DaemonUpToDate == ASSUME TypeOK, Orderly, UpToDate, Daemon, ~raced' PROVE UpToDate'
<1> USE DEF conf, chans, books, procs
<1>1. CASE Begin \/ LoadConfig \/ Reload \/ PurgeOver
  BY <1>1, GoneTypes DEF Begin, LoadConfig, Reload, PurgeOver, UpToDate
<1>2. CASE ClearTell \/ WaitOver
  BY <1>2 DEF ClearTell, WaitOver, UpToDate
<1>3. CASE Debounce
  <2>1. signals \in Nat /\ signals' = signals + 1
    BY <1>3 DEF Debounce, TypeOK
  <2>2. UNCHANGED <<daemon, version, broken, stage, loaded>> /\ signals' > 0
    BY <1>3, <2>1 DEF Debounce
  <2> QED BY <2>2 DEF UpToDate, Holders
<1>4. CASE OnConfigSignal
  <2>1. UNCHANGED broken /\ (broken \/ Restart)
    BY <1>4 DEF OnConfigSignal
  <2> QED BY <2>1 DEF Restart, UpToDate
<1>5. CASE OnNudge
  BY <1>5 DEF OnNudge, Restart, UpToDate
<1>6. CASE ClearFree \/ WaitFree
  BY <1>6, SpawnHolders DEF ClearFree, WaitFree, UpToDate
<1>7. CASE OnExit
  <2>1. CASE daemon' = "gone"
    BY <2>1 DEF UpToDate
  <2>2. CASE daemon' # "gone"
    <3>1. /\ daemon = "loop" /\ Spawn /\ UNCHANGED <<daemon, version, broken, changed, signals>>
      BY <1>7, <2>2 DEF OnExit, EndDaemon
    <3> QED BY <3>1, SpawnHolders DEF UpToDate
  <2> QED BY <2>1, <2>2
<1> QED BY <1>1, <1>2, <1>3, <1>4, <1>5, <1>6, <1>7 DEF Daemon

\* The end of a worker leaves the other's.
LEMMA EndHolders ==
  ASSUME TypeOK, NEW w \in Workers, NEW c, EndWorker(w, c)
  PROVE  Holders' \subseteq Holders
<1>1. \A v \in Workers : stage'[v] = IF v = w THEN "ended" ELSE stage[v]
  BY DEF EndWorker, TypeOK
<1> QED BY <1>1 DEF Holders

\* A worker that takes the lock has read the configuration as it is.
LEMMA WorkerUpToDate == ASSUME TypeOK, UpToDate, NEW w \in Workers, Worker(w) PROVE UpToDate'
<1> USE DEF conf, chans, books, procs
<1>1. CASE Report(w)
  <2>1. \A v \in Workers : stage'[v] = IF v = w THEN "none" ELSE stage[v]
    BY <1>1 DEF Report, TypeOK
  <2>2. Holders' \subseteq Holders /\ UNCHANGED <<daemon, version, broken, loaded, changed, signals>>
    BY <1>1, <2>1 DEF Report, Holders
  <2> QED BY <2>2, StillUpToDate
<1>2. CASE StartUp(w)
  <2>1. UNCHANGED <<daemon, version, broken, changed, signals>>
    BY <1>2 DEF StartUp
  <2>2. CASE (EndWorker(w, "panic") \/ EndWorker(w, "already")) /\ UNCHANGED loaded
    BY <2>1, <2>2, EndHolders, StillUpToDate
  <2>3. CASE stage' = [stage EXCEPT ![w] = "locked"] /\ loaded' = [loaded EXCEPT ![w] = version]
    <3>1. \A v \in Workers : /\ stage'[v] = IF v = w THEN "locked" ELSE stage[v]
                             /\ loaded'[v] = IF v = w THEN version ELSE loaded[v]
      BY <2>3 DEF TypeOK
    <3>2. \A v \in Holders' : loaded'[v] = version \/ (v \in Holders /\ loaded'[v] = loaded[v])
      BY <3>1 DEF Holders
    <3> QED BY <2>1, <3>2, StillUpToDate
  <2> QED BY <1>2, <2>2, <2>3 DEF StartUp
<1>3. CASE Listen(w)
  <2>1. \A v \in Workers : stage'[v] = IF v = w THEN "ready" ELSE stage[v]
    BY <1>3 DEF Listen, TypeOK
  <2>2. Holders' = Holders /\ UNCHANGED <<daemon, version, broken, loaded, changed, signals>>
    BY <1>3, <2>1 DEF Listen, Holders
  <2> QED BY <2>2, StillUpToDate
<1>4. CASE FormCloses(w) \/ Probe(w) \/ Conclude(w)
  <2>1. Holders' = Holders /\ UNCHANGED <<daemon, version, broken, loaded, changed, signals>>
    BY <1>4 DEF FormCloses, Probe, Conclude, Holders
  <2> QED BY <2>1, StillUpToDate
<1>5. ASSUME NEW m \in ExitModes, Leave(w, m) PROVE UpToDate'
  <2>1. Holders' \subseteq Holders /\ UNCHANGED <<daemon, version, broken, loaded, changed, signals>>
    BY <1>5, EndHolders DEF Leave
  <2> QED BY <2>1, StillUpToDate
<1> QED BY <1>1, <1>2, <1>3, <1>4, <1>5 DEF Worker

\* Nothing from outside changes what a worker has read.
LEMMA OutsideUpToDate == ASSUME TypeOK, UpToDate, Outside PROVE UpToDate'
<1> USE DEF conf, chans, books, procs
<1>1. CASE Abort \/ KillDaemon
  BY <1>1, GoneTypes DEF Abort, KillDaemon, UpToDate
<1>2. CASE Relaunch
  BY <1>2 DEF Relaunch, UpToDate
<1>3. CASE Nudge \/ AskDaemon
  <2>1. Holders' = Holders /\ UNCHANGED <<daemon, version, broken, loaded, changed, signals>>
    BY <1>3 DEF Nudge, AskDaemon, Holders
  <2> QED BY <2>1, StillUpToDate
<1>4. ASSUME NEW w \in Workers, FormOpens(w) \/ (\E m \in {"all", "restart"} : Ask(w, m)) PROVE UpToDate'
  <2>1. Holders' = Holders /\ UNCHANGED <<daemon, version, broken, loaded, changed, signals>>
    BY <1>4 DEF FormOpens, Ask, Holders
  <2> QED BY <2>1, StillUpToDate
<1>5. ASSUME NEW w \in Workers, NEW c \in {"success", "nocode"}, StrikeWorker(w, c) PROVE UpToDate'
  <2>1. Holders' \subseteq Holders /\ UNCHANGED <<daemon, version, broken, loaded, changed, signals>>
    BY <1>5, EndHolders DEF StrikeWorker
  <2> QED BY <2>1, StillUpToDate
<1> QED BY <1>1, <1>2, <1>3, <1>4, <1>5 DEF Outside

-----------------------------------------------------------------------------
(***************************************************************************)
(* The engine's processes keep their invariant, and so does a file.        *)
(***************************************************************************)
\* Two causes that have met have met for good.
LEMMA RacedStays ==
  ASSUME TypeOK, Daemon \/ (\E w \in Workers : Worker(w)) \/ Outside
  PROVE  raced => raced'
<1> USE DEF conf, chans, books, procs
<1>1. CASE Daemon
  <2>1. ASSUME Restart PROVE raced => raced'
    BY <2>1 DEF Restart
  <2>2. CASE OnConfigSignal
    BY <2>1, <2>2 DEF OnConfigSignal
  <2>3. CASE OnNudge
    BY <2>1, <2>3 DEF OnNudge
  <2> QED BY <1>1, <2>2, <2>3
      DEF Daemon, Begin, LoadConfig, Reload, ClearFree, ClearTell, PurgeOver, WaitFree, WaitOver, OnExit, Debounce
<1>2. ASSUME NEW w \in Workers, Worker(w) PROVE raced => raced'
  BY <1>2 DEF Worker, Report, StartUp, Listen, FormCloses, Probe, Conclude, Leave
<1>3. CASE Outside
  BY <1>3 DEF Outside, Abort, Nudge, AskDaemon, KillDaemon, Relaunch, FormOpens, Ask, StrikeWorker
<1> QED BY <1>1, <1>2, <1>3

\* All steps of the engine's processes keep their invariant.
LEMMA EngineKept ==
  ASSUME Engine, Daemon \/ (\E w \in Workers : Worker(w)) \/ Outside
  PROVE  Engine'
<1>1. TypeOK /\ Orderly /\ (~raced => Lineage /\ Counted /\ UpToDate)
  BY DEF Engine
<1>2. raced => raced'
  BY <1>1, RacedStays
<1>3. CASE Daemon
  <2>1. TypeOK' /\ Orderly'
    BY <1>1, <1>3, DaemonTypes, DaemonOrderly
  <2>2. ~raced' => Lineage' /\ Counted' /\ UpToDate'
    BY <1>1, <1>2, <1>3, DaemonLine, DaemonCount, DaemonUpToDate
  <2> QED BY <2>1, <2>2 DEF Engine
<1>4. ASSUME NEW w \in Workers, Worker(w) PROVE Engine'
  <2>1. TypeOK' /\ Orderly'
    BY <1>1, <1>4, WorkerTypes, WorkerOrderly
  <2>2. ~raced' => Lineage' /\ Counted' /\ UpToDate'
    BY <1>1, <1>2, <1>4, WorkerLine, WorkerCount, WorkerUpToDate
  <2> QED BY <2>1, <2>2 DEF Engine
<1>5. CASE Outside
  <2>1. TypeOK' /\ Orderly'
    BY <1>1, <1>5, OutsideTypes, OutsideOrderly
  <2>2. ~raced' => Lineage' /\ Counted' /\ UpToDate'
    BY <1>1, <1>2, <1>5, OutsideLine, OutsideCount, OutsideUpToDate
  <2> QED BY <2>1, <2>2 DEF Engine
<1> QED BY <1>3, <1>4, <1>5

\* A file that is written or removed makes the debouncer owe a signal.
LEMMA EngineTouched ==
  ASSUME Engine, NEW c \in Versions, NEW b \in BOOLEAN, Touch(c, b), acts' \in Nat,
         UNCHANGED <<daemon, verdict, mine, exits, expected, respawns, signals, nudges,
                     stage, loaded, busy, mail, code, watching, probe, strikes, raced>>
  PROVE  Engine'
<1>1. /\ version' = c /\ broken' = b /\ changed' = (daemon \notin {"begin", "gone"})
  BY DEF Touch
<1>2. TypeOK'
  BY <1>1 DEF Engine, TypeOK
<1>3. Orderly'
  BY DEF Engine, Orderly, Holders
<1>4. Lineage => Lineage'
  BY DEF Lineage, Alone, Bereft, Leaving, Left, Replaced, Successor, Deaths, Live
<1>5. Counted => Counted'
  BY DEF Counted, Counting
<1>6. UpToDate'
  BY <1>1 DEF UpToDate
<1> QED BY <1>2, <1>3, <1>4, <1>5, <1>6 DEF Engine

\* Nothing has happened yet.
LEMMA EngineStarts == ASSUME Init PROVE Engine
<1>1. TypeOK
  <2>1. << >> \in Seq({"success", "all", "restart", "unexpected", "nocode", "already", "panic"})
    OBVIOUS
  <2>2. exits \in Seq({"success", "all", "restart", "unexpected", "nocode", "already", "panic"})
    BY <2>1 DEF Init
  <2>3. {} \in SUBSET ExitModes
    OBVIOUS
  <2> QED BY <2>2, <2>3 DEF Init, TypeOK
<1>2. Holders = {} /\ Live = {}
  BY DEF Init, Holders, Live
<1>3. Orderly
  BY <1>2 DEF Init, Orderly
<1>4. Lineage /\ UpToDate
  BY <1>2 DEF Init, Lineage, UpToDate
<1>5. Counted
  BY DEF Init, Counted, Counting
<1> QED BY <1>1, <1>3, <1>4, <1>5 DEF Engine

-----------------------------------------------------------------------------
(***************************************************************************)
(* The files: scopes and what is written for them.                         *)
(***************************************************************************)
LEMMA TwoThreads ==
  /\ \A t \in Threads : Other(t) \in Threads /\ Other(t) # t /\ Other(Other(t)) = t
  /\ \A t, u \in Threads : u = t \/ u = Other(t)
BY DEF Threads, Other

\* The place of k among the places S, and the place that is the i-th.
RankIn(S, k) == Cardinality({j \in S : j <= k})
NthIn(S, i) == ScopeOrder[CHOOSE k \in S : RankIn(S, k) = i]

\* The scope that goes to the i-th files, by the ranks of the places.
LEMMA NthIsIn == ASSUME NEW t, NEW i PROVE Nth(t, i) = NthIn(Listed(t), i)
BY DEF Nth, NthIn, RankIn

\* The ranks of n numbers are the numbers up to n, each once.
LEMMA RanksAreAll ==
  ASSUME NEW S \in SUBSET Nat, IsFiniteSet(S)
  PROVE  /\ \A k \in S : RankIn(S, k) \in 1..Cardinality(S)
         /\ \A j, k \in S : RankIn(S, j) = RankIn(S, k) => j = k
         /\ \A i \in 1..Cardinality(S) : \E k \in S : RankIn(S, k) = i
<1> DEFINE N == 1..Cardinality(S)
           Below(k) == {j \in S : j <= k}
           rank == [k \in S |-> Cardinality(Below(k))]
<1>1. Cardinality(S) \in Nat /\ IsFiniteSet(N) /\ Cardinality(N) = Cardinality(S)
  BY FS_CardinalityType, FS_Interval
<1>2. ASSUME NEW k \in S PROVE IsFiniteSet(Below(k)) /\ Cardinality(Below(k)) \in N
  <2>1. Below(k) \in SUBSET S /\ k \in Below(k)
    OBVIOUS
  <2>2. IsFiniteSet(Below(k)) /\ Cardinality(Below(k)) <= Cardinality(S)
    BY <2>1, FS_Subset
  <2>3. Cardinality(Below(k)) \in Nat /\ Cardinality(Below(k)) # 0
    BY <2>1, <2>2, FS_CardinalityType, FS_EmptySet
  <2> QED BY <1>1, <2>2, <2>3
<1>3. ASSUME NEW j \in S, NEW k \in S, j < k PROVE rank[j] # rank[k]
  <2>1. j \in Nat /\ k \in Nat /\ \A q \in S : q \in Nat
    OBVIOUS
  <2>2. Below(j) \in SUBSET Below(k)
    <3> SUFFICES ASSUME NEW q \in S, q <= j PROVE q <= k
      OBVIOUS
    <3> QED BY <1>3, <2>1
  <2>3. k \in Below(k) /\ k \notin Below(j)
    BY <1>3, <2>1
  <2> QED BY <1>2, <2>2, <2>3, FS_Subset
<1>4. rank \in Injection(S, N)
  <2>1. rank \in [S -> N]
    BY <1>2
  <2>2. ASSUME NEW j \in S, NEW k \in S, rank[j] = rank[k] PROVE j = k
    <3>1. j = k \/ j < k \/ k < j
      OBVIOUS
    <3> HIDE DEF rank
    <3> QED BY <1>3, <2>2, <3>1
  <2> HIDE DEF rank
  <2> QED BY <2>1, <2>2 DEF Injection, IsInjective
<1>5. rank \in Surjection(S, N)
  BY <1>1, <1>4, FS_Injection
<1>6. rank \in [S -> N] /\ \A j, k \in S : rank[j] = rank[k] => j = k
  BY <1>4 DEF Injection, IsInjective
<1>7. \A k \in S : RankIn(S, k) = rank[k]
  BY DEF RankIn
<1>8. \A i \in N : \E k \in S : rank[k] = i
  BY <1>5 DEF Surjection
<1> HIDE DEF rank
<1> QED BY <1>6, <1>7, <1>8

\* There are places enough; a number up to their count is that of a scope, and each scope
\* of a live snippet has one.
LEMMA ScopesHavePlaces ==
  ASSUME FilesTypeOK, NEW t \in Threads
  PROVE  /\ Count(t) \in Nat /\ Len(ScopeOrder) \in Nat /\ Count(t) <= Len(ScopeOrder)
         /\ \A i \in 1..Count(t) : Nth(t, i) \in Scopes
         /\ \A s \in Snips : work[t].rows[s].state # "gone" /\ work[t].rows[s].scope \in Scopes =>
              \E i \in 1..Count(t) : Nth(t, i) = work[t].rows[s].scope
<1> DEFINE S == Listed(t)
<1>1. Len(ScopeOrder) \in Nat /\ Slots \in SUBSET Nat /\ IsFiniteSet(Slots) /\ Cardinality(Slots) = Len(ScopeOrder)
  <2>1. Len(ScopeOrder) \in Nat
    BY FilesConstants
  <2>2. Len(ScopeOrder) \in Int /\ 1 \in Int
    BY <2>1
  <2>3. IsFiniteSet(Slots) /\ Cardinality(Slots) = IF 1 > Len(ScopeOrder) THEN 0 ELSE Len(ScopeOrder) - 1 + 1
    BY <2>2, FS_Interval DEF Slots
  <2> QED BY <2>1, <2>3 DEF Slots
<1>2. S \in SUBSET Slots /\ S \in SUBSET Nat
  BY <1>1 DEF Listed
<1>3. IsFiniteSet(S) /\ Cardinality(S) \in Nat /\ Cardinality(S) <= Len(ScopeOrder)
  BY <1>1, <1>2, FS_Subset, FS_CardinalityType
<1>4. /\ \A k \in S : RankIn(S, k) \in 1..Cardinality(S)
      /\ \A j, k \in S : RankIn(S, j) = RankIn(S, k) => j = k
      /\ \A i \in 1..Cardinality(S) : \E k \in S : RankIn(S, k) = i
  BY <1>2, <1>3, RanksAreAll
<1>6. \A i \in 1..Cardinality(S) : \E k \in S : RankIn(S, k) = i /\ NthIn(S, i) = ScopeOrder[k]
  BY <1>4 DEF NthIn
<1>7. \A k \in S : ScopeOrder[k] \in Scopes
  BY <1>2 DEF Scopes
<1>9. \A k \in S : \E i \in 1..Cardinality(S) : NthIn(S, i) = ScopeOrder[k]
  <2> TAKE k \in S
  <2> DEFINE i == RankIn(S, k)
  <2>1. i \in 1..Cardinality(S)
    BY <1>4
  <2>2. \E j \in S : RankIn(S, j) = i /\ NthIn(S, i) = ScopeOrder[j]
    BY <1>6, <2>1
  <2> QED BY <1>4, <2>1, <2>2
<1>10. \A s \in Snips : work[t].rows[s].state # "gone" /\ work[t].rows[s].scope \in Scopes =>
         \E k \in S : ScopeOrder[k] = work[t].rows[s].scope
  BY DEF Listed, Scopes
<1> HIDE DEF S
<1>11. Count(t) = Cardinality(S) /\ \A i : Nth(t, i) = NthIn(S, i)
  BY NthIsIn DEF S, Count
<1>12. \A i \in 1..Count(t) : Nth(t, i) \in Scopes
  BY <1>6, <1>7, <1>11
<1>13. ASSUME NEW s \in Snips, work[t].rows[s].state # "gone", work[t].rows[s].scope \in Scopes
       PROVE  \E i \in 1..Count(t) : Nth(t, i) = work[t].rows[s].scope
  <2>1. PICK k \in S : ScopeOrder[k] = work[t].rows[s].scope
    BY <1>10, <1>13
  <2> QED BY <1>9, <1>11, <2>1
<1> QED BY <1>3, <1>1, <1>11, <1>12, <1>13

\* What is written of a scope is of the listed snippets.
LEMMA BodyMatches ==
  ASSUME FilesTypeOK, NEW t \in Threads, NEW c \in {"all"} \cup Scopes
  PROVE  Body(t, c) \subseteq Matches
BY DEF Body, Matches

\* What a thread writes depends on what it has read alone.
LEMMA SameRows ==
  ASSUME NEW t \in Threads, work'[t].rows = work[t].rows
  PROVE  /\ Listed(t)' = Listed(t) /\ Count(t)' = Count(t)
         /\ \A i : Nth(t, i)' = Nth(t, i)
         /\ \A c : Body(t, c)' = Body(t, c)
<1>1. Listed(t)' = Listed(t)
  BY DEF Listed
<1>2. Count(t)' = Count(t)
  BY <1>1 DEF Count
<1>3. ASSUME NEW i PROVE Nth(t, i)' = Nth(t, i)
  <2>1. Nth(t, i)' = NthIn(Listed(t)', i) /\ Nth(t, i) = NthIn(Listed(t), i)
    BY DEF Nth, NthIn, RankIn
  <2> QED BY <1>1, <2>1
<1>4. ASSUME NEW c PROVE Body(t, c)' = Body(t, c)
  BY DEF Body
<1> QED BY <1>1, <1>2, <1>3, <1>4

-----------------------------------------------------------------------------
(***************************************************************************)
(* The files: two threads that render.                                     *)
(***************************************************************************)
Jobs == [at : {"idle", "notify", "noting", "import", "policy", "list", "clean",
               "plain", "match", "filter", "override"},
         slot : Slots \cup {0}, rows : [Snips -> Rows], policy : BOOLEAN, alone : BOOLEAN]

\* A thread that renders nothing.
LEMMA IdleJob == Idle \in Jobs /\ Idle.at = "idle" /\ Idle.alone = FALSE
<1>1. Blank \in [Snips -> Rows]
  BY DEF Blank, Rows
<1> HIDE DEF Blank
<1> QED BY <1>1 DEF Idle, Jobs

\* A thread that only goes to another place.
LEMMA GoesTo ==
  ASSUME FilesTypeOK, NEW t \in Threads,
         NEW p \in {"notify", "noting", "import", "policy", "clean", "plain", "filter"}, Goto(t, p)
  PROVE  /\ work' \in [Threads -> Jobs] /\ work'[t].at = p
         /\ work'[t].slot = work[t].slot /\ work'[t].rows = work[t].rows
         /\ work'[t].policy = work[t].policy /\ work'[t].alone = work[t].alone
         /\ work'[Other(t)] = work[Other(t)]
<1>1. work \in [Threads -> Jobs] /\ work' = [work EXCEPT ![t].at = p]
  BY DEF FilesTypeOK, Goto, Jobs
<1> DEFINE j == [work[t] EXCEPT !.at = p]
<1>2. work[t] \in Jobs
  BY <1>1
<1>3. /\ j \in Jobs /\ j.at = p /\ j.slot = work[t].slot /\ j.rows = work[t].rows
      /\ j.policy = work[t].policy /\ j.alone = work[t].alone
  BY <1>2 DEF Jobs
<1>4. work' = [work EXCEPT ![t] = j]
  BY <1>1
<1> HIDE DEF j
<1> QED BY <1>1, <1>3, <1>4, TwoThreads

\* A thread that is over with a rendering.
LEMMA GoesIdle ==
  ASSUME FilesTypeOK, NEW t \in Threads, work' = [work EXCEPT ![t] = Idle]
  PROVE  /\ work' \in [Threads -> Jobs] /\ work'[t].at = "idle" /\ ~work'[t].alone
         /\ work'[Other(t)] = work[Other(t)]
<1>1. work \in [Threads -> Jobs]
  BY DEF FilesTypeOK, Jobs
<1> QED BY <1>1, IdleJob, TwoThreads

\* A thread that has just written goes on to the next scope, or to the delivery.
LEMMA GoesNext ==
  ASSUME FilesTypeOK, NEW t \in Threads, NEW i \in Nat, AfterSlot(t, i)
  PROVE  /\ work' \in [Threads -> Jobs]
         /\ i < Count(t) => work'[t].at = "match" /\ work'[t].slot = i + 1
         /\ ~(i < Count(t)) => work'[t].at = "override" /\ work'[t].slot = 0
         /\ work'[t].rows = work[t].rows
         /\ work'[t].policy = work[t].policy /\ work'[t].alone = work[t].alone
         /\ work'[Other(t)] = work[Other(t)]
<1> DEFINE p == IF i < Count(t) THEN "match" ELSE "override"
           n == IF i < Count(t) THEN i + 1 ELSE 0
           j == [work[t] EXCEPT !.at = p, !.slot = n]
<1>1. work \in [Threads -> Jobs] /\ work[t] \in Jobs
  BY DEF FilesTypeOK, Jobs
<1>2. n \in Slots \cup {0}
  BY ScopesHavePlaces DEF Slots
<1>3. /\ j \in Jobs /\ j.at = p /\ j.slot = n /\ j.rows = work[t].rows
      /\ j.policy = work[t].policy /\ j.alone = work[t].alone
  BY <1>1, <1>2 DEF Jobs
<1>4. work' = [work EXCEPT ![t] = j]
  BY DEF AfterSlot
<1> HIDE DEF j
<1> QED BY <1>1, <1>3, <1>4, TwoThreads

\* A thread that holds nothing after a step is apart from the other.
LEMMA RestApart ==
  ASSUME NEW t \in Threads, ~Holding(t)', ~work'[t].alone
  PROVE  Apart(t)'
BY DEF Apart, Holding

\* A thread that did not move stays apart, if what it relies on is left to it.
LEMMA StaysApart ==
  ASSUME NEW u \in Threads, Apart(u), work'[u].at = work[u].at, work'[u].slot = work[u].slot,
         work'[u].rows = work[u].rows, work'[u].policy = work[u].policy,
         work'[u].alone => work[u].alone /\ ~Holding(Other(u))' /\ Timely(u)',
         Holding(u) /\ debt' # "mixed" => ~Holding(Other(u))' /\ debt # "mixed",
         Holding(u) /\ debt' = "none" => work'[u].alone,
         Holding(u) /\ (debt' # "mixed" \/ work'[u].alone) => UNCHANGED files
  PROVE  Apart(u)'
<1>1. Count(u)' = Count(u) /\ (\A i : Nth(u, i)' = Nth(u, i)) /\ \A c : Body(u, c)' = Body(u, c)
  BY SameRows
<1>2. Holding(u)' = Holding(u)
  BY DEF Holding
<1>3. ASSUME UNCHANGED files, Progress(u) PROVE Progress(u)'
  <2>1. UNCHANGED <<plain, scoped, filters, override>>
    BY <1>3 DEF files
  <2>2. \A i : /\ Full(u, i)' = Full(u, i) /\ Half(u, i)' = Half(u, i) /\ Bare(i)' = Bare(i)
    BY <1>1, <2>1 DEF Full, Half, Bare
  <2>3. \A n : Placed(u, n)' = Placed(u, n)
    BY <2>2 DEF Placed
  <2> QED BY <1>1, <1>3, <2>1, <2>2, <2>3 DEF Progress
<1> QED BY <1>1, <1>2, <1>3 DEF Apart

\* What all steps of the files have to keep.
LEMMA FilesKeptIf ==
  ASSUME FilesInd, NEW t \in Threads, FilesTypeOK', ScopesKept', Apart(t)', Apart(Other(t))', Started',
         debt' = "none" /\ (\A u \in Threads : work'[u].at = "idle") => Matched'
  PROVE  FilesInd'
BY TwoThreads DEF FilesInd

\* The steps before a rendering: of a thread that goes from one waiting place to another, or
\* that was idle and after a change of the store or of the settings waits to render.
LEMMA WaitsKeep ==
  ASSUME FilesInd, NEW t \in Threads,
         work[t].at \in {"idle", "notify", "noting", "import"},
         NEW p \in {"notify", "noting", "import", "policy"}, Goto(t, p),
         UNCHANGED <<app, files, debt>>, work[t].at = "idle" => app = "up",
         rows' \in [Snips -> Rows], policy' \in BOOLEAN, edits' \in Nat
  PROVE  FilesInd'
<1> DEFINE o == Other(t)
<1>1. /\ FilesTypeOK /\ ScopesKept /\ Started /\ Apart(t) /\ Apart(o) /\ o \in Threads /\ o # t /\ Other(o) = t
  BY TwoThreads DEF FilesInd
<1>2. /\ work' \in [Threads -> Jobs] /\ work'[t].at = p /\ work'[t].alone = work[t].alone /\ work'[o] = work[o]
  BY <1>1, GoesTo
<1>3. UNCHANGED <<plain, scoped, filters, override>>
  BY DEF files
<1>4. FilesTypeOK'
  BY <1>1, <1>2, <1>3 DEF FilesTypeOK, Jobs
<1>5. ScopesKept'
  BY <1>1, <1>3 DEF ScopesKept
<1>6. ~Holding(t) /\ ~work[t].alone /\ ~Holding(t)' /\ Waiting(t)'
  BY <1>1, <1>2 DEF Holding, Apart, Waiting
<1>7. Apart(t)'
  BY <1>2, <1>6, RestApart
<1>8. Timely(o)'
  BY <1>1, <1>6 DEF Timely
<1>9. Apart(o)'
  BY <1>1, <1>2, <1>6, <1>8, StaysApart DEF Apart
<1>10. Started'
  BY <1>1, <1>2, TwoThreads DEF Started, Threads
<1>11. ~(\A u \in Threads : work'[u].at = "idle")
  BY <1>2
<1> QED BY <1>4, <1>5, <1>7, <1>9, <1>10, <1>11, FilesKeptIf

\* The policy is read: who reads while the other holds something makes both doubtful.
LEMMA PolicyKeeps == ASSUME FilesInd, NEW t \in Threads, ReadPolicy(t) PROVE FilesInd'
<1> DEFINE o == Other(t)
           j == [work[t] EXCEPT !.at = "list", !.policy = policy, !.alone = ~Holding(Other(t))]
           k == [work[o] EXCEPT !.alone = FALSE]
<1>1. /\ FilesTypeOK /\ ScopesKept /\ Started /\ Apart(t) /\ Apart(o) /\ o \in Threads /\ o # t /\ Other(o) = t
  BY TwoThreads DEF FilesInd
<1>2. work[t] \in Jobs /\ work[o] \in Jobs /\ policy \in BOOLEAN /\ Holding(o) \in BOOLEAN
  BY <1>1 DEF FilesTypeOK, Jobs, Holding
<1>3. j \in Jobs /\ j.at = "list" /\ j.rows = work[t].rows /\ j.policy = policy /\ j.alone = ~Holding(o)
  BY <1>2 DEF Jobs
<1>4. k \in Jobs /\ k.at = work[o].at /\ k.slot = work[o].slot /\ k.rows = work[o].rows /\ k.policy = work[o].policy
      /\ ~k.alone
  BY <1>2 DEF Jobs
<1>5. work' = [u \in Threads |-> IF u = t THEN j ELSE [work[u] EXCEPT !.alone = FALSE]]
  BY DEF ReadPolicy
<1>6. /\ work[t].at = "policy" /\ debt' = (IF Holding(o) THEN "mixed" ELSE debt)
      /\ UNCHANGED <<app, rows, policy, plain, scoped, filters, override, edits>>
  BY DEF ReadPolicy, files
<1>7. work' \in [Threads -> Jobs] /\ work'[t] = j /\ work'[o] = k
  <2>1. \A u \in Threads : work'[u] \in Jobs
    BY <1>1, <1>3, <1>4, <1>5, TwoThreads
  <2> QED BY <1>1, <1>5, <2>1
<1> HIDE DEF j, k
<1>8. FilesTypeOK'
  BY <1>1, <1>6, <1>7 DEF FilesTypeOK, Jobs
<1>9. ScopesKept'
  BY <1>1, <1>6 DEF ScopesKept
<1>10. Holding(t)' /\ Holding(o)' = Holding(o)
  BY <1>3, <1>4, <1>7 DEF Holding
<1>11. Apart(t)'
  <2>1. Timely(t)' /\ Progress(t)'
    BY <1>3, <1>6, <1>7 DEF Timely, Progress
  <2> QED BY <1>3, <1>6, <1>7, <1>10, <2>1 DEF Apart
<1>12. Apart(o)'
  BY <1>1, <1>4, <1>6, <1>7, <1>10, StaysApart DEF files
<1>13. Started'
  BY <1>1, <1>6, <1>7, <1>3, <1>4, TwoThreads DEF Started, Threads
<1>14. ~(\A u \in Threads : work'[u].at = "idle")
  BY <1>3, <1>7
<1> QED BY <1>8, <1>9, <1>11, <1>12, <1>13, <1>14, FilesKeptIf

\* The snippets are listed.
LEMMA ListKeeps == ASSUME FilesInd, NEW t \in Threads, List(t) PROVE FilesInd'
<1> DEFINE o == Other(t)
           j == [work[t] EXCEPT !.at = "clean", !.rows = rows]
<1>1. /\ FilesTypeOK /\ ScopesKept /\ Started /\ Apart(t) /\ Apart(o) /\ o \in Threads /\ o # t /\ Other(o) = t
  BY TwoThreads DEF FilesInd
<1>2. work \in [Threads -> Jobs] /\ work[t] \in Jobs /\ rows \in [Snips -> Rows]
  BY <1>1 DEF FilesTypeOK, Jobs
<1>3. /\ j \in Jobs /\ j.at = "clean" /\ j.rows = rows /\ j.policy = work[t].policy /\ j.alone = work[t].alone
  BY <1>2 DEF Jobs
<1>4. work' = [work EXCEPT ![t] = j]
  BY DEF List
<1>5. work[t].at = "list" /\ UNCHANGED <<app, rows, policy, plain, scoped, filters, override, debt, edits>>
  BY DEF List, files
<1> HIDE DEF j
<1>6. work' \in [Threads -> Jobs] /\ work'[t] = j /\ work'[o] = work[o]
  BY <1>1, <1>2, <1>3, <1>4
<1>7. FilesTypeOK'
  BY <1>1, <1>5, <1>6 DEF FilesTypeOK, Jobs
<1>8. ScopesKept'
  BY <1>1, <1>5 DEF ScopesKept
<1>9. Holding(t) /\ Holding(t)' /\ Holding(o)' = Holding(o)
  BY <1>3, <1>5, <1>6 DEF Holding
<1>10. Apart(t)'
  <2>1. Timely(t) => Timely(t)'
    BY <1>1, <1>3, <1>5, <1>6 DEF Timely, Waiting
  <2>2. Progress(t)'
    BY <1>3, <1>6 DEF Progress
  <2> QED BY <1>1, <1>3, <1>5, <1>6, <1>9, <2>1, <2>2 DEF Apart
<1>11. Apart(o)'
  <2>1. ~work[o].alone
    BY <1>1, <1>9 DEF Apart
  <2> QED BY <1>1, <1>5, <1>6, <1>9, <2>1, StaysApart DEF Apart, files
<1>12. Started'
  BY <1>1, <1>5, <1>6, TwoThreads DEF Started, Threads
<1>13. ~(\A u \in Threads : work'[u].at = "idle")
  BY <1>3, <1>6
<1> QED BY <1>7, <1>8, <1>10, <1>11, <1>12, <1>13, FilesKeptIf

\* A rendering fails: the files are owed.
LEMMA FailKeeps == ASSUME FilesInd, NEW t \in Threads, Fail(t) PROVE FilesInd'
<1> DEFINE o == Other(t)
<1>1. /\ FilesTypeOK /\ ScopesKept /\ Started /\ Apart(t) /\ Apart(o) /\ o \in Threads /\ o # t /\ Other(o) = t
  BY TwoThreads DEF FilesInd
<1>2. /\ work[t].at \in {"clean", "plain", "match", "filter", "override"}
      /\ debt' = (IF debt = "mixed" THEN debt ELSE "owed") /\ app' = (IF app = "starting" THEN "down" ELSE app)
      /\ UNCHANGED <<rows, policy, plain, scoped, filters, override>> /\ work' = [work EXCEPT ![t] = Idle]
      /\ edits' = edits \/ edits' = edits + 1
  BY DEF Fail, files, MayEdit
<1>3. work' \in [Threads -> Jobs] /\ work'[t].at = "idle" /\ ~work'[t].alone /\ work'[o] = work[o]
  BY <1>1, <1>2, GoesIdle
<1>4. FilesTypeOK'
  BY <1>1, <1>2, <1>3 DEF FilesTypeOK, Jobs
<1>5. ScopesKept'
  BY <1>1, <1>2 DEF ScopesKept
<1>6. Holding(t) /\ ~Waiting(t) /\ ~Holding(t)' /\ debt' # "none"
  BY <1>2, <1>3 DEF Holding, Waiting
<1>7. Apart(t)'
  BY <1>3, <1>6, RestApart
<1>8. Timely(o) => Timely(o)'
  BY <1>1, <1>2, <1>3, <1>6 DEF Timely
<1>9. Apart(o)'
  BY <1>1, <1>2, <1>3, <1>6, <1>8, StaysApart DEF Apart, files
<1>10. Started'
  BY <1>1, <1>2, <1>3, TwoThreads DEF Started, Threads
<1> QED BY <1>4, <1>5, <1>6, <1>7, <1>9, <1>10, FilesKeptIf

\* An import fails: what is rendered already has not seen it.
LEMMA ImportFailsKeeps == ASSUME FilesInd, ImportFails PROVE FilesInd'
<1>1. /\ FilesTypeOK /\ ScopesKept /\ Started /\ Apart("sync") /\ "main" \in Threads /\ "sync" \in Threads
      /\ Other("main") = "sync" /\ Other("sync") = "main"
  BY DEF FilesInd, Threads, Other
<1> DEFINE k == [work["sync"] EXCEPT !.alone = FALSE]
<1>2. work["sync"] \in Jobs
  BY <1>1 DEF FilesTypeOK, Jobs
<1>3. /\ k \in Jobs /\ k.at = work["sync"].at /\ k.slot = work["sync"].slot /\ k.rows = work["sync"].rows
      /\ k.policy = work["sync"].policy /\ ~k.alone
  BY <1>2 DEF Jobs
<1>4. /\ work["main"].at = "import" /\ debt' = (IF debt = "mixed" THEN debt ELSE "owed")
      /\ UNCHANGED <<app, rows, policy, plain, scoped, filters, override, edits>>
  BY DEF ImportFails, OweImport, files
<1>5. work' \in [Threads -> Jobs] /\ work'["main"] = Idle /\ work'["sync"] = k
  <2>1. work' = [t \in Threads |-> IF t = "main" THEN Idle ELSE [work[t] EXCEPT !.alone = FALSE]]
    BY DEF ImportFails
  <2>2. work' = [t \in Threads |-> IF t = "main" THEN Idle ELSE k]
    BY <2>1 DEF Threads
  <2> HIDE DEF k
  <2> QED BY <1>1, <1>3, <2>2, IdleJob
<1> HIDE DEF k
<1>6. FilesTypeOK'
  BY <1>1, <1>4, <1>5 DEF FilesTypeOK, Jobs
<1>7. ScopesKept'
  BY <1>1, <1>4 DEF ScopesKept
<1>8. ~Holding("main")' /\ debt' # "none"
  BY <1>4, <1>5, IdleJob DEF Holding
<1>9. Apart("main")'
  BY <1>1, <1>5, <1>8, IdleJob, RestApart
<1>10. Apart("sync")'
  BY <1>1, <1>3, <1>4, <1>5, <1>8, StaysApart DEF files
<1>11. Started'
  BY <1>1, <1>3, <1>4, <1>5, IdleJob DEF Started, Threads
<1> QED BY <1>1, <1>6, <1>7, <1>8, <1>9, <1>10, <1>11, FilesKeptIf

\* The application ends, and is started again.
LEMMA CrashKeeps == ASSUME FilesInd, Crash \/ Launch PROVE FilesInd'
<1>1. /\ FilesTypeOK /\ ScopesKept /\ Started /\ "main" \in Threads /\ "sync" \in Threads
      /\ Other("main") = "sync" /\ Other("sync") = "main" /\ Apart("main") /\ Apart("sync")
  BY DEF FilesInd, Threads, Other
<1>2. UNCHANGED <<rows, policy, plain, scoped, filters, override>> /\ (edits' = edits \/ edits' = edits + 1)
  BY DEF Crash, Launch, MayEdit, files
<1>3. CASE Crash
  <2>1. /\ work' = [t \in Threads |-> Idle] /\ app' = "down"
        /\ debt' = (IF debt = "none" /\ (\E t \in Threads : work[t].at # "idle") THEN "owed" ELSE debt)
    BY <1>3 DEF Crash
  <2>2. work' \in [Threads -> Jobs] /\ \A t \in Threads : work'[t].at = "idle" /\ ~work'[t].alone
    BY <2>1, IdleJob
  <2>3. FilesTypeOK'
    BY <1>1, <1>2, <2>1, <2>2 DEF FilesTypeOK, Jobs
  <2>4. ScopesKept'
    BY <1>1, <1>2, <2>1 DEF ScopesKept
  <2>5. Apart("main")' /\ Apart("sync")'
    BY <1>1, <2>2, RestApart DEF Holding
  <2>6. Started'
    BY <2>1, <2>2 DEF Started
  <2>7. debt' = "none" => Matched'
    <3>1. debt' = "none" => Matched
      BY <2>1 DEF FilesInd
    <3> QED BY <1>2, <3>1 DEF Matched, Active, Wanted
  <2> QED BY <1>1, <2>3, <2>4, <2>5, <2>6, <2>7, FilesKeptIf
<1>4. CASE Launch
  <2>1. app = "down" /\ app' = "starting" /\ Goto("main", "policy") /\ UNCHANGED <<debt, edits>>
    BY <1>4 DEF Launch
  <2>2. \A t \in Threads : work[t].at = "idle" /\ ~work[t].alone
    BY <1>1, <2>1, TwoThreads DEF Started, Apart, Holding
  <2>3. /\ work' \in [Threads -> Jobs] /\ work'["main"].at = "policy" /\ work'["sync"] = work["sync"]
        /\ work'["main"].alone = work["main"].alone
    BY <1>1, <2>1, GoesTo
  <2>4. FilesTypeOK'
    BY <1>1, <1>2, <2>1, <2>3 DEF FilesTypeOK, Jobs
  <2>5. ScopesKept'
    BY <1>1, <1>2, <2>1 DEF ScopesKept
  <2>6. Apart("main")' /\ Apart("sync")'
    BY <1>1, <2>2, <2>3, RestApart DEF Holding
  <2>7. Started'
    BY <1>1, <2>1, <2>2, <2>3 DEF Started
  <2>8. ~(\A u \in Threads : work'[u].at = "idle")
    BY <1>1, <2>3
  <2> QED BY <1>1, <2>4, <2>5, <2>6, <2>7, <2>8, FilesKeptIf
<1> QED BY <1>3, <1>4

\* Everything that is not a write or a removal.
LEMMA OtherKeeps == ASSUME FilesInd, OtherStep PROVE FilesInd'
<1>1. FilesTypeOK
  BY DEF FilesInd
<1> USE DEF files
<1>2. ASSUME NEW t \in Threads, NEW s \in Snips, NEW r \in Revisions, Commit(t, s, r)
      PROVE  /\ rows' \in [Snips -> Rows] /\ edits' \in Nat /\ policy' \in BOOLEAN
             /\ app = "up" /\ UNCHANGED <<app, files, debt>>
  <2>1. r \in Rows
    BY FilesConstants
  <2> QED BY <1>1, <1>2, <2>1 DEF Commit, MayEdit, FilesTypeOK
<1>3. ASSUME NEW t \in Threads, NEW s \in Snips, NEW r \in Revisions, Edit(t, s, r) PROVE FilesInd'
  BY <1>2, <1>3, WaitsKeep DEF Edit
<1>4. ASSUME NEW s \in Snips, NEW r \in Revisions, ImportRow(s, r) PROVE FilesInd'
  <2>1. "main" \in Threads
    BY DEF Threads
  <2> QED BY <1>2, <1>4, <2>1, WaitsKeep DEF ImportRow
<1>5. ASSUME NEW t \in Threads, Notified(t) PROVE FilesInd'
  <2>1. rows' \in [Snips -> Rows] /\ edits' \in Nat /\ policy' \in BOOLEAN
    BY <1>1, <1>5 DEF Notified, FilesTypeOK
  <2> QED BY <1>5, <2>1, WaitsKeep DEF Notified
<1>6. CASE ImportDone \/ (\E p \in BOOLEAN : Configure(p))
  <2>1. rows' \in [Snips -> Rows] /\ edits' \in Nat /\ policy' \in BOOLEAN /\ "main" \in Threads
    BY <1>1, <1>6 DEF ImportDone, Configure, MayEdit, FilesTypeOK, Threads
  <2> QED BY <1>6, <2>1, WaitsKeep DEF ImportDone, Configure
<1> QED BY <1>3, <1>4, <1>5, <1>6, PolicyKeeps, ListKeeps, FailKeeps, ImportFailsKeeps, CrashKeeps DEF OtherStep

\* What is common to the removals and writes of a rendering but its last.
LEMMA WritesKeep ==
  ASSUME FilesInd, NEW t \in Threads, work[t].at \in {"clean", "plain", "match", "filter"},
         work' \in [Threads -> Jobs], work'[t].at \in {"plain", "match", "filter", "override"},
         work'[t].rows = work[t].rows, work'[t].policy = work[t].policy, work'[t].alone = work[t].alone,
         work'[Other(t)] = work[Other(t)], UNCHANGED <<app, rows, policy, debt, edits>>,
         plain' \subseteq Matches, scoped' \in [Slots -> SUBSET Matches],
         filters' \in [Slots -> {"none"} \cup Scopes], override' \in BOOLEAN,
         work'[t].at \in {"match", "filter"} => work'[t].slot \in 1..Count(t),
         Progress(t) => Progress(t)', debt # "mixed" /\ Progress(t) => ScopesKept'
  PROVE  FilesInd'
<1> DEFINE o == Other(t)
<1>1. /\ FilesTypeOK /\ ScopesKept /\ Started /\ Apart(t) /\ Apart(o) /\ o \in Threads /\ o # t /\ Other(o) = t
  BY TwoThreads DEF FilesInd
<1>2. FilesTypeOK'
  BY <1>1 DEF FilesTypeOK, Jobs
<1>3. Holding(t) /\ Holding(t)' /\ Holding(o)' = Holding(o) /\ ~(work[t].at = "list") /\ ~(work'[t].at = "list")
  BY DEF Holding
<1>4. Count(t)' = Count(t)
  BY SameRows
<1>5. debt # "mixed" \/ work[t].alone => Progress(t)
  BY <1>1, <1>3 DEF Apart
<1>6. ScopesKept'
  BY <1>5 DEF ScopesKept
<1>7. Apart(t)'
  <2>1. Timely(t) => Timely(t)'
    BY <1>1, <1>3 DEF Timely, Waiting
  <2> QED BY <1>1, <1>3, <1>4, <1>5, <2>1 DEF Apart
<1>8. Apart(o)'
  <2>1. ~work[o].alone /\ (Holding(o) => debt = "mixed")
    BY <1>1, <1>3 DEF Apart
  <2> QED BY <1>1, <1>3, <2>1, StaysApart
<1>9. Started'
  BY <1>1, TwoThreads DEF Started, Threads
<1>10. ~(\A u \in Threads : work'[u].at = "idle")
  OBVIOUS
<1> QED BY <1>2, <1>6, <1>7, <1>8, <1>9, <1>10, FilesKeptIf

\* After the removal the files are bare.
LEMMA CleanKeeps == ASSUME FilesInd, NEW t \in Threads, Clean(t) PROVE FilesInd'
<1>1. FilesTypeOK /\ plain \subseteq Matches
  BY DEF FilesInd, FilesTypeOK
<1>2. /\ work[t].at = "clean" /\ Goto(t, "plain")
      /\ scoped' = [i \in Slots |-> {}] /\ filters' = [i \in Slots |-> "none"] /\ override' = FALSE
      /\ UNCHANGED <<app, rows, policy, plain, debt, edits>>
  BY DEF Clean
<1>3. /\ work' \in [Threads -> Jobs] /\ work'[t].at = "plain" /\ work'[t].rows = work[t].rows
      /\ work'[t].policy = work[t].policy /\ work'[t].alone = work[t].alone /\ work'[Other(t)] = work[Other(t)]
  BY <1>1, <1>2, GoesTo
<1>4. \A i \in Slots : scoped'[i] = {} /\ filters'[i] = "none"
  BY <1>2
<1>5. Placed(t, 0)'
  <2>1. \A i \in Slots : Bare(i)' /\ ~(i <= 0)
    BY <1>4 DEF Bare, Slots
  <2> QED BY <2>1 DEF Placed
<1>6. Progress(t)'
  BY <1>2, <1>3, <1>5 DEF Progress
<1>7. ScopesKept'
  BY <1>4 DEF ScopesKept
<1> QED BY <1>1, <1>2, <1>3, <1>6, <1>7, WritesKeep

\* After glyphio.yml the first scope follows, or the delivery.
LEMMA PlainKeeps == ASSUME FilesInd, NEW t \in Threads, WritePlain(t) PROVE FilesInd'
<1>1. FilesTypeOK /\ ScopesKept /\ Count(t) \in Nat
  BY ScopesHavePlaces DEF FilesInd
<1>2. /\ work[t].at = "plain" /\ plain' = Body(t, "all") /\ AfterSlot(t, 0)
      /\ UNCHANGED <<app, rows, policy, scoped, filters, override, debt, edits>>
  BY DEF WritePlain
<1>3. /\ work' \in [Threads -> Jobs] /\ work'[t].rows = work[t].rows
      /\ 0 < Count(t) => work'[t].at = "match" /\ work'[t].slot = 0 + 1
      /\ ~(0 < Count(t)) => work'[t].at = "override" /\ work'[t].slot = 0
      /\ work'[t].policy = work[t].policy /\ work'[t].alone = work[t].alone /\ work'[Other(t)] = work[Other(t)]
  BY <1>1, <1>2, GoesNext
<1>4. /\ Count(t)' = Count(t) /\ (\A i : Nth(t, i)' = Nth(t, i)) /\ (\A c : Body(t, c)' = Body(t, c))
  BY <1>3, SameRows
<1>5. work'[t].at \in {"match", "override"} /\ (work'[t].at = "match" => work'[t].slot \in 1..Count(t))
  BY <1>1, <1>3
<1>6. Progress(t) => Progress(t)'
  <2> SUFFICES ASSUME Progress(t) PROVE Progress(t)'
    OBVIOUS
  <2>1. ~override /\ Placed(t, 0)
    BY <1>2 DEF Progress
  <2>2. Placed(t, 0)'
    BY <1>2, <1>4, <2>1 DEF Placed, Full, Bare
  <2>3. work'[t].at = "match" => work'[t].slot - 1 = 0
    BY <1>3
  <2>4. work'[t].at = "override" => Count(t)' = 0
    BY <1>1, <1>3, <1>4
  <2> QED BY <1>2, <1>4, <1>5, <2>1, <2>2, <2>3, <2>4 DEF Progress
<1>7. plain' \subseteq Matches
  BY <1>1, <1>2, BodyMatches
<1>8. ScopesKept'
  BY <1>1, <1>2 DEF ScopesKept
<1>9. /\ scoped' \in [Slots -> SUBSET Matches] /\ filters' \in [Slots -> {"none"} \cup Scopes] /\ override' \in BOOLEAN
  BY <1>1, <1>2 DEF FilesTypeOK
<1> QED BY <1>2, <1>3, <1>5, <1>6, <1>7, <1>8, <1>9, WritesKeep

\* A match file without its application file has no effect yet.
LEMMA MatchesKeep == ASSUME FilesInd, NEW t \in Threads, WriteMatches(t) PROVE FilesInd'
<1> DEFINE i == work[t].slot
<1>1. /\ FilesTypeOK /\ ScopesKept /\ Apart(t) /\ Count(t) \in Nat /\ Len(ScopeOrder) \in Nat
      /\ Count(t) <= Len(ScopeOrder) /\ \A k \in 1..Count(t) : Nth(t, k) \in Scopes
  BY ScopesHavePlaces DEF FilesInd
<1>2. /\ work[t].at = "match" /\ scoped' = [scoped EXCEPT ![i] = Body(t, Nth(t, i))] /\ Goto(t, "filter")
      /\ UNCHANGED <<app, rows, policy, plain, filters, override, debt, edits>>
  BY DEF WriteMatches
<1>3. /\ work' \in [Threads -> Jobs] /\ work'[t].at = "filter" /\ work'[t].rows = work[t].rows /\ work'[t].slot = i
      /\ work'[t].policy = work[t].policy /\ work'[t].alone = work[t].alone /\ work'[Other(t)] = work[Other(t)]
  BY <1>1, <1>2, GoesTo
<1>4. /\ Count(t)' = Count(t) /\ (\A k : Nth(t, k)' = Nth(t, k)) /\ (\A c : Body(t, c)' = Body(t, c))
  BY <1>3, SameRows
<1>5. i \in 1..Count(t) /\ i \in Slots /\ i \in Nat /\ Slots \subseteq Nat
  BY <1>1, <1>2 DEF Apart, Slots
<1>6. \A k \in Slots : scoped'[k] = IF k = i THEN Body(t, Nth(t, i)) ELSE scoped[k]
  BY <1>1, <1>2 DEF FilesTypeOK
<1> HIDE DEF i
<1>7. Progress(t) => Progress(t)' /\ filters[i] = "none"
  <2> SUFFICES ASSUME Progress(t) PROVE Progress(t)' /\ filters[i] = "none"
    OBVIOUS
  <2>1. ~override /\ plain = Body(t, "all") /\ Placed(t, i - 1)
    BY <1>2 DEF Progress, i
  <2>2. \A k \in Slots : /\ k < i => Full(t, k)
                         /\ ~(k < i) => Bare(k)
    <3> TAKE k \in Slots
    <3>1. (k < i) <=> (k <= i - 1)
      BY <1>5
    <3> QED BY <2>1, <3>1 DEF Placed
  <2>3. filters[i] = "none"
    BY <1>5, <2>2 DEF Bare
  <2>4. \A k \in Slots : IF k < i THEN Full(t, k)' ELSE IF k = i THEN Half(t, k)' ELSE Bare(k)'
    <3> TAKE k \in Slots
    <3>1. CASE k < i
      <4>1. k # i
        BY <1>5, <3>1
      <4> QED BY <1>2, <1>4, <1>6, <2>2, <3>1, <4>1 DEF Full
    <3>2. CASE k = i
      <4>1. ~(k < i)
        BY <1>5, <3>2
      <4> QED BY <1>2, <1>4, <1>6, <2>3, <3>2, <4>1 DEF Half
    <3>3. CASE ~(k < i) /\ k # i
      BY <1>2, <1>6, <2>2, <3>3 DEF Bare
    <3> QED BY <3>1, <3>2, <3>3
  <2> QED BY <1>2, <1>3, <1>4, <2>1, <2>3, <2>4 DEF Progress
<1>8. Body(t, Nth(t, i)) \subseteq Matches
  BY <1>1, <1>5, BodyMatches
<1>9. scoped' \in [Slots -> SUBSET Matches]
  BY <1>1, <1>2, <1>8 DEF FilesTypeOK
<1>10. debt # "mixed" /\ Progress(t) => ScopesKept'
  BY <1>1, <1>2, <1>6, <1>7 DEF ScopesKept
<1>11. /\ plain' \subseteq Matches /\ filters' \in [Slots -> {"none"} \cup Scopes] /\ override' \in BOOLEAN
  BY <1>1, <1>2 DEF FilesTypeOK
<1> QED BY <1>2, <1>3, <1>5, <1>7, <1>9, <1>10, <1>11, WritesKeep

\* With its application file the i-th scope is complete.
LEMMA FilterKeeps == ASSUME FilesInd, NEW t \in Threads, WriteFilter(t) PROVE FilesInd'
<1> DEFINE i == work[t].slot
<1>1. /\ FilesTypeOK /\ ScopesKept /\ Apart(t) /\ Count(t) \in Nat /\ Len(ScopeOrder) \in Nat
      /\ Count(t) <= Len(ScopeOrder) /\ \A k \in 1..Count(t) : Nth(t, k) \in Scopes
  BY ScopesHavePlaces DEF FilesInd
<1>2. /\ work[t].at = "filter" /\ filters' = [filters EXCEPT ![i] = Nth(t, i)] /\ AfterSlot(t, i)
      /\ UNCHANGED <<app, rows, policy, plain, scoped, override, debt, edits>>
  BY DEF WriteFilter
<1>5. i \in 1..Count(t) /\ i \in Slots /\ i \in Nat /\ Slots \subseteq Nat
  BY <1>1, <1>2 DEF Apart, Slots
<1>3. /\ work' \in [Threads -> Jobs] /\ work'[t].rows = work[t].rows
      /\ i < Count(t) => work'[t].at = "match" /\ work'[t].slot = i + 1
      /\ ~(i < Count(t)) => work'[t].at = "override" /\ work'[t].slot = 0
      /\ work'[t].policy = work[t].policy /\ work'[t].alone = work[t].alone /\ work'[Other(t)] = work[Other(t)]
  BY <1>1, <1>2, <1>5, GoesNext
<1>4. /\ Count(t)' = Count(t) /\ (\A k : Nth(t, k)' = Nth(t, k)) /\ (\A c : Body(t, c)' = Body(t, c))
  BY <1>3, SameRows
<1>6. \A k \in Slots : filters'[k] = IF k = i THEN Nth(t, i) ELSE filters[k]
  BY <1>1, <1>2 DEF FilesTypeOK
<1>7. work'[t].at \in {"match", "override"} /\ (work'[t].at = "match" => work'[t].slot \in 1..Count(t))
  BY <1>1, <1>3, <1>5
<1> HIDE DEF i
<1>8. Progress(t) => Progress(t)' /\ scoped[i] = Body(t, Nth(t, i))
  <2> SUFFICES ASSUME Progress(t) PROVE Progress(t)' /\ scoped[i] = Body(t, Nth(t, i))
    OBVIOUS
  <2>1. ~override /\ plain = Body(t, "all")
    BY <1>2 DEF Progress
  <2>2. \A k \in Slots : IF k < i THEN Full(t, k) ELSE IF k = i THEN Half(t, k) ELSE Bare(k)
    BY <1>2 DEF Progress, i
  <2>3. scoped[i] = Body(t, Nth(t, i))
    <3>1. ~(i < i)
      BY <1>5
    <3> QED BY <1>5, <2>2, <3>1 DEF Half
  <2>4. \A k \in Slots : IF k <= i THEN Full(t, k)' ELSE Bare(k)'
    <3> TAKE k \in Slots
    <3>1. CASE k < i
      <4>1. k # i /\ k <= i
        BY <1>5, <3>1
      <4> QED BY <1>2, <1>4, <1>6, <2>2, <3>1, <4>1 DEF Full
    <3>2. CASE k = i
      BY <1>2, <1>4, <1>5, <1>6, <2>3, <3>2 DEF Full
    <3>3. CASE ~(k < i) /\ k # i
      <4>1. ~(k <= i)
        BY <1>5, <3>3
      <4> QED BY <1>2, <1>6, <2>2, <3>3, <4>1 DEF Bare
    <3> QED BY <3>1, <3>2, <3>3
  <2>5. CASE work'[t].at = "match"
    <3>1. work'[t].slot - 1 = i
      BY <1>3, <1>5, <2>5
    <3>2. Placed(t, work[t].slot - 1)'
      BY <2>4, <3>1 DEF Placed
    <3> QED BY <1>2, <1>4, <2>1, <2>3, <2>5, <3>2 DEF Progress
  <2>6. CASE work'[t].at = "override"
    <3>1. Count(t)' = i
      BY <1>1, <1>3, <1>4, <1>5, <2>6
    <3>2. Placed(t, Count(t))'
      BY <2>4, <3>1 DEF Placed
    <3> QED BY <1>2, <1>4, <2>1, <2>3, <2>6, <3>2 DEF Progress
  <2> QED BY <1>7, <2>3, <2>5, <2>6
<1>9. filters' \in [Slots -> {"none"} \cup Scopes]
  BY <1>1, <1>2, <1>5 DEF FilesTypeOK
<1>10. debt # "mixed" /\ Progress(t) => ScopesKept'
  <2> SUFFICES ASSUME debt # "mixed", Progress(t), NEW k \in Slots, NEW p \in scoped[k]
               PROVE  filters'[k] \in {"none", p[2]}
    BY <1>2 DEF ScopesKept
  <2>1. CASE k = i
    BY <1>6, <1>8, <2>1 DEF Body
  <2>2. CASE k # i
    BY <1>1, <1>6, <2>2 DEF ScopesKept
  <2> QED BY <2>1, <2>2
<1>11. /\ plain' \subseteq Matches /\ scoped' \in [Slots -> SUBSET Matches] /\ override' \in BOOLEAN
  BY <1>1, <1>2 DEF FilesTypeOK
<1> QED BY <1>2, <1>3, <1>7, <1>8, <1>9, <1>10, <1>11, WritesKeep

\* A rendering that had the files to itself has made them say what it has read.
LEMMA RenderedIsRead ==
  ASSUME FilesTypeOK, NEW t \in Threads, work[t].at = "override", Progress(t)
  PROVE  Active = {<<s, work[t].rows[s].scope>> : s \in {s \in Snips : work[t].rows[s].state = "on"}}
<1> DEFINE r == work[t].rows
<1>1. /\ Count(t) \in Nat /\ Len(ScopeOrder) \in Nat /\ Count(t) <= Len(ScopeOrder)
      /\ \A i \in 1..Count(t) : Nth(t, i) \in Scopes
      /\ \A s \in Snips : r[s].state # "gone" /\ r[s].scope \in Scopes => \E i \in 1..Count(t) : Nth(t, i) = r[s].scope
  BY ScopesHavePlaces
<1>2. r \in [Snips -> Rows]
  BY DEF FilesTypeOK
<1>3. plain = {<<s, "all">> : s \in {s \in Snips : r[s].state = "on" /\ r[s].scope = "all"}}
  BY DEF Progress, Body
<1>4. \A i \in Slots :
        IF i <= Count(t)
          THEN /\ scoped[i] = {<<s, Nth(t, i)>> : s \in {s \in Snips : r[s].state = "on" /\ r[s].scope = Nth(t, i)}}
               /\ filters[i] = Nth(t, i)
          ELSE filters[i] = "none"
  BY DEF Progress, Placed, Full, Bare, Body
<1>5. \A i \in 1..Count(t) : i \in Slots /\ i <= Count(t) /\ Nth(t, i) # "none"
  BY <1>1, FilesConstants DEF Slots
<1>6. \A i \in Slots : i <= Count(t) => i \in 1..Count(t)
  BY <1>1 DEF Slots
<1> HIDE DEF r
<1>7. ASSUME NEW a \in Active PROVE a \in {<<s, r[s].scope>> : s \in {s \in Snips : r[s].state = "on"}}
  <2>1. CASE a \in {<<p[1], "all">> : p \in plain}
    <3>1. PICK s \in Snips : r[s].state = "on" /\ r[s].scope = "all" /\ a = <<s, "all">>
      BY <1>3, <2>1
    <3> QED BY <3>1
  <2>2. ASSUME NEW i \in Slots, filters[i] # "none", a \in {<<p[1], filters[i]>> : p \in scoped[i]}
        PROVE  a \in {<<s, r[s].scope>> : s \in {s \in Snips : r[s].state = "on"}}
    <3>1. i <= Count(t)
      BY <1>4, <2>2
    <3>2. PICK p \in scoped[i] : a = <<p[1], Nth(t, i)>>
      BY <1>4, <2>2, <3>1
    <3>3. PICK s \in Snips : r[s].state = "on" /\ r[s].scope = Nth(t, i) /\ p = <<s, Nth(t, i)>>
      BY <1>4, <3>1, <3>2
    <3> QED BY <3>2, <3>3
  <2> QED BY <2>1, <2>2 DEF Active
<1>8. ASSUME NEW s \in Snips, r[s].state = "on" PROVE <<s, r[s].scope>> \in Active
  <2>1. r[s].scope = "all" \/ r[s].scope \in Scopes
    BY <1>2, <1>8 DEF Rows, Gone
  <2>2. CASE r[s].scope = "all"
    <3>1. <<s, "all">> \in plain
      BY <1>3, <1>8, <2>2
    <3> QED BY <2>2, <3>1 DEF Active
  <2>3. CASE r[s].scope \in Scopes
    <3>1. PICK i \in 1..Count(t) : Nth(t, i) = r[s].scope
      BY <1>1, <1>8, <2>3
    <3>2. /\ i \in Slots /\ filters[i] = r[s].scope /\ filters[i] # "none" /\ <<s, r[s].scope>> \in scoped[i]
      BY <1>4, <1>5, <1>8, <3>1
    <3>3. <<s, r[s].scope>> \in {<<p[1], filters[i]>> : p \in scoped[i]}
      BY <3>2
    <3> QED BY <3>2, <3>3 DEF Active
  <2> QED BY <2>1, <2>2, <2>3
<1>9. Active = {<<s, r[s].scope>> : s \in {s \in Snips : r[s].state = "on"}}
  BY <1>7, <1>8
<1> QED BY <1>9 DEF r

\* A rendering that was alone to the end has made the files say what the store holds.
LEMMA OverrideKeeps == ASSUME FilesInd, NEW t \in Threads, WriteOverride(t) PROVE FilesInd'
<1> DEFINE o == Other(t)
<1>1. /\ FilesTypeOK /\ ScopesKept /\ Started /\ Apart(t) /\ Apart(o) /\ o \in Threads /\ o # t /\ Other(o) = t
  BY TwoThreads DEF FilesInd
<1>2. /\ work[t].at = "override" /\ override' = (override \/ work[t].policy) /\ work' = [work EXCEPT ![t] = Idle]
      /\ debt' = (IF work[t].alone THEN "none" ELSE debt) /\ app' = (IF t = "main" THEN "up" ELSE app)
      /\ UNCHANGED <<rows, policy, plain, scoped, filters, edits>>
  BY DEF WriteOverride
<1>3. work' \in [Threads -> Jobs] /\ work'[t].at = "idle" /\ ~work'[t].alone /\ work'[o] = work[o]
  BY <1>1, <1>2, GoesIdle
<1>4. work[t].policy \in BOOLEAN /\ override \in BOOLEAN
  BY <1>1 DEF FilesTypeOK
<1>5. FilesTypeOK'
  BY <1>1, <1>2, <1>3, <1>4 DEF FilesTypeOK, Jobs
<1>6. Holding(t) /\ ~Holding(t)' /\ ~Waiting(t)
  BY <1>2, <1>3 DEF Holding, Waiting
<1>7. ScopesKept'
  <2>1. CASE debt # "mixed"
    BY <1>1, <1>2, <2>1 DEF ScopesKept
  <2>2. CASE work[t].alone
    <3>1. Progress(t)
      BY <1>1, <1>6, <2>2 DEF Apart
    <3>2. \A i \in Slots : IF i <= Count(t) THEN scoped[i] = Body(t, Nth(t, i)) /\ filters[i] = Nth(t, i)
                           ELSE filters[i] = "none"
      BY <1>2, <3>1 DEF Progress, Placed, Full, Bare
    <3>3. \A i \in Slots : \A p \in scoped[i] : filters[i] \in {"none", p[2]}
      BY <3>2 DEF Body
    <3> QED BY <1>2, <3>3 DEF ScopesKept
  <2> QED BY <1>2, <2>1, <2>2 DEF ScopesKept
<1>8. Apart(t)'
  BY <1>3, <1>6, RestApart
<1>9. Apart(o)'
  <2>1. ~work[o].alone /\ (Holding(o) => debt = "mixed" /\ ~work[t].alone)
    BY <1>1, <1>6 DEF Apart
  <2> QED BY <1>1, <1>2, <1>3, <1>6, <2>1, StaysApart
<1>10. Started'
  BY <1>1, <1>2, <1>3, TwoThreads DEF Started, Threads
<1>11. ASSUME debt' = "none", \A u \in Threads : work'[u].at = "idle" PROVE Matched'
  <2>1. work[t].alone
    BY <1>1, <1>2, <1>6, <1>11 DEF Apart
  <2>2. Progress(t) /\ Timely(t) /\ ~Waiting(o)
    BY <1>1, <1>3, <1>6, <1>11, <2>1 DEF Apart, Waiting
  <2>3. work[t].policy = policy /\ work[t].rows = rows
    BY <1>2, <2>2 DEF Timely
  <2>4. Active = Wanted
    BY <1>1, <1>2, <2>2, <2>3, RenderedIsRead DEF Wanted
  <2>5. Active' = Active /\ Wanted' = Wanted
    BY <1>2 DEF Active, Wanted
  <2>6. override' = policy'
    BY <1>2, <1>4, <2>2, <2>3 DEF Progress
  <2> QED BY <2>4, <2>5, <2>6 DEF Matched
<1> QED BY <1>1, <1>5, <1>7, <1>8, <1>9, <1>10, <1>11, FilesKeptIf

\* Nothing is written yet, and the first rendering is owed.
LEMMA FilesStart == ASSUME FilesInit PROVE FilesInd
<1>1. /\ app = "starting" /\ debt = "owed" /\ edits = 0 /\ rows \in FirstStores /\ policy = FALSE /\ plain = {}
      /\ scoped = [i \in Slots |-> {}] /\ filters = [i \in Slots |-> "none"] /\ override = FALSE
      /\ work = [t \in Threads |-> IF t = "main" THEN [Idle EXCEPT !.at = "policy"] ELSE Idle]
  BY DEF FilesInit
<1> DEFINE j == [Idle EXCEPT !.at = "policy"]
<1>2. j \in Jobs /\ j.at = "policy" /\ ~j.alone
  BY IdleJob DEF Jobs
<1>3. work = [t \in Threads |-> IF t = "main" THEN j ELSE Idle]
  BY <1>1
<1> HIDE DEF j
<1>4. /\ work \in [Threads -> Jobs] /\ work["main"] = j /\ work["sync"] = Idle
      /\ \A t \in Threads : work[t].at \in {"idle", "policy"} /\ ~work[t].alone
  BY <1>2, <1>3, IdleJob DEF Threads
<1>5. FilesTypeOK
  BY <1>1, <1>4, FilesConstants DEF FilesTypeOK, Jobs
<1>6. ScopesKept /\ Started
  BY <1>1, <1>4, IdleJob DEF ScopesKept, Started
<1>7. \A t \in Threads : Apart(t)
  BY <1>4 DEF Apart, Holding
<1> QED BY <1>1, <1>5, <1>6, <1>7 DEF FilesInd

\* Every write and removal of a rendering.
LEMMA FileStepKeeps == ASSUME FilesInd, NEW t \in Threads, FileStep(t) PROVE FilesInd'
BY CleanKeeps, PlainKeeps, MatchesKeep, FilterKeeps, OverrideKeeps DEF FileStep

-----------------------------------------------------------------------------
(***************************************************************************)
(* The theorems.                                                           *)
(***************************************************************************)
\* What the engine makes of the files after a step is a configuration that it may read.
LEMMA ActiveMatches == ASSUME FilesTypeOK' PROVE Active' \subseteq Matches
<1>1. /\ plain' \subseteq Matches
      /\ \A i \in Slots : scoped'[i] \subseteq Matches /\ filters'[i] \in {"none"} \cup Scopes
  BY DEF FilesTypeOK, Matches
<1>2. /\ \A p \in plain' : p[1] \in Snips
      /\ \A i \in Slots : \A p \in scoped'[i] : p[1] \in Snips
  BY <1>1 DEF Matches
<1>3. \A i \in Slots : filters'[i] # "none" => filters'[i] \in Scopes
  BY <1>1
<1> QED BY <1>2, <1>3 DEF Active, Matches

\* A step of the files or by hand is a touch.
LEMMA TouchKeeps ==
  ASSUME Ind, FilesTypeOK', NEW c, NEW b \in BOOLEAN, Touch(c, b),
         c = [version EXCEPT !.active = Active', !.override = override', !.hand = c.hand],
         c.hand \in 0..MaxActs, c.hand <= acts', acts' \in Nat, acts' <= MaxActs,
         UNCHANGED <<daemon, verdict, mine, exits, expected, respawns, signals, nudges,
                     stage, loaded, busy, mail, code, watching, probe, strikes, raced>>
  PROVE  Engine' /\ Configured'
<1>1. version \in Contents
  BY DeploymentConstants DEF Ind, Engine, TypeOK
<1>2. Active' \subseteq Matches /\ override' \in BOOLEAN
  BY ActiveMatches DEF FilesTypeOK
<1>3. c \in Contents /\ c.active = Active' /\ c.override = override'
  BY <1>1, <1>2 DEF Contents
<1>4. Engine'
  BY <1>3, DeploymentConstants, EngineTouched DEF Ind
<1>5. version' = c
  BY DEF Touch
<1> QED BY <1>3, <1>4, <1>5 DEF Configured

\* What the store and the files keep is what the invariant of the files is about.
LEMMA FilesUntouched == ASSUME FilesInd, UNCHANGED filesVars PROVE FilesInd'
<1>1. UNCHANGED <<app, rows, policy, plain, scoped, filters, override, work, debt, edits>>
  BY DEF filesVars, files
<1>2. FilesTypeOK' /\ ScopesKept' /\ Started'
  BY <1>1 DEF FilesInd, FilesTypeOK, ScopesKept, Started
<1>3. ASSUME NEW u \in Threads PROVE Apart(u)'
  <2>1. Apart(u) /\ Holding(Other(u))' = Holding(Other(u)) /\ (Timely(u) => Timely(u)')
    BY <1>1 DEF FilesInd, Holding, Timely, Waiting
  <2> QED BY <1>1, <2>1, StaysApart DEF Apart, files
<1>4. Matched => Matched'
  BY <1>1 DEF Matched, Active, Wanted
<1> QED BY <1>1, <1>2, <1>3, <1>4 DEF FilesInd

\* The invariant of the engine's processes is about their variables alone.
LEMMA EngineSame == ASSUME Engine, UNCHANGED vars PROVE Engine'
<1>1. UNCHANGED <<daemon, verdict, mine, exits, expected, respawns, changed, signals, nudges, version, broken,
                  stage, loaded, busy, mail, code, watching, probe, acts, strikes, raced>>
  BY DEF vars, chans, conf, procs, books
<1>2. TypeOK' /\ Orderly'
  BY <1>1 DEF Engine, TypeOK, Orderly, Holders
<1>3. Lineage => Lineage'
  BY <1>1 DEF Lineage, Alone, Bereft, Leaving, Left, Replaced, Successor, Deaths, Live
<1>4. (Counted => Counted') /\ (UpToDate => UpToDate')
  BY <1>1 DEF Counted, Counting, UpToDate, Holders
<1> QED BY <1>1, <1>2, <1>3, <1>4 DEF Engine

\* What the engine's processes do changes neither a file nor the number of hand edits.
LEMMA EngineConfigured ==
  ASSUME Configured, TypeOK, Daemon \/ (\E w \in Workers : Worker(w)) \/ Outside, UNCHANGED filesVars
  PROVE  Configured'
<1> USE DEF conf, chans, books, procs
<1>1. UNCHANGED version
  <2>1. ASSUME Daemon PROVE UNCHANGED version
    BY <2>1 DEF Daemon, Begin, LoadConfig, Reload, ClearFree, ClearTell, PurgeOver, OnConfigSignal, OnNudge,
                WaitFree, WaitOver, OnExit, Debounce
  <2>2. ASSUME NEW w \in Workers, Worker(w) PROVE UNCHANGED version
    BY <2>2 DEF Worker, Report, StartUp, Listen, FormCloses, Probe, Conclude, Leave
  <2>3. ASSUME Outside PROVE UNCHANGED version
    BY <2>3 DEF Outside, Abort, Nudge, AskDaemon, KillDaemon, Relaunch, FormOpens, Ask, StrikeWorker
  <2> QED BY <2>1, <2>2, <2>3
<1>2. acts' = acts \/ (acts < MaxActs /\ acts' = acts + 1)
  <2>1. ASSUME Daemon PROVE UNCHANGED acts
    BY <2>1 DEF Daemon, Begin, LoadConfig, Reload, ClearFree, ClearTell, PurgeOver, OnConfigSignal, OnNudge,
                WaitFree, WaitOver, OnExit, Debounce
  <2>2. ASSUME NEW w \in Workers, Worker(w) PROVE UNCHANGED acts
    BY <2>2 DEF Worker, Report, StartUp, Listen, FormCloses, Probe, Conclude, Leave
  <2>3. ASSUME Outside PROVE acts' = acts \/ (acts < MaxActs /\ acts' = acts + 1)
    BY <2>3 DEF Outside, Abort, Nudge, AskDaemon, KillDaemon, Relaunch, FormOpens, Ask, StrikeWorker, Act
  <2> QED BY <2>1, <2>2, <2>3
<1>3. UNCHANGED <<plain, scoped, filters, override>>
  BY DEF filesVars, files
<1>4. Active' = Active
  BY <1>3 DEF Active
<1>5. acts \in Nat /\ version.hand \in 0..MaxActs /\ MaxActs \in Nat
  BY DeploymentConstants, Numbers DEF TypeOK, Contents
<1> QED BY <1>1, <1>2, <1>3, <1>4, <1>5 DEF Configured

\* The files and the processes keep their invariant together.
LEMMA IndStep == ASSUME Ind, [DeployNext]_deployVars PROVE Ind'
<1>1. Engine /\ TypeOK /\ FilesInd /\ FilesTypeOK /\ Configured
  BY DEF Ind, Engine, FilesInd
<1>2. /\ acts \in Nat /\ MaxActs \in Nat /\ acts <= MaxActs
      /\ version \in Contents /\ version.hand \in 0..MaxActs /\ version.hand <= acts
      /\ version.active = Active /\ version.override = override
  BY <1>1, DeploymentConstants, Numbers DEF TypeOK, Contents, Configured
<1>3. ASSUME Daemon \/ (\E w \in Workers : Worker(w)) \/ Outside, UNCHANGED filesVars PROVE Ind'
  BY <1>1, <1>3, EngineKept, EngineConfigured, FilesUntouched DEF Ind
<1>4. CASE Elsewhere
  <2>1. UNCHANGED vars /\ OtherStep
    BY <1>4 DEF Elsewhere
  <2>2. UNCHANGED files
    BY <2>1 DEF OtherStep, Edit, Commit, Notified, ReadPolicy, List, Fail, ImportRow, ImportDone, ImportFails,
                Configure, Crash, Launch
  <2>3. UNCHANGED <<version, acts, plain, scoped, filters, override>>
    BY <2>1, <2>2 DEF vars, conf, books, files
  <2>4. Configured'
    BY <1>1, <2>3 DEF Configured, Active
  <2> QED BY <1>1, <2>1, <2>4, EngineSame, OtherKeeps DEF Ind
<1>5. ASSUME NEW b \in BOOLEAN, HandEdit(b) PROVE Ind'
  <2> DEFINE c == [version EXCEPT !.hand = @ + 1]
  <2>1. /\ Act /\ Touch(c, b) /\ UNCHANGED filesVars
        /\ UNCHANGED <<daemon, verdict, mine, exits, expected, respawns, signals, nudges,
                       stage, loaded, busy, mail, code, watching, probe, strikes, raced>>
    BY <1>5 DEF HandEdit, ConfigChange, procs
  <2>2. acts < MaxActs /\ acts' = acts + 1
    BY <2>1 DEF Act
  <2>3. FilesInd' /\ FilesTypeOK'
    BY <1>1, <2>1, FilesUntouched DEF FilesInd
  <2>4. UNCHANGED <<plain, scoped, filters, override>>
    BY <2>1 DEF filesVars, files
  <2>5. Active' = Active
    BY <2>4 DEF Active
  <2>6. c = [version EXCEPT !.active = Active', !.override = override', !.hand = c.hand]
    BY <1>2, <2>4, <2>5 DEF Contents
  <2>7. c.hand = version.hand + 1
    BY <1>2 DEF Contents
  <2>8. c.hand \in 0..MaxActs /\ c.hand <= acts' /\ acts' \in Nat /\ acts' <= MaxActs
    BY <1>2, <2>2, <2>7
  <2> HIDE DEF c
  <2>9. Engine' /\ Configured'
    BY <2>1, <2>3, <2>6, <2>8, TouchKeeps
  <2> QED BY <2>3, <2>9 DEF Ind
<1>6. ASSUME NEW t \in Threads, WriteFile(t) PROVE Ind'
  <2> DEFINE c == [version EXCEPT !.active = Active', !.override = override']
  <2>1. /\ FileStep(t) /\ Touch(c, broken) /\ UNCHANGED acts
        /\ UNCHANGED <<daemon, verdict, mine, exits, expected, respawns, signals, nudges,
                       stage, loaded, busy, mail, code, watching, probe, strikes, raced>>
    BY <1>6 DEF WriteFile, procs, books
  <2>2. FilesInd' /\ FilesTypeOK'
    BY <1>1, <2>1, FileStepKeeps DEF FilesInd
  <2>3. c.hand = version.hand /\ c = [version EXCEPT !.active = Active', !.override = override', !.hand = c.hand]
    BY <1>2 DEF Contents
  <2>4. broken \in BOOLEAN
    BY <1>1 DEF TypeOK
  <2> HIDE DEF c
  <2>5. c.hand \in 0..MaxActs /\ c.hand <= acts' /\ acts' \in Nat /\ acts' <= MaxActs
    BY <1>2, <2>1, <2>3
  <2>6. Engine' /\ Configured'
    BY <2>1, <2>2, <2>3, <2>4, <2>5, TouchKeeps
  <2> QED BY <2>2, <2>6 DEF Ind
<1>7. CASE UNCHANGED deployVars
  <2>1. UNCHANGED vars /\ UNCHANGED filesVars
    BY <1>7 DEF deployVars
  <2>2. UNCHANGED <<version, acts, plain, scoped, filters, override>>
    BY <2>1 DEF vars, conf, books, filesVars, files
  <2>3. Configured'
    BY <1>1, <2>2 DEF Configured, Active
  <2> QED BY <1>1, <2>1, <2>3, EngineSame, FilesUntouched DEF Ind
<1>8. ASSUME DeployNext PROVE Ind'
  BY <1>3, <1>4, <1>5, <1>6, <1>8 DEF DeployNext, DaemonStep, WorkerStep, OutsideStep
<1> QED BY <1>7, <1>8

\* The invariant holds at the start.
LEMMA IndStart == ASSUME DeployInit PROVE Ind
<1>1. FilesInd /\ Engine
  BY FilesStart, EngineStarts DEF DeployInit
<1>2. version = [active |-> Active, override |-> override, hand |-> 0] /\ acts = 0
  BY DEF DeployInit, Init
<1>3. Configured
  BY <1>2, Numbers DEF Configured
<1> QED BY <1>1, <1>3 DEF Ind

\* The inductive invariant of the renderings, the daemon and the workers together.
THEOREM Invariance == DeploySpec => []Ind
BY IndStart, IndStep, PTL DEF DeploySpec

\* For any number of snippets and scopes: the daemon never runs two workers, and gives up for
\* want of respawns only when workers were struck down more often than it has respawned, while
\* configuration files are written at any moment (daemon/mod.rs, the select loop and
\* restart_worker).
THEOREM NoFalseDeath == DeploySpec => []RestartIsNoDeath
<1>1. Ind => RestartIsNoDeath
  <2> SUFFICES ASSUME Ind, ~raced PROVE RestartIsNoDeath
    BY DEF RestartIsNoDeath
  <2>1. TypeOK /\ Orderly /\ Lineage /\ Counted
    BY DEF Ind, Engine
  <2>2. \A w \in mine : code[w] # "already"
    <3>1. CASE daemon \notin {"loop", "wait"}
      BY <2>1, <3>1 DEF Orderly
    <3>2. CASE daemon = "loop"
      BY <2>1, <3>2 DEF Lineage, Alone, Bereft, Replaced, Successor
    <3>3. CASE daemon = "wait"
      <4>1. \A w \in Workers : stage[w] # "ended" => code[w] = "none"
        BY <2>1 DEF Orderly
      <4> QED BY <2>1, <3>3, <4>1 DEF Lineage, Leaving, Left
    <3> QED BY <3>1, <3>2, <3>3
  <2> QED BY <2>1, <2>2 DEF Counted, RestartIsNoDeath
<1> QED BY <1>1, Invariance, PTL

\* A snippet of one application never expands in another while files are removed and written
\* one by one, unless two renderings overlapped; and when nothing renders, the files say what
\* the store and the settings say (snippet-store, render_yaml_with_policy).
THEOREM FilesAreSound == DeploySpec => []FilesSound
<1>1. Ind => FilesSound
  BY DEF Ind, FilesInd, FilesSound, InStep, Quiet, Matched
<1> QED BY <1>1, Invariance, PTL

\* A daemon with nothing to do has a worker, and the worker has read the configuration as it is.
LEMMA SettledIsTended == ASSUME Ind PROVE Tended /\ Fresh
<1> SUFFICES ASSUME Settled, ~raced PROVE HasWorker /\ (~broken => \A w \in Holders : w \in mine /\ loaded[w] = version)
  BY DEF Tended, Fresh
<1>1. TypeOK /\ Orderly /\ Lineage /\ UpToDate
  BY DEF Ind, Engine
<1>2. daemon = "loop" /\ DOMAIN exits = {} /\ ~changed /\ ~(signals > 0) /\ \A w \in mine : stage[w] # "ended"
  BY <1>1 DEF Settled, TypeOK
<1>3. Alone
  BY <1>1, <1>2 DEF Lineage, Bereft, Replaced, Successor
<1>4. HasWorker
  BY <1>2, <1>3 DEF Alone, HasWorker
<1>5. Holders \subseteq mine
  BY <1>1, <1>2 DEF Lineage, Holders, Live
<1> QED BY <1>1, <1>2, <1>4, <1>5 DEF UpToDate

\* At most one worker holds the lock, and its monitor alone watches the daemon; no worker that
\* is not ready has anything to attend to; a daemon with nothing to do has a worker, which has
\* read the configuration as it is, unless two causes met (daemon/mod.rs; worker/mod.rs;
\* daemon_monitor.rs); and the files are sound.  Room, that a spawn finds a number, is the one
\* part that depends on the bound MaxWorkers; the code does not number its processes.
THEOREM EngineIsSound == DeploySpec => [](Room => DeploySound)
<1>1. Ind => (Room => Sound)
  <2> SUFFICES ASSUME Ind, Room PROVE Sound
    OBVIOUS
  <2>1. TypeOK /\ Orderly
    BY DEF Ind, Engine
  <2>2. (\A v, w \in Holders : v = w) /\ watching \subseteq Holders
    BY <2>1 DEF Orderly, Holders
  <2>3. daemon = "gone" => mine = {} /\ exits = << >>
    BY <2>1 DEF Orderly
  <2>4. /\ probe # 0 => probe \in watching
        /\ \A w \in Workers : mail[w] # {} \/ busy[w] => stage[w] = "ready"
    BY <2>1 DEF Orderly
  <2> QED BY <2>1, <2>2, <2>3, <2>4, SettledIsTended DEF Sound
<1> QED BY <1>1, Invariance, FilesAreSound, PTL DEF DeploySound

\* Once nothing is on its way, the worker expands exactly the snippets that are in the store
\* and switched on, each in its application, with the delivery of the settings: from the row
\* that is committed, over files that are removed and written one by one, the debouncer, the
\* daemon's restarts and the worker's start, in every interleaving.
THEOREM Deploys == DeploySpec => []Deployed
<1>1. Ind => Deployed
  <2> SUFFICES ASSUME Ind, Settled, ~raced, ~broken, Quiet, debt = "none", NEW w \in Holders
               PROVE  w \in mine /\ loaded[w].active = Wanted /\ loaded[w].override = policy
    BY DEF Deployed
  <2>1. w \in mine /\ loaded[w] = version
    BY SettledIsTended DEF Fresh
  <2>2. Active = Wanted /\ override = policy
    BY DEF Ind, FilesInd, Matched, Quiet
  <2>3. version.active = Active /\ version.override = override
    BY DEF Ind, Configured
  <2> QED BY <2>1, <2>2, <2>3
<1> QED BY <1>1, Invariance, PTL

-----------------------------------------------------------------------------
(***************************************************************************)
(* Sequences.                                                              *)
(***************************************************************************)
\* A set of numbers has a smallest one.
LEMMA Smallest ==
  ASSUME NEW T, T \subseteq Nat, T # {} PROVE \E x \in T : \A y \in T : x <= y
<1> DEFINE S == {0..x : x \in T}
<1>1. IsWellFoundedOn(StrictSubsetOrdering(Nat), FiniteSubsetsOf(Nat))
  BY FS_StrictSubsetOrderingWellFounded
<1>2. S # {}
  OBVIOUS
<1>3. S \subseteq FiniteSubsetsOf(Nat)
  <2> SUFFICES ASSUME NEW x \in T PROVE 0..x \in FiniteSubsetsOf(Nat)
    OBVIOUS
  <2>1. IsFiniteSet(0..x) /\ 0..x \in SUBSET Nat
    BY FS_Interval
  <2> QED BY <2>1 DEF FiniteSubsetsOf
<1>4. PICK s \in S : \A r \in S : ~(<<r, s>> \in StrictSubsetOrdering(Nat))
  <2> HIDE DEF S
  <2> QED BY <1>1, <1>2, <1>3, WFMin
<1>5. PICK x \in T : s = 0..x
  OBVIOUS
<1>6. ASSUME NEW y \in T, ~(x <= y) PROVE FALSE
  <2>1. 0..y \in S
    OBVIOUS
  <2>2. 0..y \subseteq 0..x /\ x \in 0..x /\ x \notin 0..y /\ 0..x \subseteq Nat
    BY <1>6
  <2>3. <<0..y, s>> \in StrictSubsetOrdering(Nat)
    <3>1. 0..y # s /\ 0..y \subseteq s /\ 0..y \in SUBSET Nat /\ s \in SUBSET Nat
      BY <2>2, <1>5
    <3> HIDE DEF S
    <3> QED BY <3>1 DEF StrictSubsetOrdering
  <2> QED BY <1>4, <2>1, <2>3
<1> QED BY <1>6

\* IsSuffix, place by place.
LEMMA SuffixByPlace ==
  ASSUME NEW S, NEW s \in Seq(S), NEW t \in Seq(S)
  PROVE  IsSuffix(s, t) <=> /\ Len(s) <= Len(t)
                            /\ \A i \in 1..Len(s) : s[i] = t[Len(t) - Len(s) + i]
<1> DEFINE a == Reverse(s)
           b == Reverse(t)
<1>1. /\ a \in Seq(S) /\ Len(a) = Len(s) /\ \A i \in 1..Len(s) : a[i] = s[Len(s) - i + 1]
      /\ b \in Seq(S) /\ Len(b) = Len(t) /\ \A i \in 1..Len(t) : b[i] = t[Len(t) - i + 1]
  <2>1. \A i \in 1..Len(s) : s[Len(s) - i + 1] \in S
    OBVIOUS
  <2>2. \A i \in 1..Len(t) : t[Len(t) - i + 1] \in S
    OBVIOUS
  <2> QED BY <2>1, <2>2 DEF Reverse
<1> HIDE DEF a, b
<1>2. CASE Len(s) <= Len(t)
  <2> DEFINE x == SubSeq(a, 1, Len(s))
             y == SubSeq(b, 1, Len(s))
  <2>1. /\ x \in Seq(S) /\ Len(x) = Len(s) /\ \A i \in 1..Len(s) : x[i] = a[i]
    BY <1>1
  <2>2. /\ y \in Seq(S) /\ Len(y) = Len(s) /\ \A i \in 1..Len(s) : y[i] = b[i]
    BY <1>1, <1>2
  <2> HIDE DEF x, y
  <2>3. x = y <=> \A i \in 1..Len(s) : a[i] = b[i]
    BY <2>1, <2>2, SeqEqual
  <2>4. (\A i \in 1..Len(s) : a[i] = b[i]) <=> \A i \in 1..Len(s) : s[i] = t[Len(t) - Len(s) + i]
    <3>1. ASSUME \A i \in 1..Len(s) : a[i] = b[i], NEW i \in 1..Len(s)
          PROVE  s[i] = t[Len(t) - Len(s) + i]
      <4>1. Len(s) - i + 1 \in 1..Len(s) /\ Len(s) - i + 1 \in 1..Len(t)
        BY <1>2
      <4>2. a[Len(s) - i + 1] = s[Len(s) - (Len(s) - i + 1) + 1]
        BY <1>1, <4>1
      <4>3. b[Len(s) - i + 1] = t[Len(t) - (Len(s) - i + 1) + 1]
        BY <1>1, <4>1
      <4>4. Len(s) - (Len(s) - i + 1) + 1 = i /\ Len(t) - (Len(s) - i + 1) + 1 = Len(t) - Len(s) + i
        OBVIOUS
      <4> QED BY <3>1, <4>1, <4>2, <4>3, <4>4
    <3>2. ASSUME \A i \in 1..Len(s) : s[i] = t[Len(t) - Len(s) + i], NEW i \in 1..Len(s)
          PROVE  a[i] = b[i]
      <4>1. Len(s) - i + 1 \in 1..Len(s) /\ i \in 1..Len(t)
        BY <1>2
      <4>2. s[Len(s) - i + 1] = t[Len(t) - Len(s) + (Len(s) - i + 1)]
        BY <3>2, <4>1
      <4>3. Len(t) - Len(s) + (Len(s) - i + 1) = Len(t) - i + 1
        OBVIOUS
      <4> QED BY <1>1, <4>1, <4>2, <4>3
    <3> QED BY <3>1, <3>2
  <2>5. IsPrefix(a, b) <=> x = y
    BY <1>1, <1>2 DEF IsPrefix, x, y
  <2> QED BY <1>2, <2>3, <2>4, <2>5 DEF IsSuffix, a, b
<1>3. CASE ~(Len(s) <= Len(t))
  BY <1>1, <1>3 DEF IsSuffix, IsPrefix, a, b
<1> QED BY <1>2, <1>3

\* Text that loses its last n characters.
LEMMA ShorterIs ==
  ASSUME NEW S, NEW s \in Seq(S), NEW n \in Nat
  PROVE  /\ Shorter(s, n) \in Seq(S)
         /\ Len(Shorter(s, n)) = IF n > Len(s) THEN 0 ELSE Len(s) - n
         /\ \A i \in 1..Len(Shorter(s, n)) : Shorter(s, n)[i] = s[i]
<1> DEFINE m == IF n > Len(s) THEN 0 ELSE Len(s) - n
<1>1. m \in 0..Len(s)
  OBVIOUS
<1> HIDE DEF m
<1>2. \A i \in 1..m : s[i] \in S
  BY <1>1
<1>3. 1 \in Int /\ m \in Int
  BY <1>1
<1>4. /\ SubSeq(s, 1, m) \in Seq(S)
      /\ Len(SubSeq(s, 1, m)) = IF 1 <= m THEN m - 1 + 1 ELSE 0
      /\ \A i \in 1..m - 1 + 1 : SubSeq(s, 1, m)[i] = s[1 + i - 1]
  BY <1>2, <1>3, SubSeqProperties
<1>5. Len(SubSeq(s, 1, m)) = m /\ \A i \in 1..m : SubSeq(s, 1, m)[i] = s[i]
  <2>1. m - 1 + 1 = m
    BY <1>1
  <2>2. ASSUME NEW i \in 1..m PROVE 1 + i - 1 = i
    OBVIOUS
  <2> QED BY <1>1, <1>4, <2>1, <2>2
<1>6. Shorter(s, n) = SubSeq(s, 1, m)
  BY DEF Shorter, m
<1> QED BY <1>4, <1>5, <1>6 DEF m

\* What is cut off twice is cut off at once.
LEMMA ShorterTwice ==
  ASSUME NEW S, NEW s \in Seq(S), NEW m \in Nat, NEW n \in Nat, m + n <= Len(s)
  PROVE  Shorter(Shorter(s, m), n) = Shorter(s, m + n)
<1> DEFINE a == Shorter(s, m)
           b == Shorter(a, n)
           c == Shorter(s, m + n)
<1>1. a \in Seq(S) /\ Len(a) = Len(s) - m /\ \A i \in 1..Len(a) : a[i] = s[i]
  BY ShorterIs
<1>2. c \in Seq(S) /\ Len(c) = Len(s) - (m + n) /\ \A i \in 1..Len(c) : c[i] = s[i]
  <2>1. PICK d \in Nat : d = m + n
    OBVIOUS
  <2>2. ~(d > Len(s))
    BY <2>1
  <2> QED BY <2>1, <2>2, ShorterIs
<1> HIDE DEF a, c
<1>3. b \in Seq(S) /\ Len(b) = Len(s) - m - n /\ \A i \in 1..Len(b) : b[i] = a[i]
  <2>1. /\ b \in Seq(S) /\ \A i \in 1..Len(b) : b[i] = a[i]
        /\ Len(b) = IF n > Len(a) THEN 0 ELSE Len(a) - n
    BY <1>1, ShorterIs
  <2> HIDE DEF b
  <2>2. ~(n > Len(a))
    BY <1>1
  <2> QED BY <1>1, <2>1, <2>2
<1> HIDE DEF b
<1>4. \A i \in 1..Len(b) : b[i] = c[i]
  BY <1>1, <1>2, <1>3
<1>5. b = c
  BY <1>2, <1>3, <1>4, SeqEqual
<1> QED BY <1>5 DEF a, b, c

\* What is cut off of a text with another one after it is cut off the other one first.
LEMMA ShorterOfBoth ==
  ASSUME NEW S, NEW s \in Seq(S), NEW t \in Seq(S), NEW n \in Nat, n <= Len(t)
  PROVE  Shorter(s \o t, n) = s \o Shorter(t, n)
<1> DEFINE a == Shorter(t, n)
           b == Shorter(s \o t, n)
           c == s \o a
<1>1. a \in Seq(S) /\ Len(a) = Len(t) - n /\ \A i \in 1..Len(a) : a[i] = t[i]
  BY ShorterIs
<1>2. s \o t \in Seq(S) /\ Len(s \o t) = Len(s) + Len(t)
  OBVIOUS
<1>3. b \in Seq(S) /\ Len(b) = Len(s) + Len(t) - n /\ \A i \in 1..Len(b) : b[i] = (s \o t)[i]
  <2> DEFINE d == s \o t
  <2>1. d \in Seq(S) /\ Len(d) = Len(s) + Len(t)
    BY <1>2
  <2> HIDE DEF d
  <2>2. /\ Shorter(d, n) \in Seq(S) /\ \A i \in 1..Len(Shorter(d, n)) : Shorter(d, n)[i] = d[i]
        /\ Len(Shorter(d, n)) = IF n > Len(d) THEN 0 ELSE Len(d) - n
    BY <2>1, ShorterIs
  <2>3. ~(n > Len(d))
    BY <2>1
  <2>4. Len(Shorter(d, n)) = Len(s) + Len(t) - n
    BY <2>1, <2>2, <2>3
  <2> QED BY <2>2, <2>4 DEF d
<1> HIDE DEF a, b
<1>4. c \in Seq(S) /\ Len(c) = Len(b)
  <2>1. c \in Seq(S) /\ Len(c) = Len(s) + Len(a)
    BY <1>1, ConcatProperties
  <2> QED BY <1>1, <1>3, <2>1
<1> HIDE DEF c
<1>5. ASSUME NEW i \in 1..Len(b) PROVE b[i] = c[i]
  <2>1. i \in 1..Len(s) + Len(t) /\ i \in 1..Len(s) + Len(a)
    BY <1>1, <1>3
  <2>2. (s \o t)[i] = IF i <= Len(s) THEN s[i] ELSE t[i - Len(s)]
    BY <2>1, ConcatProperties
  <2>3. c[i] = IF i <= Len(s) THEN s[i] ELSE a[i - Len(s)]
    BY <1>1, <2>1, ConcatProperties DEF c
  <2>4. CASE i <= Len(s)
    BY <1>3, <2>2, <2>3, <2>4
  <2>5. CASE i > Len(s)
    <3>1. i - Len(s) \in 1..Len(a)
      BY <1>1, <2>1, <2>5
    <3>2. a[i - Len(s)] = t[i - Len(s)]
      BY <1>1, <3>1
    <3>3. ~(i <= Len(s))
      BY <2>5
    <3> QED BY <1>3, <2>2, <2>3, <3>2, <3>3
  <2> QED BY <2>4, <2>5
<1>6. b = c
  BY <1>3, <1>4, <1>5, SeqEqual
<1> QED BY <1>6 DEF a, b, c

(***************************************************************************)
(* FlattenSeq.                                                             *)
(***************************************************************************)
\* The sequences so far, one after the other, for each number of them up to n.
Flat(ss, n, f) == f = [i \in 1..n |-> IF i = 1 THEN ss[i] ELSE f[i - 1] \o ss[i]]

\* There is such a function for each number of them.
LEMMA FlatExists == ASSUME NEW ss, NEW N \in Nat PROVE \E f : Flat(ss, N, f)
<1> DEFINE Bad == {n \in Nat : ~\E f : Flat(ss, n, f)}
<1>1. SUFFICES Bad = {}
  OBVIOUS
<1>2. SUFFICES ASSUME Bad # {} PROVE FALSE
  OBVIOUS
<1>3. PICK n \in Bad : \A m \in Bad : n <= m
  <2>1. Bad \subseteq Nat
    OBVIOUS
  <2> HIDE DEF Bad
  <2> QED BY <1>2, <2>1, Smallest
<1>4. n # 0
  <2> DEFINE f == [i \in 1..0 |-> ss[1]]
  <2>1. Flat(ss, 0, f)
    BY DEF Flat
  <2> HIDE DEF f
  <2> QED BY <1>3, <2>1
<1>5. n \in Nat /\ n - 1 \in Nat /\ n - 1 \notin Bad
  BY <1>3, <1>4
<1>6. PICK f : Flat(ss, n - 1, f)
  BY <1>5
<1> DEFINE g == [i \in 1..n |-> IF i = 1 THEN ss[i] ELSE f[i - 1] \o ss[i]]
<1>7. \A i \in 1..n - 1 : f[i] = IF i = 1 THEN ss[i] ELSE f[i - 1] \o ss[i]
  BY <1>6 DEF Flat
<1>8. \A i \in 1..n - 1 : g[i] = f[i]
  <2> SUFFICES ASSUME NEW i \in 1..n - 1 PROVE g[i] = f[i]
    OBVIOUS
  <2>1. i \in 1..n
    BY <1>5
  <2> QED BY <1>7, <2>1
<1>9. \A i \in 1..n : (i = 1 \/ g[i - 1] = f[i - 1])
  <2> SUFFICES ASSUME NEW i \in 1..n, i # 1 PROVE g[i - 1] = f[i - 1]
    OBVIOUS
  <2>1. i - 1 \in 1..n - 1
    BY <1>5
  <2> HIDE DEF g
  <2> QED BY <1>8, <2>1
<1>10. g = [i \in 1..n |-> IF i = 1 THEN ss[i] ELSE g[i - 1] \o ss[i]]
  <2> DEFINE h == [i \in 1..n |-> IF i = 1 THEN ss[i] ELSE g[i - 1] \o ss[i]]
  <2>1. \A i \in 1..n : h[i] = IF i = 1 THEN ss[i] ELSE f[i - 1] \o ss[i]
    <3> HIDE DEF g
    <3> QED BY <1>9
  <2>2. \A i \in 1..n : g[i] = h[i]
    BY <2>1
  <2>3. g = [i \in 1..n |-> g[i]] /\ h = [i \in 1..n |-> h[i]]
    OBVIOUS
  <2> HIDE DEF g, h
  <2>4. g = h
    BY <2>2, <2>3
  <2> QED BY <2>4 DEF h
<1>11. Flat(ss, n, g)
  BY <1>10 DEF Flat
<1> HIDE DEF g
<1> QED BY <1>3, <1>11

\* What is in the flattened sequence is in one of the sequences.
LEMMA FlattenFrom ==
  ASSUME NEW S, NEW ss \in Seq(Seq(S))
  PROVE  /\ FlattenSeq(ss) \in Seq(S)
         /\ \A x \in Range(FlattenSeq(ss)) : \E k \in DOMAIN ss : x \in Range(ss[k])
<1>1. CASE Len(ss) = 0
  <2>1. ss = << >> /\ FlattenSeq(ss) = ss
    BY <1>1, EmptySeq DEF FlattenSeq
  <2>2. << >> \in Seq(S) /\ Range(<< >>) = {}
    BY DEF Range
  <2>3. FlattenSeq(ss) = << >>
    BY <2>1
  <2> QED BY <2>2, <2>3
<1>2. CASE Len(ss) # 0
  <2> DEFINE N == Len(ss)
             f == CHOOSE f : Flat(ss, N, f)
  <2>1. Flat(ss, N, f)
    <3>1. N \in Nat
      OBVIOUS
    <3>2. \E g : Flat(ss, N, g)
      BY <3>1, FlatExists
    <3> QED BY <3>2
  <2>2. FlattenSeq(ss) = f[N]
    BY <1>2 DEF FlattenSeq, Flat
  <2>3. N \in Nat /\ N # 0 /\ \A i \in 1..N : ss[i] \in Seq(S)
    BY <1>2
  <2> HIDE DEF f, N
  <2>4. \A i \in 1..N : f[i] = IF i = 1 THEN ss[i] ELSE f[i - 1] \o ss[i]
    BY <2>1 DEF Flat
  <2> DEFINE Good(n) == f[n] \in Seq(S) /\ \A x \in Range(f[n]) : \E k \in 1..n : x \in Range(ss[k])
             Bad == {n \in 1..N : ~Good(n)}
  <2>5. Bad = {}
    <3>1. SUFFICES ASSUME Bad # {} PROVE FALSE
      OBVIOUS
    <3>2. PICK n \in Bad : \A m \in Bad : n <= m
      <4>1. Bad \subseteq Nat
        OBVIOUS
      <4> HIDE DEF Bad
      <4> QED BY <3>1, <4>1, Smallest
    <3>3. n \in 1..N /\ ~Good(n)
      BY <3>2
    <3>4. n # 1
      BY <2>3, <2>4, <3>3
    <3>5. n - 1 \in 1..N /\ n - 1 \notin Bad
      <4>1. n \in Nat /\ n - 1 \in 1..N /\ ~(n <= n - 1)
        BY <3>3, <3>4, <2>3
      <4> HIDE DEF Bad
      <4> QED BY <3>2, <4>1
    <3>6. Good(n - 1)
      BY <3>5
    <3>7. f[n] = f[n - 1] \o ss[n] /\ ss[n] \in Seq(S)
      BY <2>3, <2>4, <3>3, <3>4
    <3>8. f[n] \in Seq(S)
      BY <3>6, <3>7
    <3>9. ASSUME NEW x \in Range(f[n]) PROVE \E k \in 1..n : x \in Range(ss[k])
      <4>1. PICK i \in 1..Len(f[n]) : x = f[n][i]
        BY <3>8 DEF Range
      <4>2. i \in 1..Len(f[n - 1]) + Len(ss[n])
        <5>1. f[n - 1] \in Seq(S)
          BY <3>6
        <5>2. Len(f[n]) = Len(f[n - 1]) + Len(ss[n])
          BY <3>7, <5>1, ConcatProperties
        <5> QED BY <4>1, <5>2
      <4>3. x = IF i <= Len(f[n - 1]) THEN f[n - 1][i] ELSE ss[n][i - Len(f[n - 1])]
        BY <3>6, <3>7, <4>1, <4>2, ConcatProperties
      <4>4. CASE i <= Len(f[n - 1])
        <5>1. x \in Range(f[n - 1])
          BY <3>6, <4>2, <4>3, <4>4 DEF Range
        <5>2. PICK k \in 1..n - 1 : x \in Range(ss[k])
          BY <3>6, <5>1
        <5>3. k \in 1..n
          BY <3>3
        <5> QED BY <5>2, <5>3
      <4>5. CASE i > Len(f[n - 1])
        <5>1. i - Len(f[n - 1]) \in 1..Len(ss[n])
          <6>1. Len(f[n - 1]) \in Nat /\ Len(ss[n]) \in Nat
            BY <3>6, <3>7
          <6>2. ASSUME NEW a \in Nat, NEW b \in Nat, NEW j \in 1..a + b, j > a
                PROVE  j - a \in 1..b
            BY <6>2
          <6> QED BY <6>1, <6>2, <4>2, <4>5
        <5>2. x \in Range(ss[n])
          BY <3>7, <4>3, <4>5, <5>1 DEF Range
        <5>3. n \in 1..n
          BY <3>3
        <5> QED BY <5>2, <5>3
      <4> QED BY <4>2, <4>4, <4>5, <3>6
    <3> QED BY <3>3, <3>8, <3>9
  <2>6. Good(N)
    <3>1. N \in 1..N
      BY <2>3
    <3> HIDE DEF Good
    <3> QED BY <2>5, <3>1
  <2>7. DOMAIN ss = 1..N
    BY DEF N
  <2> QED BY <2>2, <2>6, <2>7
<1> QED BY <1>1, <1>2

(***************************************************************************)
(* The matcher.                                                            *)
(***************************************************************************)
Events == Letters \cup {Virtual}
Items == Events \cup {Word}
Refs == [node : Seq(Items), word : BOOLEAN]
Paths == [node : Seq(Items), typed : Seq(Letters), left : Seq(Letters), right : Seq(Letters)]

\* A path that is in the tree, and whose separator before it is one of its characters.
Proper(p) == p \in Paths /\ Has(p.node) /\ Len(p.left) <= Len(p.typed)

\* The path that a search starts with is a proper one.
LEMMA RootIsPath == Root \in Paths /\ Len(Root.left) <= Len(Root.typed)
BY DEF Root, Paths

\* What a node opens is in the tree.
LEMMA OpenedRefs ==
  ASSUME NEW node \in Seq(Items), NEW e \in Events
  PROVE  /\ Opened(node, e) \in Seq(Refs)
         /\ \A k \in DOMAIN Opened(node, e) : Has(Opened(node, e)[k].node)
<1> DEFINE one == [node |-> Append(node, e), word |-> FALSE]
           two == [node |-> Append(node, Word), word |-> TRUE]
           a == IF e # Virtual /\ Has(Append(node, e)) THEN <<one>> ELSE << >>
           b == IF IsSeparator(e) /\ Has(Append(node, Word)) THEN <<two>> ELSE << >>
<1>1. e \in Items /\ Word \in Items
  BY DEF Items
<1>2. one \in Refs /\ two \in Refs
  BY <1>1 DEF Refs
<1>3. one.node = Append(node, e) /\ two.node = Append(node, Word)
  OBVIOUS
<1> HIDE DEF one, two
<1>4. a \in Seq(Refs) /\ \A k \in DOMAIN a : Has(a[k].node)
  <2>1. CASE e # Virtual /\ Has(Append(node, e))
    <3>1. a = <<one>> /\ Has(one.node)
      BY <2>1, <1>3
    <3> QED BY <1>2, <3>1
  <2>2. CASE ~(e # Virtual /\ Has(Append(node, e)))
    <3>1. a = << >>
      BY <2>2
    <3> QED BY <3>1
  <2> QED BY <2>1, <2>2
<1>5. b \in Seq(Refs) /\ \A k \in DOMAIN b : Has(b[k].node)
  <2>1. CASE IsSeparator(e) /\ Has(Append(node, Word))
    <3>1. b = <<two>> /\ Has(two.node)
      BY <2>1, <1>3
    <3> QED BY <1>2, <3>1
  <2>2. CASE ~(IsSeparator(e) /\ Has(Append(node, Word)))
    <3>1. b = << >>
      BY <2>2
    <3> QED BY <3>1
  <2> QED BY <2>1, <2>2
<1> HIDE DEF a, b
<1>6. a \o b \in Seq(Refs)
  BY <1>4, <1>5
<1>7. ASSUME NEW k \in DOMAIN (a \o b) PROVE Has((a \o b)[k].node)
  <2>1. k \in 1..Len(a) + Len(b)
    BY <1>4, <1>5
  <2>2. (a \o b)[k] = IF k <= Len(a) THEN a[k] ELSE b[k - Len(a)]
    BY <1>4, <1>5, <2>1, ConcatProperties
  <2>3. k <= Len(a) => k \in DOMAIN a
    BY <1>4, <2>1
  <2>4. k > Len(a) => k - Len(a) \in DOMAIN b
    BY <1>4, <1>5, <2>1
  <2> QED BY <1>4, <1>5, <2>1, <2>2, <2>3, <2>4
<1>8. Opened(node, e) = a \o b
  BY DEF Opened, a, b, one, two
<1> QED BY <1>6, <1>7, <1>8

\* And so is what it opens at the start of a text.
LEMMA FindRefsRefs ==
  ASSUME NEW node \in Seq(Items), NEW e \in Events, NEW started \in BOOLEAN
  PROVE  /\ FindRefs(node, e, started) \in Seq(Refs)
         /\ \A k \in DOMAIN FindRefs(node, e, started) : Has(FindRefs(node, e, started)[k].node)
<1> DEFINE on == Append(node, Word)
           a == Opened(node, e)
           b == IF started \/ MatchesAt(on) # {} THEN << >> ELSE Opened(on, e)
<1>1. on \in Seq(Items)
  BY DEF Items
<1>2. a \in Seq(Refs) /\ \A k \in DOMAIN a : Has(a[k].node)
  BY OpenedRefs
<1> HIDE DEF on
<1>3. Opened(on, e) \in Seq(Refs) /\ \A k \in DOMAIN Opened(on, e) : Has(Opened(on, e)[k].node)
  BY <1>1, OpenedRefs
<1>4. b \in Seq(Refs) /\ \A k \in DOMAIN b : Has(b[k].node)
  BY <1>3
<1>5. FindRefs(node, e, started) = a \o b
  BY DEF FindRefs, a, b, on
<1> HIDE DEF a, b
<1>6. a \o b \in Seq(Refs)
  BY <1>2, <1>4
<1>7. ASSUME NEW k \in DOMAIN (a \o b) PROVE Has((a \o b)[k].node)
  <2>1. k \in 1..Len(a) + Len(b)
    BY <1>2, <1>4
  <2>2. (a \o b)[k] = IF k <= Len(a) THEN a[k] ELSE b[k - Len(a)]
    BY <1>2, <1>4, <2>1, ConcatProperties
  <2>3. k <= Len(a) => k \in DOMAIN a
    BY <1>2, <2>1
  <2>4. k > Len(a) => k - Len(a) \in DOMAIN b
    BY <1>2, <1>4, <2>1
  <2> QED BY <1>2, <1>4, <2>1, <2>2, <2>3, <2>4
<1> QED BY <1>5, <1>6, <1>7

\* A path that goes on has the character of the event after its own.
Continues(p, q, e) == p.typed = q.typed \o Chars(e)

\* A path that an event extends is proper, and longer by what the event stands for.
LEMMA ExtendedIs ==
  ASSUME NEW q \in Paths, Len(q.left) <= Len(q.typed), NEW e \in Events,
         NEW r \in Refs, Has(r.node)
  PROVE  Proper(Extended(q, r, e)) /\ Continues(Extended(q, r, e), q, e)
<1> DEFINE separator == IF r.word THEN Chars(e) ELSE << >>
           left == IF q = Root THEN separator ELSE q.left
           right == IF q = Root THEN << >> ELSE separator
           typed == q.typed \o Chars(e)
           x == Extended(q, r, e)
<1>1. Chars(e) \in Seq(Letters)
  BY DEF Chars, Events
<1>2. separator \in Seq(Letters) /\ Len(separator) <= Len(Chars(e))
  BY <1>1
<1>3. q.typed \in Seq(Letters) /\ q.left \in Seq(Letters)
  BY DEF Paths
<1>4. typed \in Seq(Letters) /\ Len(typed) = Len(q.typed) + Len(Chars(e))
  BY <1>1, <1>3
<1> HIDE DEF separator, typed
<1>5. left \in Seq(Letters) /\ right \in Seq(Letters) /\ Len(left) <= Len(typed)
  BY <1>1, <1>2, <1>3, <1>4
<1> HIDE DEF left, right
<1>6. x = [node |-> r.node, typed |-> typed, left |-> left, right |-> right]
  BY DEF Extended, separator, typed, left, right
<1> HIDE DEF x
<1>7. r.node \in Seq(Items)
  BY DEF Refs
<1>8. x \in Paths
  BY <1>4, <1>5, <1>6, <1>7 DEF Paths
<1>9. x.node = r.node /\ x.typed = typed /\ x.left = left
  BY <1>6
<1> QED BY <1>5, <1>8, <1>9 DEF Proper, Continues, typed, x

\* An event extends a path to proper paths, each longer by what it stands for.
LEMMA AdvanceFrom ==
  ASSUME NEW q \in Paths, Len(q.left) <= Len(q.typed), NEW e \in Events, NEW started \in BOOLEAN
  PROVE  /\ Advance(q, e, started) \in Seq(Paths)
         /\ \A p \in Range(Advance(q, e, started)) : Proper(p) /\ Continues(p, q, e)
<1> DEFINE f == FindRefs(q.node, e, started)
           a == Advance(q, e, started)
<1>1. f \in Seq(Refs) /\ \A k \in DOMAIN f : Has(f[k].node)
  BY FindRefsRefs DEF Paths
<1>2. a = [k \in DOMAIN f |-> Extended(q, f[k], e)]
  BY DEF Advance
<1> HIDE DEF f, a
<1>3. \A k \in DOMAIN f : Proper(a[k]) /\ Continues(a[k], q, e)
  BY <1>1, <1>2, ExtendedIs
<1>4. a \in [1..Len(f) -> Paths]
  BY <1>1, <1>2, <1>3 DEF Proper
<1>5. a \in Seq(Paths)
  BY <1>1, <1>4
<1>6. DOMAIN a = DOMAIN f
  BY <1>2
<1> QED BY <1>3, <1>5, <1>6 DEF Range, a

\* The states of the matcher.
StateOf(s) == s = Unstarted \/ (s \in Seq(Paths) /\ \A p \in Range(s) : Proper(p))

\* Every path goes on from one that there was, or from the root.
LEMMA NextFrom ==
  ASSUME NEW s, StateOf(s), NEW e \in Events
  PROVE  /\ NextPaths(s, e) \in Seq(Paths)
         /\ \A p \in Range(NextPaths(s, e)) :
              /\ Proper(p)
              /\ \/ Continues(p, Root, e)
                 \/ s # Unstarted /\ \E q \in Range(s) : Continues(p, q, e)
<1> DEFINE ss == [k \in DOMAIN s |-> Advance(s[k], e, TRUE)]
           a == IF s = Unstarted THEN << >> ELSE FlattenSeq(ss)
           b == Advance(Root, e, s # Unstarted)
           From(p) == Proper(p) /\ (\/ Continues(p, Root, e)
                                    \/ s # Unstarted /\ \E q \in Range(s) : Continues(p, q, e))
<1>1. NextPaths(s, e) = a \o b
  BY DEF NextPaths
<1>2. b \in Seq(Paths) /\ \A p \in Range(b) : From(p)
  BY RootIsPath, AdvanceFrom
<1>3. a \in Seq(Paths) /\ \A p \in Range(a) : From(p)
  <2>1. CASE s = Unstarted
    BY <2>1 DEF Range
  <2>2. CASE s # Unstarted
    <3>1. s \in Seq(Paths) /\ \A k \in DOMAIN s : Proper(s[k]) /\ s[k] \in Range(s)
      BY <2>2 DEF StateOf, Range
    <3>2. \A k \in DOMAIN s : /\ Advance(s[k], e, TRUE) \in Seq(Paths)
                              /\ \A p \in Range(Advance(s[k], e, TRUE)) : Proper(p) /\ Continues(p, s[k], e)
      BY <3>1, AdvanceFrom DEF Proper
    <3>3. ss = [k \in DOMAIN s |-> Advance(s[k], e, TRUE)]
      OBVIOUS
    <3>4. ss \in Seq(Seq(Paths)) /\ DOMAIN ss = DOMAIN s
      <4>1. Len(s) \in Nat /\ DOMAIN s = 1..Len(s) /\ DOMAIN ss = 1..Len(s)
        BY <3>1
      <4>2. \A k \in 1..Len(s) : ss[k] \in Seq(Paths)
        BY <3>2, <4>1
      <4> HIDE DEF ss
      <4>3. ss = [k \in 1..Len(s) |-> ss[k]]
        BY <3>3, <4>1
      <4>4. ss \in [1..Len(s) -> Seq(Paths)]
        BY <4>2, <4>3
      <4>5. ss \in Seq(Seq(Paths))
        BY <4>1, <4>4, SeqDef
      <4> QED BY <4>1, <4>5
    <3>5. \A k \in DOMAIN s : ss[k] = Advance(s[k], e, TRUE)
      OBVIOUS
    <3> HIDE DEF ss
    <3>6. /\ FlattenSeq(ss) \in Seq(Paths)
          /\ \A p \in Range(FlattenSeq(ss)) : \E k \in DOMAIN ss : p \in Range(ss[k])
      BY <3>4, FlattenFrom
    <3>7. ASSUME NEW p \in Range(FlattenSeq(ss)) PROVE From(p)
      BY <2>2, <3>1, <3>2, <3>4, <3>5, <3>6
    <3> QED BY <2>2, <3>6, <3>7
  <2> QED BY <2>1, <2>2
<1> HIDE DEF a, b, From
<1>4. a \o b \in Seq(Paths)
  BY <1>2, <1>3
<1>5. ASSUME NEW p \in Range(a \o b) PROVE From(p)
  <2>1. PICK k \in 1..Len(a \o b) : p = (a \o b)[k]
    BY <1>4 DEF Range
  <2>2. k \in 1..Len(a) + Len(b)
    BY <1>2, <1>3
  <2>3. p = IF k <= Len(a) THEN a[k] ELSE b[k - Len(a)]
    BY <1>2, <1>3, <2>1, <2>2, ConcatProperties
  <2>4. k <= Len(a) => a[k] \in Range(a)
    BY <1>3, <2>2 DEF Range
  <2>5. k > Len(a) => b[k - Len(a)] \in Range(b)
    <3>1. SUFFICES ASSUME k > Len(a) PROVE b[k - Len(a)] \in Range(b)
      OBVIOUS
    <3>2. k - Len(a) \in 1..Len(b)
      BY <1>2, <1>3, <2>2, <3>1
    <3> QED BY <1>2, <3>2 DEF Range
  <2> QED BY <1>2, <1>3, <2>2, <2>3, <2>4, <2>5
<1> QED BY <1>1, <1>4, <1>5 DEF From

\* Of the paths that are matches there is a first.
LEMMA FirstIsMatch ==
  ASSUME NEW paths \in Seq(Paths), Complete(paths) # {}
  PROVE  FirstMatch(paths) \in Range(paths) /\ MatchesAt(FirstMatch(paths).node) # {}
<1> DEFINE C == Complete(paths)
<1>1. C \subseteq Nat /\ C \subseteq DOMAIN paths
  BY DEF Complete
<1>2. \A k \in C : MatchesAt(paths[k].node) # {}
  BY DEF Complete
<1>3. C # {} /\ FirstMatch(paths) = paths[CHOOSE k \in C : \A j \in C : k <= j]
  BY DEF FirstMatch
<1> HIDE DEF C
<1>4. \E k \in C : \A j \in C : k <= j
  BY <1>1, <1>3, Smallest
<1>5. (CHOOSE k \in C : \A j \in C : k <= j) \in C
  BY <1>4
<1> QED BY <1>1, <1>2, <1>3, <1>5 DEF Range

\* What the matcher keeps has no match in it.
LEMMA AfterEventIs ==
  ASSUME NEW paths \in Seq(Paths)
  PROVE  /\ AfterEvent(paths) \in Seq(Paths)
         /\ Range(AfterEvent(paths)) \subseteq Range(paths)
         /\ \A p \in Range(AfterEvent(paths)) : MatchesAt(p.node) = {}
<1>1. CASE Complete(paths) = {}
  <2>1. AfterEvent(paths) = paths
    BY <1>1 DEF AfterEvent
  <2>2. \A k \in DOMAIN paths : MatchesAt(paths[k].node) = {}
    BY <1>1 DEF Complete
  <2> QED BY <2>1, <2>2 DEF Range
<1>2. CASE Complete(paths) # {}
  <2>1. AfterEvent(paths) = << >>
    BY <1>2 DEF AfterEvent
  <2>2. << >> \in Seq(Paths) /\ Range(<< >>) = {}
    BY DEF Range
  <2> QED BY <2>1, <2>2
<1> QED BY <1>1, <1>2

(***************************************************************************)
(* The inductive invariant: what the variables are.                        *)
(***************************************************************************)
Phases == {"idle", "choosing", "rendering", "injecting"}
Messages == [key : Keys, id : Nat, at : Nat, choice : Nat]
JobTypes == [ids : SUBSET Ids, trigger : Seq(Letters), left : Seq(Letters), right : Seq(Letters),
         undo : BOOLEAN, start : Nat]
Orders == [back : Nat, insert : Seq(Ink)]

\* What is kept of the matcher: nothing in it is a match.
Heard == {s \in Seq(Paths) : \A p \in Range(s) : Proper(p) /\ MatchesAt(p.node) = {}}
Entries == [paths : Heard, at : Nat]

\* What undo would need is there whole.
Recorded ==
  /\ record.trigger \in Seq(Seq(Letters)) /\ record.injected \in Seq(Seq(Ink))
  /\ record.injected # << >> =>
       /\ Len(record.trigger) = 1 /\ Len(record.injected) = 1
       /\ record.injected[1] # << >>

QueueOK ==
  /\ chan \in Seq(Messages)
  /\ nextId \in Nat /\ min \in Nat /\ max \in Nat /\ barrier \in Nat
  /\ min < nextId /\ max <= nextId /\ barrier <= nextId
  /\ \A k \in DOMAIN chan : chan[k].id < nextId
  /\ \A j, k \in DOMAIN chan : j < k => chan[j].id < chan[k].id

HistoryOK == states \in Seq(Entries) /\ Len(states) <= MaxHistory

JobOK ==
  /\ phase \in Phases /\ job \in JobTypes /\ Len(job.left) <= Len(job.trigger)
  /\ phase \in {"choosing", "rendering"} => job.ids # {}
  /\ out \in Seq(Orders) /\ Len(out) <= 2 /\ (phase = "injecting" <=> out # << >>)

TypingOK ==
  /\ text \in Seq(Ink) /\ before \in Seq(Ink)
  /\ QueueOK /\ HistoryOK /\ Recorded /\ JobOK
  /\ enabled \in BOOLEAN /\ calm \in BOOLEAN /\ blind \in BOOLEAN

\* A key that was pressed in the window of a choice is from the choice that is open, or
\* from an earlier one than the last that ended, or is between the thresholds that this one set.
ChoiceKeys ==
  /\ phase = "choosing" => min < job.start /\ job.start < nextId
  /\ \A k \in DOMAIN chan :
       \/ chan[k].choice = 0 \/ chan[k].choice < min
       \/ phase = "choosing" /\ chan[k].choice = job.start /\ job.start < chan[k].id
       \/ chan[k].choice = min /\ min <= chan[k].id /\ chan[k].id < max

\* What a history is a history of: a state whose successors, each for the key at its place,
\* have been heard since, believes something that is before them in the text.
Agrees(hist, t) ==
  \A k \in DOMAIN hist :
    (\A j \in k + 1..Len(hist) : 0 < hist[j].at /\ hist[j].at + (Len(hist) - j) = Len(t)) =>
      \A p \in Range(hist[k].paths) : IsSuffix(p.typed, Shorter(t, Len(hist) - k))

\* Where the text will be when all is injected.
Lands(orders, t) ==
  IF orders = << >> THEN t
  ELSE IF Len(orders) = 1 THEN Apply(orders[1], t) ELSE Apply(orders[2], Apply(orders[1], t))
Landing == Lands(out, text)

\* Whoever waits for the engine has one key on its way at most, and it will be heard.
Paced ==
  calm => /\ Len(chan) <= 1 /\ (phase # "idle" => chan = << >>)
          /\ \A k \in DOMAIN chan : max <= chan[k].id

\* The key at the end of the text has been pressed and not been received; the text was t.
Pressed(e, t) ==
  /\ e.key \in Letters \cup {Backspace} => e.at = Len(t)
  /\ e.key \in Letters => text = Append(t, e.key)
  /\ e.key = Backspace => text = Shorter(t, 1)

\* The last thing in the history is a trigger, which ends at the end of the text t.
EndsAt(hist, t) == Last(hist).paths = << >> /\ Last(hist).at = Len(t) /\ 0 < Len(t)

Followed ==
  calm /\ ~blind =>
    /\ chan = << >> => Agrees(states, Landing)
    /\ chan # << >> => \E t \in Seq(Ink) :
         Pressed(chan[1], t) /\ (chan[1].key # Move => Agrees(states, t))
    /\ phase \in {"choosing", "rendering"} =>
         /\ states # << >> /\ EndsAt(states, text)
         /\ before = text /\ IsSuffix(job.trigger, text) /\ ~job.undo

\* The history believes nothing since place v, where a separator was made up.
Silent(h) == \A p \in Range(h.paths) : p.typed = << >>
SilentFrom(hist, v) ==
  /\ v > 0 => hist[v].at = 0
  /\ \A k \in DOMAIN hist : k >= v => Silent(hist[k])

\* The record is of the last trigger, which has given way to its body.
Compensated == Shorter(before, Len(job.trigger) - Len(job.left))
Expanded == Compensated \o record.injected[1]
Current ==
  /\ phase \in {"injecting", "idle"} /\ ~(phase = "injecting" /\ job.undo)
  /\ states # << >> /\ SilentFrom(states, Len(states))
  /\ Len(states) > 1 => EndsAt(Front(states), before) /\ Agrees(Front(states), before)
  /\ IsSuffix(job.trigger, before) /\ record.trigger[1] = job.trigger
  /\ chan = << >> => Landing = Expanded
  /\ chan # << >> /\ chan[1].key = Backspace => text = Shorter(Expanded, 1)

\* It is of an earlier one, and the last has been detected with it.
Outdated ==
  /\ phase # "injecting" /\ (phase = "idle" => Cardinality(job.ids) # 1)
  /\ \E v \in 0..Len(states) - 1 : SilentFrom(states, v)

Undoable ==
  calm /\ ~blind /\ record.injected # << >> => Current \/ Outdated

Chosen == phase = "choosing" => Cardinality(job.ids) # 1

TypingInv ==
  /\ TypingOK /\ ChoiceKeys /\ Paced /\ Followed /\ Undoable /\ Chosen /\ UndoRestores

(***************************************************************************)
(* The history and the text.                                               *)
(***************************************************************************)
\* A sequence that loses its last member, and one that gets one more.
LEMMA FrontIs ==
  ASSUME NEW S, NEW s \in Seq(S), s # << >>
  PROVE  /\ Front(s) \in Seq(S) /\ Len(Front(s)) = Len(s) - 1
         /\ \A k \in 1..Len(Front(s)) : Front(s)[k] = s[k]
         /\ Last(s) \in S /\ Len(s) > 0
<1>1. Len(s) \in Nat /\ Len(s) > 0
  BY EmptySeq
<1>2. Front(s) = Shorter(s, 1)
  BY <1>1 DEF Front, Shorter
<1>3. Last(s) \in S
  BY <1>1 DEF Last
<1> QED BY <1>1, <1>2, <1>3, ShorterIs

\* A sequence with an element appended.
LEMMA AppendIs ==
  ASSUME NEW S, NEW s \in Seq(S), NEW x \in S
  PROVE  /\ Append(s, x) \in Seq(S) /\ Len(Append(s, x)) = Len(s) + 1
         /\ \A k \in 1..Len(s) : Append(s, x)[k] = s[k]
         /\ Append(s, x)[Len(s) + 1] = x /\ Last(Append(s, x)) = x
         /\ Front(Append(s, x)) = s /\ Append(s, x) # << >>
<1> DEFINE a == Append(s, x)
<1>1. /\ a \in Seq(S) /\ Len(a) = Len(s) + 1 /\ \A k \in 1..Len(s) : a[k] = s[k]
      /\ a[Len(s) + 1] = x
  OBVIOUS
<1>2. a # << >>
  BY <1>1
<1>3. Last(a) = x
  BY <1>1 DEF Last
<1> HIDE DEF a
<1>4. /\ Front(a) \in Seq(S) /\ Len(Front(a)) = Len(s)
      /\ \A k \in 1..Len(s) : Front(a)[k] = s[k]
  BY <1>1, <1>2, FrontIs
<1>5. Front(a) = s
  BY <1>4, SeqEqual
<1> QED BY <1>1, <1>2, <1>3, <1>5 DEF a

\* A longer text ends with one more character, before which it is the text it was.
LEMMA ShorterOfAppend ==
  ASSUME NEW S, NEW t \in Seq(S), NEW x \in S, NEW n \in Nat, n > 0, n <= Len(t) + 1
  PROVE  Shorter(Append(t, x), n) = Shorter(t, n - 1)
<1> DEFINE a == Append(t, x)
           b == Shorter(a, n)
           c == Shorter(t, n - 1)
<1>1. a \in Seq(S) /\ Len(a) = Len(t) + 1 /\ \A k \in 1..Len(t) : a[k] = t[k]
  BY AppendIs
<1>2. n - 1 \in Nat
  OBVIOUS
<1>3. c \in Seq(S) /\ Len(c) = Len(t) - (n - 1) /\ \A i \in 1..Len(c) : c[i] = t[i]
  BY <1>2, ShorterIs
<1> HIDE DEF a, c
<1>4. b \in Seq(S) /\ Len(b) = Len(t) + 1 - n /\ \A i \in 1..Len(b) : b[i] = a[i]
  BY <1>1, ShorterIs
<1> HIDE DEF b
<1>5. \A i \in 1..Len(b) : b[i] = c[i]
  BY <1>1, <1>3, <1>4
<1>6. b = c
  BY <1>3, <1>4, <1>5, SeqEqual
<1> QED BY <1>6 DEF a, b, c

\* Nothing cut off is nothing.
LEMMA ShorterByNone == ASSUME NEW S, NEW t \in Seq(S) PROVE Shorter(t, 0) = t
<1> DEFINE a == Shorter(t, 0)
<1>1. a \in Seq(S) /\ Len(a) = Len(t) /\ \A i \in 1..Len(a) : a[i] = t[i]
  BY ShorterIs
<1> HIDE DEF a
<1>2. a = t
  BY <1>1, SeqEqual
<1> QED BY <1>2 DEF a

\* What ends a text still does when both go on with the same.
LEMMA SuffixGoesOn ==
  ASSUME NEW S, NEW s \in Seq(S), NEW t \in Seq(S), NEW x \in S, IsSuffix(s, t)
  PROVE  IsSuffix(s \o <<x>>, Append(t, x))
<1> DEFINE a == s \o <<x>>
           b == Append(t, x)
<1>1. Len(s) <= Len(t) /\ \A i \in 1..Len(s) : s[i] = t[Len(t) - Len(s) + i]
  BY SuffixByPlace
<1>2. b \in Seq(S) /\ Len(b) = Len(t) + 1 /\ (\A k \in 1..Len(t) : b[k] = t[k]) /\ b[Len(t) + 1] = x
  BY AppendIs
<1>3. <<x>> \in Seq(S) /\ Len(<<x>>) = 1 /\ <<x>>[1] = x
  OBVIOUS
<1>4. a \in Seq(S) /\ Len(a) = Len(s) + 1
      /\ \A i \in 1..Len(s) + 1 : a[i] = IF i <= Len(s) THEN s[i] ELSE <<x>>[i - Len(s)]
  BY <1>3, ConcatProperties
<1> HIDE DEF a, b
<1>5. ASSUME NEW i \in 1..Len(a) PROVE a[i] = b[Len(b) - Len(a) + i]
  <2>1. Len(b) - Len(a) + i = Len(t) - Len(s) + i
    BY <1>2, <1>4
  <2>2. CASE i <= Len(s)
    <3>1. i \in 1..Len(s) /\ Len(t) - Len(s) + i \in 1..Len(t)
      BY <1>1, <2>2
    <3>2. a[i] = s[i]
      BY <1>4, <2>2
    <3>3. s[i] = t[Len(t) - Len(s) + i]
      BY <1>1, <3>1
    <3>4. b[Len(t) - Len(s) + i] = t[Len(t) - Len(s) + i]
      BY <1>2, <3>1
    <3> QED BY <2>1, <3>2, <3>3, <3>4
  <2>3. CASE i > Len(s)
    <3>1. i = Len(s) + 1
      BY <1>4, <2>3
    <3>2. a[i] = x
      BY <1>3, <1>4, <3>1
    <3>3. Len(t) - Len(s) + i = Len(t) + 1
      BY <3>1
    <3> QED BY <1>2, <2>1, <3>2, <3>3
  <2> QED BY <1>4, <2>2, <2>3
<1>6. Len(a) <= Len(b)
  BY <1>1, <1>2, <1>4
<1>7. IsSuffix(a, b)
  BY <1>2, <1>4, <1>5, <1>6, SuffixByPlace
<1> QED BY <1>7 DEF a, b

\* Nothing ends every text.
LEMMA NothingEnds == ASSUME NEW S, NEW t \in Seq(S) PROVE IsSuffix(<< >>, t)
<1> DEFINE s == << >>
<1>1. s \in Seq(S) /\ Len(s) = 0
  OBVIOUS
<1> HIDE DEF s
<1>2. Len(s) <= Len(t) /\ \A i \in 1..Len(s) : s[i] = t[Len(t) - Len(s) + i]
  BY <1>1
<1>3. IsSuffix(s, t)
  BY <1>1, <1>2, SuffixByPlace
<1> QED BY <1>3 DEF s

\* A text that ends with another one is what is left without it, and then this one.
LEMMA SuffixSplits ==
  ASSUME NEW S, NEW s \in Seq(S), NEW t \in Seq(S), IsSuffix(s, t)
  PROVE  Shorter(t, Len(s)) \o s = t /\ Len(s) <= Len(t)
<1> DEFINE a == Shorter(t, Len(s))
           b == a \o s
<1>1. Len(s) <= Len(t) /\ \A i \in 1..Len(s) : s[i] = t[Len(t) - Len(s) + i]
  BY SuffixByPlace
<1>2. a \in Seq(S) /\ Len(a) = Len(t) - Len(s) /\ \A i \in 1..Len(a) : a[i] = t[i]
  BY <1>1, ShorterIs
<1> HIDE DEF a
<1>3. b \in Seq(S) /\ Len(b) = Len(t)
      /\ \A i \in 1..Len(a) + Len(s) : b[i] = IF i <= Len(a) THEN a[i] ELSE s[i - Len(a)]
  BY <1>2, ConcatProperties
<1> HIDE DEF b
<1>4. ASSUME NEW i \in 1..Len(b) PROVE b[i] = t[i]
  <2>1. i \in 1..Len(a) + Len(s)
    BY <1>2, <1>3
  <2>2. CASE i <= Len(a)
    BY <1>2, <1>3, <2>1, <2>2
  <2>3. CASE i > Len(a)
    <3>1. i - Len(a) \in 1..Len(s)
      BY <1>2, <2>1, <2>3
    <3>2. b[i] = s[i - Len(a)]
      BY <1>3, <2>1, <2>3
    <3>3. s[i - Len(a)] = t[Len(t) - Len(s) + (i - Len(a))]
      BY <1>1, <3>1
    <3>4. Len(t) - Len(s) + (i - Len(a)) = i
      BY <1>2
    <3> QED BY <3>2, <3>3, <3>4
  <2> QED BY <1>2, <2>1, <2>2, <2>3
<1>5. b = t
  BY <1>3, <1>4, SeqEqual
<1> QED BY <1>1, <1>5 DEF a, b

\* Every state has its place.
LEMMA AtIsPlace ==
  ASSUME NEW hist \in Seq(Entries) PROVE \A j \in 1..Len(hist) : hist[j].at \in Nat
<1>1. \A j \in 1..Len(hist) : hist[j] \in Entries
  OBVIOUS
<1>2. ASSUME NEW h \in Entries PROVE h.at \in Nat
  BY DEF Entries
<1> QED BY <1>1, <1>2

\* The key for the last state is deleted: the states before it agree with what is left.
LEMMA AgreesPop ==
  ASSUME NEW hist \in Seq(Entries), hist # << >>, NEW t \in Seq(Ink),
         0 < Len(t), Last(hist).at = Len(t), Agrees(hist, t)
  PROVE  Agrees(Front(hist), Shorter(t, 1))
<1> DEFINE h == Front(hist)
           u == Shorter(t, 1)
           n == Len(hist)
<1>1. /\ h \in Seq(Entries) /\ Len(h) = n - 1 /\ n \in Nat /\ n > 0
      /\ \A k \in 1..Len(h) : h[k] = hist[k]
  BY FrontIs
<1>2. u \in Seq(Ink) /\ Len(u) = Len(t) - 1
  BY ShorterIs
<1>3. hist[n].at = Len(t)
  BY DEF Last
<1>4. \A j \in 1..n : hist[j].at \in Nat
  BY AtIsPlace
<1> HIDE DEF h, n
<1>5. ASSUME NEW k \in DOMAIN h,
             \A j \in k + 1..Len(h) : 0 < h[j].at /\ h[j].at + (Len(h) - j) = Len(u),
             NEW p \in Range(h[k].paths)
      PROVE  IsSuffix(p.typed, Shorter(u, Len(h) - k))
  <2>1. k \in 1..n - 1 /\ k \in DOMAIN hist /\ h[k] = hist[k]
    BY <1>1 DEF n
  <2>2. \A j \in k + 1..n - 1 : 0 < hist[j].at /\ hist[j].at + (n - 1 - j) = Len(t) - 1
    <3> SUFFICES ASSUME NEW j \in k + 1..n - 1
                 PROVE  0 < hist[j].at /\ hist[j].at + (n - 1 - j) = Len(t) - 1
      OBVIOUS
    <3>1. j \in k + 1..Len(h) /\ j \in 1..Len(h)
      BY <1>1, <2>1
    <3>2. h[j] = hist[j]
      BY <1>1, <3>1
    <3> HIDE DEF u
    <3> QED BY <1>1, <1>2, <1>5, <3>1, <3>2
  <2>3. \A j \in k + 1..n : 0 < hist[j].at /\ hist[j].at + (n - j) = Len(t)
    <3> SUFFICES ASSUME NEW j \in k + 1..n PROVE 0 < hist[j].at /\ hist[j].at + (n - j) = Len(t)
      OBVIOUS
    <3>1. CASE j = n
      BY <1>3, <3>1
    <3>2. CASE j # n
      <4>1. j \in k + 1..n - 1 /\ j \in 1..n
        BY <2>1, <3>2, <1>1
      <4>2. hist[j].at + (n - 1 - j) = Len(t) - 1 /\ 0 < hist[j].at /\ hist[j].at \in Nat
        BY <1>4, <2>2, <4>1
      <4> QED BY <4>1, <4>2, <1>1
    <3> QED BY <3>1, <3>2
  <2>4. IsSuffix(p.typed, Shorter(t, n - k))
    BY <1>5, <2>1, <2>3 DEF Agrees, n
  <2>5. n - k <= Len(t)
    <3>1. k + 1 \in k + 1..n
      BY <2>1, <1>1
    <3>2. 0 < hist[k + 1].at /\ hist[k + 1].at + (n - (k + 1)) = Len(t) /\ hist[k + 1].at \in Nat
      BY <1>4, <2>1, <2>3, <3>1
    <3> QED BY <3>2, <2>1, <1>1
  <2>6. Shorter(u, n - 1 - k) = Shorter(t, 1 + (n - 1 - k))
    <3>1. 1 \in Nat /\ n - 1 - k \in Nat /\ 1 + (n - 1 - k) <= Len(t)
      BY <2>1, <2>5, <1>1
    <3> QED BY <3>1, ShorterTwice
  <2>7. 1 + (n - 1 - k) = n - k /\ Len(h) - k = n - 1 - k
    BY <1>1, <2>1
  <2> QED BY <2>4, <2>6, <2>7
<1> HIDE DEF u
<1>6. Agrees(h, u)
  BY <1>5 DEF Agrees
<1> QED BY <1>6 DEF h, u

\* A key is heard: the states before it agree with the text as they did, and it agrees if
\* what it believes is at the end.
LEMMA AgreesPush ==
  ASSUME NEW hist \in Seq(Entries), NEW t \in Seq(Ink), NEW x \in Ink, NEW h \in Entries,
         h.at = Len(t) + 1, Agrees(hist, t),
         \A p \in Range(h.paths) : IsSuffix(p.typed, Append(t, x))
  PROVE  Agrees(Append(hist, h), Append(t, x))
<1> DEFINE g == Append(hist, h)
           u == Append(t, x)
           n == Len(hist)
<1>1. /\ g \in Seq(Entries) /\ Len(g) = n + 1 /\ n \in Nat
      /\ \A k \in 1..n : g[k] = hist[k]
      /\ g[n + 1] = h
  BY AppendIs
<1>2. u \in Seq(Ink) /\ Len(u) = Len(t) + 1
  BY AppendIs
<1>3. \A j \in 1..n : hist[j].at \in Nat
  BY AtIsPlace
<1> HIDE DEF g, n
<1>4. ASSUME NEW k \in DOMAIN g,
             \A j \in k + 1..Len(g) : 0 < g[j].at /\ g[j].at + (Len(g) - j) = Len(u),
             NEW p \in Range(g[k].paths)
      PROVE  IsSuffix(p.typed, Shorter(u, Len(g) - k))
  <2>0. k \in 1..n + 1
    BY <1>1
  <2>1. CASE k = n + 1
    <3>1. Len(g) - k = 0
      BY <1>1, <2>1
    <3>2. Shorter(u, 0) = u
      BY <1>2, ShorterByNone
    <3> QED BY <1>1, <1>4, <2>1, <3>1, <3>2
  <2>2. CASE k \in 1..n
    <3>1. g[k] = hist[k] /\ k \in DOMAIN hist
      BY <1>1, <2>2 DEF n
    <3>2. \A j \in k + 1..n : 0 < hist[j].at /\ hist[j].at + (n - j) = Len(t)
      <4> SUFFICES ASSUME NEW j \in k + 1..n PROVE 0 < hist[j].at /\ hist[j].at + (n - j) = Len(t)
        OBVIOUS
      <4>1. j \in k + 1..Len(g) /\ j \in 1..n /\ g[j] = hist[j] /\ hist[j].at \in Nat
        BY <1>1, <1>3, <2>2
      <4>2. 0 < hist[j].at /\ hist[j].at + (n + 1 - j) = Len(t) + 1
        <5> HIDE DEF u
        <5> QED BY <1>1, <1>2, <1>4, <4>1
      <4> QED BY <4>1, <4>2, <1>1
    <3>3. IsSuffix(p.typed, Shorter(t, n - k))
      BY <1>4, <3>1, <3>2 DEF Agrees, n
    <3>4. n + 1 - k \in Nat /\ n + 1 - k > 0 /\ n + 1 - k - 1 = n - k /\ Len(g) - k = n + 1 - k
      BY <1>1, <2>2
    <3>5. n + 1 - k <= Len(t) + 1
      <4>1. CASE k = n
        BY <4>1, <1>1
      <4>2. CASE k # n
        <5>1. k + 1 \in k + 1..n /\ k + 1 \in 1..n
          BY <2>2, <4>2, <1>1
        <5>2. 0 < hist[k + 1].at /\ hist[k + 1].at + (n - (k + 1)) = Len(t) /\ hist[k + 1].at \in Nat
          BY <1>3, <3>2, <5>1
        <5> QED BY <5>2, <2>2, <1>1
      <4> QED BY <4>1, <4>2
    <3>6. Shorter(u, n + 1 - k) = Shorter(t, n + 1 - k - 1)
      <4>1. \A m \in Nat : m > 0 /\ m <= Len(t) + 1 => Shorter(u, m) = Shorter(t, m - 1)
        BY ShorterOfAppend
      <4> HIDE DEF u
      <4>2. PICK m \in Nat : m = n + 1 - k
        BY <3>4
      <4>3. m > 0 /\ m <= Len(t) + 1
        BY <3>4, <3>5, <4>2
      <4>4. Shorter(u, m) = Shorter(t, m - 1)
        BY <4>1, <4>3
      <4> QED BY <1>1, <2>2, <4>2, <4>4
    <3> QED BY <3>3, <3>4, <3>6
  <2> QED BY <1>1, <2>0, <2>1, <2>2
<1> HIDE DEF u
<1>5. Agrees(g, u)
  BY <1>4 DEF Agrees
<1> QED BY <1>5 DEF g, u

\* The oldest state is forgotten.
LEMMA TailIs ==
  ASSUME NEW S, NEW s \in Seq(S), s # << >>
  PROVE  /\ Tail(s) \in Seq(S) /\ Len(Tail(s)) = Len(s) - 1 /\ Len(s) \in Nat /\ Len(s) > 0
         /\ \A k \in 1..Len(Tail(s)) : Tail(s)[k] = s[k + 1]
BY HeadTailProperties, EmptySeq

\* A history that agrees with a text does so when its oldest entry is dropped.
LEMMA AgreesTail ==
  ASSUME NEW hist \in Seq(Entries), hist # << >>, NEW t \in Seq(Ink), Agrees(hist, t)
  PROVE  Agrees(Tail(hist), t)
<1> DEFINE h == Tail(hist)
           n == Len(hist)
<1>1. /\ h \in Seq(Entries) /\ Len(h) = n - 1 /\ n \in Nat /\ n > 0
      /\ \A k \in 1..Len(h) : h[k] = hist[k + 1]
  BY TailIs
<1> HIDE DEF h, n
<1>2. ASSUME NEW k \in DOMAIN h,
             \A j \in k + 1..Len(h) : 0 < h[j].at /\ h[j].at + (Len(h) - j) = Len(t),
             NEW p \in Range(h[k].paths)
      PROVE  IsSuffix(p.typed, Shorter(t, Len(h) - k))
  <2>1. k \in 1..n - 1 /\ k + 1 \in DOMAIN hist /\ h[k] = hist[k + 1]
    BY <1>1 DEF n
  <2>2. \A j \in k + 1 + 1..n : 0 < hist[j].at /\ hist[j].at + (n - j) = Len(t)
    <3> SUFFICES ASSUME NEW j \in k + 1 + 1..n PROVE 0 < hist[j].at /\ hist[j].at + (n - j) = Len(t)
      OBVIOUS
    <3>1. j - 1 \in k + 1..Len(h) /\ j - 1 \in 1..Len(h) /\ (j - 1) + 1 = j /\ n - 1 - (j - 1) = n - j
      BY <1>1, <2>1
    <3>2. h[j - 1] = hist[j]
      BY <1>1, <3>1
    <3> QED BY <1>1, <1>2, <3>1, <3>2
  <2>3. IsSuffix(p.typed, Shorter(t, n - (k + 1)))
    BY <1>2, <2>1, <2>2 DEF Agrees, n
  <2>4. n - (k + 1) = Len(h) - k
    BY <1>1, <2>1
  <2> QED BY <2>3, <2>4
<1> QED BY <1>2 DEF Agrees, h

\* What believes nothing since a separator that was made up agrees with any text.
LEMMA AgreesSilent ==
  ASSUME NEW hist \in Seq(Entries), NEW v \in 0..Len(hist), SilentFrom(hist, v), NEW t \in Seq(Ink)
  PROVE  Agrees(hist, t)
<1> SUFFICES ASSUME NEW k \in DOMAIN hist,
                    \A j \in k + 1..Len(hist) : 0 < hist[j].at /\ hist[j].at + (Len(hist) - j) = Len(t),
                    NEW p \in Range(hist[k].paths)
             PROVE  IsSuffix(p.typed, Shorter(t, Len(hist) - k))
  BY DEF Agrees
<1>1. k >= v
  <2>1. CASE v = 0
    BY <2>1
  <2>2. CASE v # 0 /\ k < v
    <3>1. v \in k + 1..Len(hist) /\ hist[v].at = 0
      BY <2>2 DEF SilentFrom
    <3> QED BY <3>1
  <2> QED BY <2>1, <2>2
<1>2. p.typed = << >>
  BY <1>1 DEF SilentFrom, Silent
<1>3. Len(hist) - k \in Nat
  OBVIOUS
<1>4. Shorter(t, Len(hist) - k) \in Seq(Ink)
  BY <1>3, ShorterIs
<1> QED BY <1>2, <1>4, NothingEnds

\* A trigger gives way to another text: the history before it agrees with this one, if it
\* is of another length or differs in the last character only.
LEMMA AgreesCut ==
  ASSUME NEW hist \in Seq(Entries), hist # << >>, NEW t \in Seq(Ink), EndsAt(hist, t),
         Agrees(hist, t), NEW r \in Seq(Ink),
         Len(r) = Len(t) => Shorter(r, 1) = Shorter(t, 1)
  PROVE  Agrees(hist, r)
<1> DEFINE n == Len(hist)
<1>0. n \in Nat /\ n > 0
  BY FrontIs
<1> SUFFICES ASSUME NEW k \in DOMAIN hist,
                    \A j \in k + 1..n : 0 < hist[j].at /\ hist[j].at + (n - j) = Len(r),
                    NEW p \in Range(hist[k].paths)
             PROVE  IsSuffix(p.typed, Shorter(r, n - k))
  BY DEF Agrees
<1>1. hist[n].paths = << >> /\ hist[n].at = Len(t) /\ 0 < Len(t)
  BY DEF EndsAt, Last
<1>2. k \in 1..n - 1
  <2>1. k # n
    BY <1>1 DEF Range
  <2> QED BY <2>1, <1>0
<1>3. Len(r) = Len(t)
  <2>1. n \in k + 1..n
    BY <1>2
  <2>2. hist[n].at + (n - n) = Len(r)
    BY <2>1
  <2> QED BY <1>1, <2>2
<1>4. IsSuffix(p.typed, Shorter(t, n - k))
  BY <1>3 DEF Agrees
<1>5. n - k \in Nat /\ n - k > 0 /\ n - k - 1 \in Nat /\ 1 + (n - k - 1) = n - k
  BY <1>2, <1>0
<1>6. n - k <= Len(t)
  <2>1. k + 1 \in k + 1..n /\ k + 1 \in 1..n
    BY <1>2, <1>0
  <2>2. 0 < hist[k + 1].at /\ hist[k + 1].at + (n - (k + 1)) = Len(r)
    BY <2>1
  <2>3. hist[k + 1].at \in Nat
    BY <2>1, AtIsPlace
  <2> HIDE DEF n
  <2> QED BY <1>0, <1>2, <1>3, <2>2, <2>3
<1>7. Shorter(Shorter(t, 1), n - k - 1) = Shorter(t, n - k)
  BY <1>5, <1>6, ShorterTwice
<1>8. Shorter(Shorter(r, 1), n - k - 1) = Shorter(r, n - k)
  BY <1>3, <1>5, <1>6, ShorterTwice
<1> QED BY <1>3, <1>4, <1>7, <1>8

(***************************************************************************)
(* What the steps do.                                                      *)
(***************************************************************************)
\* Letters are ink, and no other key.
LEMMA InkIs ==
  /\ Letters \subseteq Ink /\ "error" \in Ink /\ Letters \subseteq Events /\ Virtual \in Events
  /\ \A e \in Letters : e # Backspace /\ e # Move /\ e # Virtual
  /\ Backspace # Move /\ \A s \in Seq(Letters) : s \in Seq(Ink)
<1>1. Letters \subseteq Ink /\ "error" \in Ink
  BY DEF Ink
<1>2. \A e \in Letters : e # Backspace /\ e # Move /\ e # Virtual
  BY ExpansionConstants
<1>3. \A s \in Seq(Letters) : s \in Seq(Ink)
  BY <1>1
<1> QED BY <1>1, <1>2, <1>3 DEF Events, Backspace, Move

\* Of the history one state is dropped at most, the oldest, when there is one more.
LEMMA ShiftIs ==
  ASSUME NEW S, NEW s \in Seq(S), NEW x \in S, s # << >>
  PROVE  Tail(Append(s, x)) = Append(Tail(s), x)
<1> DEFINE a == Append(s, x)
           b == Tail(a)
           t == Tail(s)
           c == Append(t, x)
<1>1. /\ a \in Seq(S) /\ Len(a) = Len(s) + 1 /\ (\A k \in 1..Len(s) : a[k] = s[k])
      /\ a[Len(s) + 1] = x /\ a # << >>
  BY AppendIs
<1>2. /\ t \in Seq(S) /\ Len(t) = Len(s) - 1 /\ Len(s) \in Nat /\ Len(s) > 0
      /\ \A k \in 1..Len(t) : t[k] = s[k + 1]
  BY TailIs
<1> HIDE DEF a, t
<1>3. b \in Seq(S) /\ Len(b) = Len(a) - 1 /\ \A k \in 1..Len(b) : b[k] = a[k + 1]
  BY <1>1, TailIs
<1>4. /\ c \in Seq(S) /\ Len(c) = Len(t) + 1 /\ (\A k \in 1..Len(t) : c[k] = t[k])
      /\ c[Len(t) + 1] = x
  BY <1>2, AppendIs
<1> HIDE DEF b, c
<1>5. Len(b) = Len(c)
  BY <1>1, <1>2, <1>3, <1>4
<1>6. ASSUME NEW k \in 1..Len(b) PROVE b[k] = c[k]
  <2>1. k \in 1..Len(s)
    BY <1>1, <1>3
  <2>2. CASE k = Len(s)
    <3>1. b[k] = a[Len(s) + 1]
      BY <1>3, <2>2
    <3>2. k = Len(t) + 1
      BY <1>2, <2>2
    <3> QED BY <1>1, <1>4, <3>1, <3>2
  <2>3. CASE k # Len(s)
    <3>1. k \in 1..Len(t) /\ k + 1 \in 1..Len(s)
      BY <1>2, <2>1, <2>3
    <3>2. b[k] = a[k + 1] /\ a[k + 1] = s[k + 1] /\ t[k] = s[k + 1] /\ c[k] = t[k]
      BY <1>1, <1>2, <1>3, <1>4, <3>1
    <3> QED BY <3>2
  <2> QED BY <2>2, <2>3
<1>7. b = c
  BY <1>3, <1>4, <1>5, <1>6, SeqEqual
<1> QED BY <1>7 DEF a, b, c, t

Remains(kept) == kept = states \/ (states # << >> /\ kept = Tail(states))

\* What a push leaves: the history without its oldest entry if it is full, and the new one
\* at its end (process_event, the MAX_HISTORY cap).
LEMMA PushIs ==
  ASSUME HistoryOK, NEW paths \in Seq(Paths), \A p \in Range(paths) : Proper(p),
         NEW at \in Nat, Push(paths, at)
  PROVE  \E kept \in Seq(Entries) :
           /\ Remains(kept)
           /\ [paths |-> AfterEvent(paths), at |-> at] \in Entries
           /\ states' = Append(kept, [paths |-> AfterEvent(paths), at |-> at])
           /\ HistoryOK'
<1> DEFINE e == [paths |-> AfterEvent(paths), at |-> at]
           all == Append(states, e)
<1>1. e \in Entries
  <2>1. AfterEvent(paths) \in Heard
    BY AfterEventIs DEF Heard
  <2> QED BY <2>1 DEF Entries
<1>2. states \in Seq(Entries) /\ Len(states) <= MaxHistory /\ MaxHistory \in Nat /\ MaxHistory > 0
  BY ExpansionConstants DEF HistoryOK
<1> HIDE DEF e
<1>3. all \in Seq(Entries) /\ Len(all) = Len(states) + 1 /\ all # << >>
  BY <1>1, <1>2, AppendIs
<1>4. states' = IF Len(all) > MaxHistory THEN Tail(all) ELSE all
  BY DEF Push, all, e
<1>5. CASE Len(all) > MaxHistory
  <2>1. states # << >>
    BY <1>2, <1>3, <1>5
  <2>2. states' = Append(Tail(states), e) /\ states' = Tail(all)
    BY <1>1, <1>2, <1>4, <1>5, <2>1, ShiftIs
  <2>3. Tail(states) \in Seq(Entries) /\ Tail(all) \in Seq(Entries) /\ Len(Tail(all)) = Len(states)
    BY <1>2, <1>3, <2>1, TailIs
  <2>4. HistoryOK'
    BY <1>2, <2>2, <2>3 DEF HistoryOK
  <2>5. Remains(Tail(states))
    BY <2>1 DEF Remains
  <2> QED BY <1>1, <2>2, <2>3, <2>4, <2>5 DEF e
<1>6. CASE ~(Len(all) > MaxHistory)
  <2>1. states' = Append(states, e)
    BY <1>4, <1>6
  <2>2. HistoryOK'
    BY <1>2, <1>3, <1>6, <2>1 DEF HistoryOK
  <2>3. Remains(states)
    BY DEF Remains
  <2> QED BY <1>1, <1>2, <2>1, <2>2, <2>3 DEF e
<1> QED BY <1>5, <1>6

\* What remains of a history agrees with what it did.
LEMMA RemainsAgrees ==
  ASSUME states \in Seq(Entries), NEW kept, Remains(kept), NEW t \in Seq(Ink), Agrees(states, t)
  PROVE  Agrees(kept, t)
BY AgreesTail DEF Remains

\* The state that the matcher goes on from.
LEMMA StateIs == ASSUME states \in Seq(Entries) PROVE StateOf(State)
<1>1. CASE states = << >>
  BY <1>1 DEF State, StateOf
<1>2. CASE states # << >>
  <2>1. Last(states) \in Entries
    BY <1>2, FrontIs
  <2>2. Last(states).paths \in Heard
    BY <2>1 DEF Entries
  <2> QED BY <1>2, <2>2 DEF State, StateOf, Heard
<1> QED BY <1>1, <1>2

\* Every path after an event goes on with it, from one of the last state or from the root.
Onward(p, e) ==
  \/ p.typed = Chars(e)
  \/ states # << >> /\ \E q \in Range(Last(states).paths) : p.typed = q.typed \o Chars(e)

\* The paths after an event continue those of the last entry, or start anew.
LEMMA OnwardIs ==
  ASSUME states \in Seq(Entries), NEW e \in Events
  PROVE  /\ NextPaths(State, e) \in Seq(Paths)
         /\ \A p \in Range(NextPaths(State, e)) : Proper(p) /\ Onward(p, e)
<1>1. /\ NextPaths(State, e) \in Seq(Paths)
      /\ \A p \in Range(NextPaths(State, e)) :
           /\ Proper(p)
           /\ \/ Continues(p, Root, e)
              \/ State # Unstarted /\ \E q \in Range(State) : Continues(p, q, e)
  BY StateIs, NextFrom
<1>2. << >> \o Chars(e) = Chars(e)
  <2>1. Chars(e) \in Seq(Letters)
    BY DEF Chars, Events
  <2> QED BY <2>1
<1>3. State # Unstarted => states # << >> /\ State = Last(states).paths
  BY DEF State
<1> QED BY <1>1, <1>2, <1>3 DEF Continues, Onward, Root

\* The key that is received.
LEMMA KeyIs ==
  ASSUME QueueOK, chan # << >>
  PROVE  /\ Key = chan[1] /\ Key \in Messages /\ Key.at \in Nat /\ Key.id \in Nat /\ Key.key \in Keys
         /\ 1 \in DOMAIN chan /\ Len(chan) > 0
<1>1. chan \in Seq(Messages) /\ Len(chan) \in Nat /\ Len(chan) > 0
  BY EmptySeq DEF QueueOK
<1>2. Head(chan) = chan[1] /\ 1 \in DOMAIN chan /\ chan[1] \in Messages
  BY <1>1
<1> QED BY <1>1, <1>2 DEF Key, Messages

\* The queue stays one of keys in their order when its first is taken.
LEMMA ReceiveIs ==
  ASSUME QueueOK, chan # << >>, chan' = Tail(chan), nextId <= nextId', nextId' \in Nat,
         min' = min, max' = max, barrier' = barrier
  PROVE  QueueOK'
<1>1. /\ Tail(chan) \in Seq(Messages) /\ Len(Tail(chan)) = Len(chan) - 1 /\ Len(chan) \in Nat
      /\ \A k \in 1..Len(Tail(chan)) : Tail(chan)[k] = chan[k + 1]
  BY TailIs DEF QueueOK
<1>2. \A k \in DOMAIN chan' : k + 1 \in DOMAIN chan /\ chan'[k] = chan[k + 1]
  BY <1>1 DEF QueueOK
<1>3. \A k \in DOMAIN chan : chan[k].id \in Nat
  <2>1. \A k \in DOMAIN chan : chan[k] \in Messages
    BY DEF QueueOK
  <2> QED BY <2>1 DEF Messages
<1>4. \A k \in DOMAIN chan' : chan'[k].id < nextId'
  BY <1>2, <1>3 DEF QueueOK
<1>5. \A j, k \in DOMAIN chan' : j < k => chan'[j].id < chan'[k].id
  <2> SUFFICES ASSUME NEW j \in DOMAIN chan', NEW k \in DOMAIN chan', j < k
               PROVE  chan'[j].id < chan'[k].id
    OBVIOUS
  <2>1. j \in Nat /\ k \in Nat
    BY <1>1
  <2> QED BY <1>2, <2>1 DEF QueueOK
<1> QED BY <1>1, <1>4, <1>5 DEF QueueOK

(***************************************************************************)
(* The types are kept.                                                     *)
(***************************************************************************)
\* The letters that lead to a match are of the ones typed.
LEMMA HitIs ==
  ASSUME states \in Seq(Entries), NEW e \in Events, Complete(NextPaths(State, e)) # {}
  PROVE  LET hit == FirstMatch(NextPaths(State, e))
         IN hit \in Range(NextPaths(State, e)) /\ Proper(hit) /\ Onward(hit, e) /\ MatchesAt(hit.node) # {}
BY OnwardIs, FirstIsMatch

\* An order that is carried out.
LEMMA ApplyIs ==
  ASSUME NEW o \in Orders, NEW t \in Seq(Ink)
  PROVE  /\ Apply(o, t) = Shorter(t, o.back) \o o.insert /\ Apply(o, t) \in Seq(Ink)
         /\ o.back \in Nat /\ o.insert \in Seq(Ink)
<1>1. o.back \in Nat /\ o.insert \in Seq(Ink)
  BY DEF Orders
<1>2. Shorter(t, o.back) \in Seq(Ink)
  BY <1>1, ShorterIs
<1> QED BY <1>1, <1>2 DEF Apply

\* The body of an expansion.
Picked == CHOOSE i \in job.ids : TRUE
\* A body with its separator is ink, and not empty.
LEMMA BodyIs ==
  ASSUME JobOK, phase = "rendering"
  PROVE  LET body == Triggers[Picked].body \o job.right
         IN body \in Seq(Ink) /\ body # << >>
<1>1. Picked \in Ids
  BY DEF Picked, JobOK, JobTypes
<1>2. Triggers[Picked].body \in Seq(Ink) /\ Triggers[Picked].body # << >>
  BY <1>1, ExpansionConstants
<1>3. job.right \in Seq(Ink)
  BY InkIs DEF JobOK, JobTypes
<1> HIDE DEF Picked
<1> QED BY <1>2, <1>3, ConcatEqualIffEmpty

\* The text is ink after every step.
LEMMA TextStep == ASSUME TypingOK, [TypingNext]_typingVars PROVE text' \in Seq(Ink) /\ before' \in Seq(Ink)
<1>1. text \in Seq(Ink) /\ before \in Seq(Ink) /\ out \in Seq(Orders)
  BY DEF TypingOK, JobOK
<1>2. ASSUME NEW k \in Keys, Press(k) PROVE text' \in Seq(Ink) /\ before' \in Seq(Ink)
  <2>1. Shorter(text, 1) \in Seq(Ink)
    BY <1>1, ShorterIs
  <2>2. k # Backspace /\ k # Move => Append(text, k) \in Seq(Ink)
    BY <1>1, InkIs DEF Keys
  <2> QED BY <1>1, <1>2, <2>1, <2>2 DEF Press
<1>3. CASE Inject
  <2>1. Head(out) \in Orders
    BY <1>1, <1>3, HeadTailProperties DEF Inject
  <2>2. Apply(Head(out), text) \in Seq(Ink)
    BY <1>1, <2>1, ApplyIs
  <2> QED BY <1>1, <1>3, <2>2 DEF Inject
<1>4. CASE TakeLetter
  BY <1>1, <1>4 DEF TakeLetter
<1>5. ASSUME text' = text, before' = before PROVE text' \in Seq(Ink) /\ before' \in Seq(Ink)
  BY <1>1, <1>5
<1>6. CASE Toggle
  BY <1>5, <1>6 DEF Toggle
<1>7. CASE Discard \/ Ignore \/ TakeBackspace \/ TakeMove
  BY <1>5, <1>7 DEF Discard, Ignore, TakeBackspace, TakeMove
<1>8. CASE (\E i \in Ids : Choose(i)) \/ CancelChoice
  BY <1>5, <1>8 DEF Choose, CancelChoice
<1>9. CASE Rendered \/ \E aborted \in BOOLEAN : NotRendered(aborted)
  BY <1>5, <1>9 DEF Rendered, NotRendered
<1>10. CASE UNCHANGED typingVars
  BY <1>5, <1>10 DEF typingVars
<1> QED BY <1>2, <1>3, <1>4, <1>6, <1>7, <1>8, <1>9, <1>10 DEF TypingNext

\* Every step keeps the queue in the order of the keys.
LEMMA QueueStep == ASSUME TypingOK, ChoiceKeys, [TypingNext]_typingVars PROVE QueueOK'
<1>1. QueueOK /\ job \in JobTypes /\ phase \in Phases /\ text \in Seq(Ink)
  BY DEF TypingOK, JobOK
<1>2. job.start \in Nat
  BY <1>1 DEF JobTypes
<1>3. ASSUME UNCHANGED <<chan, nextId, min, max, barrier>> PROVE QueueOK'
  BY <1>1, <1>3 DEF QueueOK
<1>4. ASSUME NEW k \in Keys, Press(k) PROVE QueueOK'
  <2> DEFINE m == [key |-> k, id |-> nextId, at |-> Len(text),
                   choice |-> IF phase = "choosing" THEN job.start ELSE 0]
  <2>1. m \in Messages /\ m.id = nextId
    BY <1>1, <1>2 DEF Messages, QueueOK
  <2>2. chan' = Append(chan, m) /\ nextId' = nextId + 1 /\ UNCHANGED <<min, max, barrier>>
    BY <1>4 DEF Press
  <2> HIDE DEF m
  <2>3. /\ chan' \in Seq(Messages) /\ Len(chan') = Len(chan) + 1 /\ Len(chan) \in Nat
        /\ (\A j \in 1..Len(chan) : chan'[j] = chan[j]) /\ chan'[Len(chan) + 1] = m
    BY <1>1, <2>1, <2>2, AppendIs DEF QueueOK
  <2>4. \A j \in DOMAIN chan' : chan'[j].id < nextId'
    <3> SUFFICES ASSUME NEW j \in DOMAIN chan' PROVE chan'[j].id < nextId'
      OBVIOUS
    <3>1. CASE j = Len(chan) + 1
      BY <1>1, <2>1, <2>2, <2>3, <3>1 DEF QueueOK
    <3>2. CASE j # Len(chan) + 1
      <4>1. j \in 1..Len(chan)
        BY <2>3, <3>2
      <4>2. chan[j].id < nextId /\ chan[j] \in Messages
        BY <1>1, <4>1 DEF QueueOK
      <4>3. chan[j].id \in Nat
        BY <4>2 DEF Messages
      <4> QED BY <1>1, <2>2, <2>3, <4>1, <4>2, <4>3 DEF QueueOK
    <3> QED BY <3>1, <3>2
  <2>5. \A i, j \in DOMAIN chan' : i < j => chan'[i].id < chan'[j].id
    <3> SUFFICES ASSUME NEW i \in DOMAIN chan', NEW j \in DOMAIN chan', i < j
                 PROVE  chan'[i].id < chan'[j].id
      OBVIOUS
    <3>1. i \in 1..Len(chan)
      BY <2>3
    <3>2. CASE j = Len(chan) + 1
      <4>1. chan[i].id < nextId
        BY <1>1, <3>1 DEF QueueOK
      <4> QED BY <2>1, <2>3, <3>1, <3>2, <4>1
    <3>3. CASE j # Len(chan) + 1
      <4>1. j \in 1..Len(chan)
        BY <2>3, <3>3
      <4> QED BY <1>1, <2>3, <3>1, <4>1 DEF QueueOK
    <3> QED BY <3>2, <3>3
  <2> QED BY <1>1, <2>2, <2>3, <2>4, <2>5 DEF QueueOK
<1>5. CASE Toggle
  BY <1>3, <1>5 DEF Toggle
<1>6. CASE Discard \/ Ignore \/ TakeBackspace \/ TakeMove
  BY <1>1, <1>6, ReceiveIs DEF Discard, Ignore, TakeBackspace, TakeMove, Taken, Receive, QueueOK
<1>7. CASE TakeLetter
  <2>1. nextId \in Nat /\ nextId' \in Nat /\ nextId <= nextId'
    BY <1>1, <1>7 DEF TakeLetter, QueueOK
  <2>2. chan # << >> /\ chan' = Tail(chan) /\ min' = min /\ max' = max /\ barrier' = barrier
    BY <1>7 DEF TakeLetter, Taken, Receive
  <2> QED BY <1>1, <2>1, <2>2, ReceiveIs
<1>8. ASSUME chan' = chan, nextId' = nextId + 1,
             min' \in Nat, min' < nextId', max' \in Nat, max' <= nextId', barrier' \in Nat, barrier' <= nextId'
      PROVE  QueueOK'
  <2>1. \A k \in DOMAIN chan : chan[k].id \in Nat
    <3>1. \A k \in DOMAIN chan : chan[k] \in Messages
      BY <1>1 DEF QueueOK
    <3> QED BY <3>1 DEF Messages
  <2>2. \A k \in DOMAIN chan' : chan'[k].id < nextId'
    BY <1>1, <1>8, <2>1 DEF QueueOK
  <2> QED BY <1>1, <1>8, <2>2 DEF QueueOK
<1>9. CASE (\E i \in Ids : Choose(i)) \/ CancelChoice
  <2>1. /\ chan' = chan /\ nextId' = nextId + 1 /\ min' = job.start /\ max' = nextId
        /\ barrier' = barrier /\ phase = "choosing"
    BY <1>9 DEF Choose, CancelChoice, CloseChoice
  <2> QED BY <1>1, <1>2, <1>8, <1>9, <2>1 DEF QueueOK, ChoiceKeys
<1>10. CASE Rendered
  BY <1>1, <1>8, <1>10 DEF Rendered, QueueOK
<1>11. CASE Inject \/ \E aborted \in BOOLEAN : NotRendered(aborted)
  BY <1>3, <1>11 DEF Inject, NotRendered
<1>12. CASE UNCHANGED typingVars
  BY <1>3, <1>12 DEF typingVars
<1> QED BY <1>4, <1>5, <1>6, <1>7, <1>9, <1>10, <1>11, <1>12 DEF TypingNext

\* Every step keeps the history within its cap, of proper paths none of which is complete.
LEMMA HistoryStep == ASSUME TypingOK, [TypingNext]_typingVars PROVE HistoryOK'
<1>1. HistoryOK /\ states \in Seq(Entries) /\ Len(states) <= MaxHistory
  BY DEF TypingOK, HistoryOK
<1>2. ASSUME states' = states PROVE HistoryOK'
  BY <1>1, <1>2 DEF HistoryOK
<1>3. CASE TakeBackspace
  <2>1. states' = IF states = << >> THEN states ELSE Front(states)
    BY <1>3 DEF TakeBackspace, Forgotten
  <2>2. CASE states = << >>
    BY <1>2, <2>1, <2>2
  <2>3. CASE states # << >>
    <3>1. states' = Front(states) /\ MaxHistory \in Nat
      BY <2>1, <2>3, ExpansionConstants
    <3>2. Front(states) \in Seq(Entries) /\ Len(Front(states)) = Len(states) - 1
      BY <1>1, <2>3, FrontIs
    <3>3. Len(states) \in Nat
      BY <1>1
    <3> QED BY <1>1, <3>1, <3>2, <3>3 DEF HistoryOK
  <2> QED BY <2>2, <2>3
<1>4. CASE TakeMove
  <2>1. states' = << >>
    BY <1>4 DEF TakeMove
  <2>2. << >> \in Seq(Entries) /\ Len(<< >>) = 0 /\ MaxHistory \in Nat
    BY ExpansionConstants
  <2> QED BY <2>1, <2>2 DEF HistoryOK
<1>5. CASE TakeLetter
  <2>1. Key.key \in Events /\ Push(NextPaths(State, Key.key), Key.at + 1) /\ chan # << >>
    BY <1>5, InkIs DEF TakeLetter, Taken, Receive
  <2>2. Key.at + 1 \in Nat
    BY <2>1, KeyIs DEF TypingOK
  <2>3. NextPaths(State, Key.key) \in Seq(Paths) /\ \A p \in Range(NextPaths(State, Key.key)) : Proper(p)
    BY <1>1, <2>1, OnwardIs
  <2> QED BY <1>1, <2>1, <2>2, <2>3, PushIs
<1>6. CASE Rendered
  <2>1. Push(NextPaths(State, Virtual), 0) /\ Virtual \in Events
    BY <1>6, InkIs DEF Rendered
  <2>2. NextPaths(State, Virtual) \in Seq(Paths) /\ \A p \in Range(NextPaths(State, Virtual)) : Proper(p)
    BY <1>1, <2>1, OnwardIs
  <2> QED BY <1>1, <2>1, <2>2, PushIs
<1>7. CASE (\E k \in Keys : Press(k)) \/ Toggle \/ Discard \/ Ignore
  BY <1>2, <1>7 DEF Press, Toggle, Discard, Ignore
<1>8. CASE (\E i \in Ids : Choose(i)) \/ CancelChoice \/ Inject
  BY <1>2, <1>8 DEF Choose, CancelChoice, Inject
<1>9. CASE (\E aborted \in BOOLEAN : NotRendered(aborted)) \/ UNCHANGED typingVars
  BY <1>2, <1>9 DEF NotRendered, typingVars
<1> QED BY <1>3, <1>4, <1>5, <1>6, <1>7, <1>8, <1>9 DEF TypingNext

\* Every step keeps the type of the undo record.
LEMMA RecordStep == ASSUME TypingOK, [TypingNext]_typingVars PROVE Recorded'
<1>1. Recorded /\ JobOK /\ job.trigger \in Seq(Letters)
  BY DEF TypingOK, JobOK, JobTypes
<1>2. ASSUME record' = record PROVE Recorded'
  BY <1>1, <1>2 DEF Recorded
<1>3. ASSUME record' = NoRecord PROVE Recorded'
  <2>1. record'.trigger = << >> /\ record'.injected = << >>
    BY <1>3 DEF NoRecord
  <2>2. << >> \in Seq(Seq(Letters)) /\ << >> \in Seq(Seq(Ink))
    OBVIOUS
  <2> QED BY <2>1, <2>2 DEF Recorded
<1>4. CASE Rendered
  <2> DEFINE body == Triggers[Picked].body \o job.right
  <2>1. record' = [trigger |-> <<job.trigger>>, injected |-> <<body>>] /\ phase = "rendering"
    BY <1>4 DEF Rendered, Picked
  <2>2. body \in Seq(Ink) /\ body # << >>
    BY <1>1, <2>1, BodyIs
  <2> HIDE DEF body
  <2>3. record'.trigger = <<job.trigger>> /\ record'.injected = <<body>>
    BY <2>1
  <2>4. <<job.trigger>> \in Seq(Seq(Letters)) /\ <<body>> \in Seq(Seq(Ink))
    BY <1>1, <2>2
  <2>5. Len(<<job.trigger>>) = 1 /\ Len(<<body>>) = 1 /\ <<body>>[1] = body
    OBVIOUS
  <2> QED BY <2>2, <2>3, <2>4, <2>5 DEF Recorded
<1>5. ASSUME NEW aborted \in BOOLEAN, NotRendered(aborted) PROVE Recorded'
  <2>1. record'.trigger = <<job.trigger>> /\ record'.injected = << >>
    BY <1>5 DEF NotRendered
  <2>2. <<job.trigger>> \in Seq(Seq(Letters)) /\ << >> \in Seq(Seq(Ink))
    BY <1>1
  <2> QED BY <2>1, <2>2 DEF Recorded
<1>6. CASE TakeBackspace \/ TakeMove
  BY <1>3, <1>6 DEF TakeBackspace, TakeMove
<1>7. CASE TakeLetter
  <2>1. record' = NoRecord \/ record' = record
    BY <1>7 DEF TakeLetter
  <2> QED BY <1>2, <1>3, <2>1
<1>8. CASE (\E k \in Keys : Press(k)) \/ Toggle \/ Discard \/ Ignore
  BY <1>2, <1>8 DEF Press, Toggle, Discard, Ignore
<1>9. CASE (\E i \in Ids : Choose(i)) \/ CancelChoice \/ Inject \/ UNCHANGED typingVars
  BY <1>2, <1>9 DEF Choose, CancelChoice, Inject, typingVars
<1> QED BY <1>4, <1>5, <1>6, <1>7, <1>8, <1>9 DEF TypingNext

\* The orders that there are, one by one or two by two.
LEMMA OrdersAre ==
  ASSUME NEW a \in Orders, NEW b \in Orders
  PROVE  /\ <<a>> \in Seq(Orders) /\ <<a, b>> \in Seq(Orders)
         /\ Len(<<a>>) = 1 /\ Len(<<a, b>>) = 2 /\ <<a>> # << >> /\ <<a, b>> # << >>
         /\ <<a>>[1] = a /\ <<a, b>>[1] = a /\ <<a, b>>[2] = b
         /\ <<a>> \o <<b>> = <<a, b>>
<1>1. /\ <<a>> \in Seq(Orders) /\ <<a, b>> \in Seq(Orders) /\ <<b>> \in Seq(Orders)
      /\ Len(<<a>>) = 1 /\ Len(<<a, b>>) = 2 /\ <<a>> # << >> /\ <<a, b>> # << >>
      /\ <<a>>[1] = a /\ <<a, b>>[1] = a /\ <<a, b>>[2] = b
  OBVIOUS
<1>2. <<a>> \o <<b>> = <<a, b>>
  <2> DEFINE s == <<a>> \o <<b>>
             t == <<a, b>>
  <2>1. /\ s \in Seq(Orders) /\ Len(s) = 2 /\ s[1] = a /\ s[2] = b
        /\ t \in Seq(Orders) /\ Len(t) = 2 /\ t[1] = a /\ t[2] = b
    BY <1>1
  <2> HIDE DEF s, t
  <2>2. \A i \in 1..Len(s) : s[i] = t[i]
    BY <2>1
  <2> QED BY <2>1, <2>2, SeqEqual DEF s, t
<1> QED BY <1>1, <1>2


\* What is left when the first order has been carried out.
LEMMA OrdersLeft ==
  ASSUME NEW s \in Seq(Orders), Len(s) <= 2, s # << >>
  PROVE  /\ Head(s) = s[1] /\ Head(s) \in Orders /\ Tail(s) \in Seq(Orders)
         /\ Len(s) = 1 => Tail(s) = << >>
         /\ Len(s) # 1 => Len(s) = 2 /\ Len(Tail(s)) = 1 /\ Tail(s) # << >> /\ Tail(s)[1] = s[2]
<1> DEFINE t == Tail(s)
           n == Len(s)
<1>1. n \in Nat /\ n > 0 /\ n <= 2
  BY EmptySeq
<1>2. t \in Seq(Orders) /\ Len(t) = n - 1 /\ \A i \in 1..Len(t) : t[i] = s[i + 1]
  BY HeadTailProperties
<1>3. Head(s) = s[1] /\ Head(s) \in Orders
  BY <1>1
<1> HIDE DEF t, n
<1>4. n = 1 => t = << >>
  <2>1. SUFFICES ASSUME n = 1 PROVE t = << >>
    OBVIOUS
  <2>2. Len(t) = 0
    BY <1>2, <2>1
  <2> QED BY <1>2, <2>2, EmptySeq
<1>5. n # 1 => n = 2 /\ Len(t) = 1 /\ t # << >> /\ t[1] = s[2]
  <2>1. SUFFICES ASSUME n # 1 PROVE n = 2 /\ Len(t) = 1 /\ t # << >> /\ t[1] = s[2]
    OBVIOUS
  <2>2. n = 2
    BY <1>1, <2>1
  <2>3. Len(t) = 1 /\ 1 \in 1..Len(t)
    BY <1>2, <2>2
  <2>4. t # << >>
    BY <1>2, <2>3, EmptySeq
  <2>5. t[1] = s[1 + 1]
    BY <1>2, <2>3
  <2> QED BY <2>2, <2>3, <2>4, <2>5
<1> QED BY <1>2, <1>3, <1>4, <1>5 DEF t, n

\* The trigger is deleted, without the separator before it.
LEMMA CompensationIs == ASSUME JobOK PROVE Compensation \in Orders /\ Compensation.insert = << >>
<1>1. Len(job.trigger) \in Nat /\ Len(job.left) \in Nat /\ Len(job.left) <= Len(job.trigger)
  BY DEF JobOK, JobTypes
<1>2. Len(job.trigger) - Len(job.left) \in Nat /\ << >> \in Seq(Ink)
  BY <1>1
<1> QED BY <1>2 DEF Compensation, Orders

\* The two orders of an undo.
LEMMA UndoIs ==
  ASSUME Recorded, record.injected # << >>
  PROVE  /\ [back |-> UndoBackspaces, insert |-> << >>] \in Orders
         /\ [back |-> 0, insert |-> record.trigger[1]] \in Orders
         /\ UndoBackspaces = Len(record.injected[1]) - 1 /\ UndoBackspaces \in Nat
         /\ record.injected[1] \in Seq(Ink) /\ record.trigger[1] \in Seq(Ink)
<1>1. record.injected[1] \in Seq(Ink) /\ record.injected[1] # << >> /\ record.trigger[1] \in Seq(Letters)
  BY DEF Recorded
<1>2. Len(record.injected[1]) \in Nat /\ Len(record.injected[1]) # 0
  BY <1>1, EmptySeq
<1>3. UndoBackspaces \in Nat
  BY <1>2 DEF UndoBackspaces
<1>4. record.trigger[1] \in Seq(Ink) /\ << >> \in Seq(Ink)
  BY <1>1, InkIs
<1> QED BY <1>1, <1>3, <1>4 DEF Orders, UndoBackspaces

\* Every step keeps the type of what is under way and of the orders that are still to go out.
LEMMA JobStep == ASSUME TypingOK, [TypingNext]_typingVars PROVE JobOK'
<1>1. /\ JobOK /\ phase \in Phases /\ job \in JobTypes /\ Len(job.left) <= Len(job.trigger)
      /\ phase \in {"choosing", "rendering"} => job.ids # {}
      /\ out \in Seq(Orders) /\ Len(out) <= 2 /\ (phase = "injecting" <=> out # << >>)
      /\ Recorded /\ states \in Seq(Entries)
  BY DEF TypingOK, JobOK, HistoryOK
<1>2. ASSUME UNCHANGED <<phase, job, out>> PROVE JobOK'
  BY <1>1, <1>2 DEF JobOK
<1>3. << >> \in Seq(Orders) /\ Len(<< >>) = 0
  OBVIOUS
<1>4. ASSUME UNCHANGED job, phase' \in {"idle", "rendering"}, phase # "injecting", out' = out,
             phase' = "rendering" => job.ids # {}
      PROVE  JobOK'
  BY <1>1, <1>4 DEF JobOK, Phases
<1>5. CASE TakeBackspace
  <2>1. CASE record.injected = << >>
    BY <1>2, <1>5, <2>1 DEF TakeBackspace
  <2>2. CASE record.injected # << >>
    <3> DEFINE a == [back |-> UndoBackspaces, insert |-> << >>]
               b == [back |-> 0, insert |-> record.trigger[1]]
    <3>1. a \in Orders /\ b \in Orders
      BY <1>1, <2>2, UndoIs
    <3>2. out' = <<a, b>> /\ phase' = "injecting" /\ job' = [job EXCEPT !.undo = TRUE]
      BY <1>5, <2>2 DEF TakeBackspace
    <3> HIDE DEF a, b
    <3>3. out' \in Seq(Orders) /\ Len(out') = 2 /\ out' # << >>
      BY <3>1, <3>2, OrdersAre
    <3>4. job' \in JobTypes /\ job'.left = job.left /\ job'.trigger = job.trigger
      BY <1>1, <3>2 DEF JobTypes
    <3> QED BY <1>1, <3>2, <3>3, <3>4 DEF JobOK, Phases
  <2> QED BY <2>1, <2>2
<1>6. CASE TakeLetter
  <2> DEFINE paths == NextPaths(State, Key.key)
             hit == FirstMatch(paths)
             ids == MatchesAt(hit.node)
  <2>1. CASE Complete(paths) = {}
    BY <1>2, <1>6, <2>1 DEF TakeLetter
  <2>2. CASE Complete(paths) # {}
    <3>1. Key.key \in Events
      BY <1>6, InkIs DEF TakeLetter
    <3>2. Proper(hit) /\ ids # {}
      BY <1>1, <2>2, <3>1, HitIs
    <3>3. /\ job' = [ids |-> ids, trigger |-> hit.typed, left |-> hit.left, right |-> hit.right,
                     undo |-> FALSE, start |-> IF Cardinality(ids) = 1 THEN 0 ELSE nextId]
          /\ phase' = IF Cardinality(ids) = 1 THEN "rendering" ELSE "choosing"
          /\ out' = << >>
      BY <1>6, <2>2 DEF TakeLetter
    <3>4. hit \in Paths /\ Len(hit.left) <= Len(hit.typed) /\ nextId \in Nat
      BY <3>2 DEF Proper, TypingOK, QueueOK
    <3>5. ids \in SUBSET Ids
      BY DEF MatchesAt, InTree
    <3> HIDE DEF hit, ids
    <3>6. hit.typed \in Seq(Letters) /\ hit.left \in Seq(Letters) /\ hit.right \in Seq(Letters)
      BY <3>4 DEF Paths
    <3>7. job' \in JobTypes /\ job'.left = hit.left /\ job'.trigger = hit.typed /\ job'.ids = ids
      BY <3>3, <3>4, <3>5, <3>6 DEF JobTypes
    <3>8. phase' \in {"rendering", "choosing"}
      BY <3>3
    <3> QED BY <1>3, <3>2, <3>3, <3>4, <3>7, <3>8 DEF JobOK, Phases
  <2> QED BY <2>1, <2>2
<1>7. ASSUME NEW i \in Ids, Choose(i) PROVE JobOK'
  <2>1. phase = "choosing" /\ phase' = "rendering" /\ job' = [job EXCEPT !.ids = {i}] /\ out' = out
    BY <1>7 DEF Choose
  <2>2. job' \in JobTypes /\ job'.left = job.left /\ job'.trigger = job.trigger /\ job'.ids # {}
    BY <1>1, <2>1 DEF JobTypes
  <2> QED BY <1>1, <2>1, <2>2 DEF JobOK, Phases
<1>8. CASE CancelChoice
  BY <1>4, <1>8 DEF CancelChoice
<1>9. CASE Rendered
  <2> DEFINE body == Triggers[Picked].body \o job.right
             b == [back |-> 0, insert |-> body]
  <2>1. out' = <<Compensation, b>> /\ phase = "rendering" /\ phase' = "injecting" /\ job' = job
    BY <1>9 DEF Rendered, Picked
  <2>2. b \in Orders
    BY <1>1, <2>1, BodyIs DEF Orders
  <2> HIDE DEF b
  <2>3. out' \in Seq(Orders) /\ Len(out') = 2 /\ out' # << >>
    BY <1>1, <2>1, <2>2, CompensationIs, OrdersAre
  <2> QED BY <1>1, <2>1, <2>3 DEF JobOK, Phases
<1>10. ASSUME NEW aborted \in BOOLEAN, NotRendered(aborted) PROVE JobOK'
  <2> DEFINE b == [back |-> 0, insert |-> <<"error">>]
  <2>1. /\ out' = <<Compensation>> \o Said(aborted)
        /\ phase = "rendering" /\ phase' = "injecting" /\ job' = job
    BY <1>10 DEF NotRendered
  <2>2. <<"error">> \in Seq(Ink)
    BY InkIs
  <2>3. b \in Orders
    BY <2>2 DEF Orders
  <2>4. Said(aborted) = IF aborted THEN << >> ELSE <<b>>
    BY DEF Said
  <2> HIDE DEF b
  <2>5. out' = IF aborted THEN <<Compensation>> ELSE <<Compensation, b>>
    BY <1>1, <2>1, <2>3, <2>4, CompensationIs
  <2>6. out' \in Seq(Orders) /\ Len(out') <= 2 /\ out' # << >>
    BY <1>1, <2>3, <2>5, CompensationIs, OrdersAre
  <2> QED BY <1>1, <2>1, <2>6 DEF JobOK, Phases
<1>11. CASE Inject
  <2>1. /\ out # << >> /\ phase = "injecting" /\ out' = Tail(out) /\ job' = job
        /\ phase' = IF Len(out) = 1 THEN "idle" ELSE phase
    BY <1>11 DEF Inject
  <2>2. CASE Len(out) = 1
    BY <1>1, <1>3, <2>1, <2>2, OrdersLeft DEF JobOK, Phases
  <2>3. CASE Len(out) # 1
    <3>1. Tail(out) \in Seq(Orders) /\ Len(Tail(out)) <= 2 /\ Tail(out) # << >>
      BY <1>1, <2>1, <2>3, OrdersLeft
    <3> QED BY <1>1, <2>1, <2>3, <3>1 DEF JobOK, Phases
  <2> QED BY <2>2, <2>3
<1>12. CASE (\E k \in Keys : Press(k)) \/ Toggle \/ Discard \/ Ignore \/ TakeMove \/ UNCHANGED typingVars
  BY <1>2, <1>12 DEF Press, Toggle, Discard, Ignore, TakeMove, typingVars
<1> QED BY <1>5, <1>6, <1>7, <1>8, <1>9, <1>10, <1>11, <1>12 DEF TypingNext

\* The types hold at the start.
LEMMA TypingStarts == ASSUME TypingInit PROVE TypingOK
<1>1. << >> \in Seq(Ink) /\ << >> \in Seq(Messages) /\ << >> \in Seq(Entries) /\ << >> \in Seq(Orders)
      /\ << >> \in Seq(Letters) /\ << >> \in Seq(Seq(Letters)) /\ << >> \in Seq(Seq(Ink)) /\ Len(<< >>) = 0
  OBVIOUS
<1>2. QueueOK
  BY <1>1 DEF TypingInit, QueueOK
<1>3. HistoryOK
  BY <1>1, ExpansionConstants DEF TypingInit, HistoryOK
<1>4. Recorded
  BY <1>1 DEF TypingInit, Recorded, NoRecord
<1>5. JobOK
  <2>1. NoJob \in JobTypes /\ NoJob.left = << >> /\ NoJob.trigger = << >>
    BY <1>1 DEF NoJob, JobTypes
  <2> QED BY <1>1, <2>1 DEF TypingInit, JobOK, Phases
<1> QED BY <1>1, <1>2, <1>3, <1>4, <1>5 DEF TypingInit, TypingOK

\* Every step keeps the types.
LEMMA TypingStep == ASSUME TypingOK, ChoiceKeys, [TypingNext]_typingVars PROVE TypingOK'
<1>1. enabled' \in BOOLEAN /\ calm' \in BOOLEAN /\ blind' \in BOOLEAN
  <2>1. enabled \in BOOLEAN /\ calm \in BOOLEAN /\ blind \in BOOLEAN
    BY DEF TypingOK
  <2>2. calm' = calm /\ (enabled' = enabled \/ enabled' = ~enabled)
        /\ (blind' = blind \/ blind' \in BOOLEAN)
    <3>1. CASE TakeBackspace
      BY <3>1 DEF TakeBackspace
    <3>2. CASE TakeLetter
      BY <3>2 DEF TakeLetter
    <3>3. CASE (\E k \in Keys : Press(k)) \/ Toggle \/ Discard \/ Ignore \/ TakeMove \/ UNCHANGED typingVars
      BY <3>3 DEF Press, Toggle, Discard, Ignore, TakeMove, typingVars
    <3>4. CASE (\E i \in Ids : Choose(i)) \/ CancelChoice \/ Rendered \/ Inject
      BY <3>4 DEF Choose, CancelChoice, Rendered, Inject
    <3>5. CASE \E aborted \in BOOLEAN : NotRendered(aborted)
      BY <3>5 DEF NotRendered
    <3> QED BY <3>1, <3>2, <3>3, <3>4, <3>5 DEF TypingNext
  <2> QED BY <2>1, <2>2
<1> QED BY <1>1, TextStep, QueueStep, HistoryStep, RecordStep, JobStep DEF TypingOK

(***************************************************************************)
(* The keys of a choice.                                                   *)
(***************************************************************************)
\* A message that is received leaves the others as they were.
LEMMA OthersRemain ==
  ASSUME chan \in Seq(Messages), chan # << >>, chan' = Tail(chan)
  PROVE  \A k \in DOMAIN chan' : k + 1 \in DOMAIN chan /\ chan'[k] = chan[k + 1]
<1>1. /\ Tail(chan) \in Seq(Messages) /\ Len(Tail(chan)) = Len(chan) - 1 /\ Len(chan) \in Nat
      /\ \A k \in 1..Len(Tail(chan)) : Tail(chan)[k] = chan[k + 1]
  BY TailIs
<1> QED BY <1>1

\* And a key that is pressed.
LEMMA OneMore ==
  ASSUME QueueOK, job \in JobTypes, NEW k \in Keys, Press(k)
  PROVE  /\ Len(chan') = Len(chan) + 1 /\ Len(chan) \in Nat
         /\ \A j \in DOMAIN chan' :
              \/ j \in DOMAIN chan /\ chan'[j] = chan[j]
              \/ /\ j = Len(chan) + 1
                 /\ chan'[j] = [key |-> k, id |-> nextId, at |-> Len(text),
                                choice |-> IF phase = "choosing" THEN job.start ELSE 0]
<1> DEFINE m == [key |-> k, id |-> nextId, at |-> Len(text),
                 choice |-> IF phase = "choosing" THEN job.start ELSE 0]
<1>1. chan' = Append(chan, m) /\ chan \in Seq(Messages)
  BY DEF Press, QueueOK
<1>2. Len(text) \in Nat => m \in Messages
  BY DEF Messages, QueueOK, JobTypes
<1> HIDE DEF m
<1>3. Len(chan') = Len(chan) + 1 /\ Len(chan) \in Nat
  BY <1>1
<1>4. ASSUME NEW j \in DOMAIN chan'
      PROVE  \/ j \in DOMAIN chan /\ chan'[j] = chan[j]
             \/ j = Len(chan) + 1 /\ chan'[j] = m
  BY <1>1, <1>4
<1> QED BY <1>3, <1>4 DEF m

\* Every step keeps the keys of choices within the thresholds of their choice.
LEMMA ChoiceKeysStep == ASSUME TypingOK, ChoiceKeys, [TypingNext]_typingVars PROVE ChoiceKeys'
<1>1. /\ QueueOK /\ job \in JobTypes /\ chan \in Seq(Messages)
      /\ nextId \in Nat /\ min \in Nat /\ max \in Nat /\ min < nextId /\ max <= nextId
      /\ \A k \in DOMAIN chan : chan[k].id < nextId
  BY DEF TypingOK, JobOK, QueueOK
<1>2. job.start \in Nat
  BY <1>1 DEF JobTypes
<1>3. \A k \in DOMAIN chan : chan[k].id \in Nat /\ chan[k].choice \in Nat
  <2>1. \A k \in DOMAIN chan : chan[k] \in Messages
    BY <1>1
  <2> QED BY <2>1 DEF Messages
<1>4. ASSUME UNCHANGED <<chan, nextId, min, max, phase>>, job'.start = job.start PROVE ChoiceKeys'
  BY <1>4 DEF ChoiceKeys
<1>5. ASSUME NEW k \in Keys, Press(k) PROVE ChoiceKeys'
  <2>1. UNCHANGED <<min, max, phase, job>> /\ nextId' = nextId + 1
    BY <1>5 DEF Press
  <2>2. ASSUME NEW j \in DOMAIN chan'
        PROVE  \/ chan'[j].choice = 0 \/ chan'[j].choice < min
               \/ phase = "choosing" /\ chan'[j].choice = job.start /\ job.start < chan'[j].id
               \/ chan'[j].choice = min /\ min <= chan'[j].id /\ chan'[j].id < max
    <3>1. CASE j \in DOMAIN chan /\ chan'[j] = chan[j]
      BY <3>1 DEF ChoiceKeys
    <3>2. CASE chan'[j] = [key |-> k, id |-> nextId, at |-> Len(text),
                           choice |-> IF phase = "choosing" THEN job.start ELSE 0]
      <4>1. chan'[j].id = nextId /\ chan'[j].choice = IF phase = "choosing" THEN job.start ELSE 0
        BY <3>2
      <4> QED BY <4>1 DEF ChoiceKeys
    <3> QED BY <1>1, <1>5, <3>1, <3>2, OneMore
  <2>3. phase = "choosing" => min < job.start /\ job.start < nextId + 1
    BY <1>1, <1>2 DEF ChoiceKeys
  <2> QED BY <2>1, <2>2, <2>3 DEF ChoiceKeys
<1>6. ASSUME phase = "idle", chan # << >>, chan' = Tail(chan), UNCHANGED <<min, max>>,
             phase' = "choosing" => min < job'.start /\ job'.start < nextId'
      PROVE  ChoiceKeys'
  <2>1. \A k \in DOMAIN chan' : k + 1 \in DOMAIN chan /\ chan'[k] = chan[k + 1]
    BY <1>1, <1>6, OthersRemain
  <2>2. \A k \in DOMAIN chan : \/ chan[k].choice = 0 \/ chan[k].choice < min
                               \/ chan[k].choice = min /\ min <= chan[k].id /\ chan[k].id < max
    BY <1>6 DEF ChoiceKeys
  <2> QED BY <1>6, <2>1, <2>2 DEF ChoiceKeys
<1>7. CASE TakeLetter
  <2> DEFINE paths == NextPaths(State, Key.key)
             ids == MatchesAt(FirstMatch(paths).node)
  <2>1. phase = "idle" /\ chan # << >> /\ chan' = Tail(chan) /\ UNCHANGED <<min, max>>
    BY <1>7 DEF TakeLetter, Taken, Receive
  <2>2. CASE Complete(paths) = {}
    BY <1>6, <1>7, <2>1, <2>2 DEF TakeLetter
  <2>3. CASE Complete(paths) # {}
    <3>1. /\ job'.start = IF Cardinality(ids) = 1 THEN 0 ELSE nextId
          /\ phase' = IF Cardinality(ids) = 1 THEN "rendering" ELSE "choosing"
          /\ nextId' = IF Cardinality(ids) = 1 THEN nextId ELSE nextId + 1
      BY <1>7, <2>3 DEF TakeLetter
    <3> HIDE DEF ids
    <3> QED BY <1>1, <1>6, <2>1, <3>1
  <2> QED BY <2>2, <2>3
<1>8. CASE TakeBackspace
  <2>1. phase = "idle" /\ chan # << >> /\ chan' = Tail(chan) /\ UNCHANGED <<min, max>>
    BY <1>8 DEF TakeBackspace, Taken, Receive
  <2>2. phase' # "choosing"
    BY <1>8, <2>1 DEF TakeBackspace
  <2> QED BY <1>6, <2>1, <2>2
<1>9. CASE Discard \/ Ignore \/ TakeMove
  <2>1. phase = "idle" /\ chan # << >> /\ chan' = Tail(chan) /\ UNCHANGED <<min, max, phase>>
    BY <1>9 DEF Discard, Ignore, TakeMove, Taken, Receive
  <2> QED BY <1>6, <2>1
<1>10. CASE (\E i \in Ids : Choose(i)) \/ CancelChoice
  <2>1. /\ phase = "choosing" /\ phase' # "choosing" /\ chan' = chan
        /\ min' = job.start /\ max' = nextId
    BY <1>10 DEF Choose, CancelChoice, CloseChoice
  <2>2. ASSUME NEW k \in DOMAIN chan
        PROVE  \/ chan[k].choice = 0 \/ chan[k].choice < job.start
               \/ chan[k].choice = job.start /\ job.start <= chan[k].id /\ chan[k].id < nextId
    BY <1>1, <1>2, <1>3, <2>1 DEF ChoiceKeys
  <2> QED BY <2>1, <2>2 DEF ChoiceKeys
<1>11. CASE Rendered
  <2>1. /\ phase = "rendering" /\ phase' = "injecting" /\ chan' = chan
        /\ min' = min /\ max' = nextId
    BY <1>11 DEF Rendered
  <2>2. ASSUME NEW k \in DOMAIN chan
        PROVE  \/ chan[k].choice = 0 \/ chan[k].choice < min
               \/ chan[k].choice = min /\ min <= chan[k].id /\ chan[k].id < nextId
    BY <1>1, <1>3, <2>1 DEF ChoiceKeys
  <2> QED BY <2>1, <2>2 DEF ChoiceKeys
<1>12. CASE Inject \/ \E aborted \in BOOLEAN : NotRendered(aborted)
  <2>1. UNCHANGED <<chan, min, max>> /\ phase \in {"injecting", "rendering"} /\ phase' # "choosing"
    BY <1>12 DEF Inject, NotRendered
  <2> QED BY <2>1 DEF ChoiceKeys
<1>13. CASE Toggle \/ UNCHANGED typingVars
  BY <1>4, <1>13 DEF Toggle, typingVars
<1> QED BY <1>5, <1>7, <1>8, <1>9, <1>10, <1>11, <1>12, <1>13 DEF TypingNext

(***************************************************************************)
(* A user who waits for the engine.                                        *)
(***************************************************************************)
LEMMA PacedStep == ASSUME TypingOK, Paced, [TypingNext]_typingVars PROVE Paced'
<1>1. /\ QueueOK /\ job \in JobTypes /\ chan \in Seq(Messages) /\ phase \in Phases
      /\ nextId \in Nat /\ max \in Nat /\ max <= nextId /\ Len(chan) \in Nat
  BY DEF TypingOK, JobOK, QueueOK
<1>2. calm' = calm
  BY DEF TypingNext, Press, Toggle, Discard, Ignore, TakeBackspace, TakeMove, TakeLetter, Choose, CancelChoice,
         Rendered, Inject, NotRendered, typingVars
<1>3. SUFFICES ASSUME calm
               PROVE  /\ Len(chan') <= 1 /\ (phase' # "idle" => chan' = << >>)
                      /\ \A k \in DOMAIN chan' : max' <= chan'[k].id
  BY <1>2 DEF Paced
<1>4. /\ Len(chan) <= 1 /\ (phase # "idle" => chan = << >>)
      /\ \A k \in DOMAIN chan : max <= chan[k].id
  BY <1>3 DEF Paced
<1>5. ASSUME NEW k \in Keys, Press(k)
      PROVE  /\ Len(chan') <= 1 /\ (phase' # "idle" => chan' = << >>)
             /\ \A j \in DOMAIN chan' : max' <= chan'[j].id
  <2>1. chan = << >> /\ phase = "idle" /\ phase' = phase /\ max' = max
    BY <1>3, <1>5 DEF Press, AtRest
  <2>2. Len(chan') = 1 /\ \A j \in DOMAIN chan' : chan'[j].id = nextId
    BY <1>1, <1>5, <2>1, OneMore
  <2> QED BY <1>1, <2>1, <2>2
<1>6. ASSUME phase = "idle", chan # << >>, chan' = Tail(chan), max' = max
      PROVE  /\ Len(chan') <= 1 /\ (phase' # "idle" => chan' = << >>)
             /\ \A k \in DOMAIN chan' : max' <= chan'[k].id
  <2>1. chan' \in Seq(Messages) /\ Len(chan') = Len(chan) - 1 /\ Len(chan) > 0
    BY <1>1, <1>6, TailIs
  <2>2. Len(chan') = 0
    BY <1>1, <1>4, <2>1
  <2>3. chan' = << >>
    BY <2>1, <2>2, EmptySeq
  <2> QED BY <2>2, <2>3
<1>7. CASE Discard \/ Ignore \/ TakeBackspace \/ TakeMove \/ TakeLetter
  <2>1. phase = "idle" /\ chan # << >> /\ chan' = Tail(chan) /\ max' = max
    BY <1>7 DEF Discard, Ignore, TakeBackspace, TakeMove, TakeLetter, Taken, Receive
  <2> QED BY <1>6, <2>1
<1>8. ASSUME chan' = chan, phase # "idle"
      PROVE  /\ Len(chan') <= 1 /\ (phase' # "idle" => chan' = << >>)
             /\ \A k \in DOMAIN chan' : max' <= chan'[k].id
  <2>1. chan' = << >>
    BY <1>4, <1>8
  <2> QED BY <2>1
<1>9. CASE (\E i \in Ids : Choose(i)) \/ CancelChoice \/ Rendered \/ Inject
  <2>1. chan' = chan /\ phase # "idle"
    BY <1>9 DEF Choose, CancelChoice, Rendered, Inject
  <2> QED BY <1>8, <2>1
<1>10. CASE \E aborted \in BOOLEAN : NotRendered(aborted)
  <2>1. chan' = chan /\ phase # "idle"
    BY <1>10 DEF NotRendered
  <2> QED BY <1>8, <2>1
<1>11. CASE Toggle \/ UNCHANGED typingVars
  <2>1. UNCHANGED <<chan, phase, max>>
    BY <1>11 DEF Toggle, typingVars
  <2> QED BY <1>4, <2>1
<1> QED BY <1>5, <1>7, <1>9, <1>10, <1>11 DEF TypingNext

\* A choice stays open between several matches only.
LEMMA ChosenStep == ASSUME Chosen, [TypingNext]_typingVars PROVE Chosen'
<1>1. ASSUME phase' = phase, job'.ids = job.ids PROVE Chosen'
  BY <1>1 DEF Chosen
<1>2. ASSUME phase' # "choosing" PROVE Chosen'
  BY <1>2 DEF Chosen
<1>3. CASE TakeLetter
  <2> DEFINE paths == NextPaths(State, Key.key)
             ids == MatchesAt(FirstMatch(paths).node)
  <2>1. CASE Complete(paths) = {}
    BY <1>1, <1>3, <2>1 DEF TakeLetter
  <2>2. CASE Complete(paths) # {}
    <3>1. job'.ids = ids /\ phase' = IF Cardinality(ids) = 1 THEN "rendering" ELSE "choosing"
      BY <1>3, <2>2 DEF TakeLetter
    <3> HIDE DEF ids
    <3> QED BY <3>1 DEF Chosen
  <2> QED BY <2>1, <2>2
<1>4. CASE TakeBackspace
  BY <1>2, <1>4 DEF TakeBackspace, Taken, Receive
<1>5. CASE (\E i \in Ids : Choose(i)) \/ CancelChoice \/ Rendered
  BY <1>2, <1>5 DEF Choose, CancelChoice, Rendered
<1>6. CASE Inject \/ \E aborted \in BOOLEAN : NotRendered(aborted)
  BY <1>2, <1>6 DEF Inject, NotRendered
<1>7. CASE (\E k \in Keys : Press(k)) \/ Toggle \/ Discard \/ Ignore \/ TakeMove \/ UNCHANGED typingVars
  BY <1>1, <1>7 DEF Press, Toggle, Discard, Ignore, TakeMove, typingVars
<1> QED BY <1>3, <1>4, <1>5, <1>6, <1>7 DEF TypingNext

(***************************************************************************)
(* The history is followed: what it believes is where the text will be.    *)
(***************************************************************************)
\* Where the orders lead to is a text.
LEMMA LandsIs ==
  ASSUME NEW orders \in Seq(Orders), Len(orders) <= 2, NEW t \in Seq(Ink)
  PROVE  Lands(orders, t) \in Seq(Ink)
<1>1. CASE orders = << >>
  BY <1>1 DEF Lands
<1>2. CASE orders # << >>
  <2>1. orders[1] \in Orders /\ (Len(orders) # 1 => orders[2] \in Orders)
    <3>1. Len(orders) \in Nat /\ Len(orders) > 0
      BY <1>2, EmptySeq
    <3>2. PICK n \in Nat : n = Len(orders)
      BY <3>1
    <3>3. 1 \in 1..n /\ (n # 1 => 2 \in 1..n)
      BY <3>1, <3>2
    <3> QED BY <3>2, <3>3
  <2>2. Apply(orders[1], t) \in Seq(Ink)
    BY <2>1, ApplyIs
  <2>3. Len(orders) # 1 => Apply(orders[2], Apply(orders[1], t)) \in Seq(Ink)
    BY <2>1, <2>2, ApplyIs
  <2> QED BY <1>2, <2>2, <2>3 DEF Lands
<1> QED BY <1>1, <1>2

\* One order that has been carried out leads to the same place as before.
LEMMA LandsOn ==
  ASSUME NEW orders \in Seq(Orders), Len(orders) <= 2, orders # << >>, NEW t
  PROVE  Lands(Tail(orders), Apply(Head(orders), t)) = Lands(orders, t)
<1>1. CASE Len(orders) = 1
  <2>1. Tail(orders) = << >> /\ Head(orders) = orders[1]
    BY <1>1, OrdersLeft
  <2> QED BY <1>1, <2>1 DEF Lands
<1>2. CASE Len(orders) # 1
  <2>1. /\ Head(orders) = orders[1] /\ Len(Tail(orders)) = 1 /\ Tail(orders) # << >>
        /\ Tail(orders)[1] = orders[2]
    BY <1>2, OrdersLeft
  <2> QED BY <1>2, <2>1 DEF Lands
<1> QED BY <1>1, <1>2

\* The two orders of an undo take the body away and put the trigger in its place.
LEMMA UndoLands ==
  ASSUME NEW c \in Seq(Ink), NEW b \in Seq(Ink), b # << >>, NEW w \in Seq(Ink)
  PROVE  Lands(<<[back |-> Len(b) - 1, insert |-> << >>], [back |-> 0, insert |-> w]>>,
               Shorter(c \o b, 1)) = c \o w
<1> DEFINE x == [back |-> Len(b) - 1, insert |-> << >>]
           y == [back |-> 0, insert |-> w]
           e == c \o b
           u == Shorter(e, 1)
           n == Len(b)
<1>1. n \in Nat /\ n > 0 /\ n - 1 \in Nat /\ 1 + (n - 1) = n
  BY EmptySeq
<1>2. e \in Seq(Ink) /\ Len(e) = Len(c) + n
  BY ConcatProperties
<1>3. x \in Orders /\ y \in Orders
  BY <1>1 DEF Orders
<1>4. u \in Seq(Ink)
  BY <1>2, ShorterIs
<1>5. Shorter(e, n) = c
  <2>1. \A m \in Nat : m <= Len(b) => Shorter(c \o b, m) = c \o Shorter(b, m)
    BY ShorterOfBoth
  <2>5. Shorter(e, n) = c \o Shorter(b, n)
    <3>1. PICK m \in Nat : m = n
      BY <1>1
    <3>2. m <= Len(b)
      BY <3>1
    <3> QED BY <2>1, <3>1, <3>2
  <2>2. Shorter(b, n) \in Seq(Ink) /\ Len(Shorter(b, n)) = 0
    BY <1>1, ShorterIs
  <2>3. Shorter(b, n) = << >>
    BY <2>2, EmptySeq
  <2>4. c \o << >> = c
    OBVIOUS
  <2> QED BY <2>5, <2>3, <2>4
<1>6. Shorter(u, n - 1) = c
  <2>1. 1 + (n - 1) <= Len(e) /\ 1 \in Nat
    BY <1>1, <1>2
  <2> HIDE DEF e, n
  <2>2. Shorter(u, n - 1) = Shorter(e, 1 + (n - 1))
    BY <1>1, <1>2, <2>1, ShorterTwice
  <2> QED BY <1>1, <1>5, <2>2
<1> HIDE DEF u, e
<1>7. Apply(x, u) = c
  <2>1. x.back = n - 1 /\ x.insert = << >> /\ c \o << >> = c
    OBVIOUS
  <2> HIDE DEF x
  <2> QED BY <1>6, <2>1 DEF Apply
<1>8. Apply(y, c) = c \o w
  <2>1. y.back = 0 /\ y.insert = w
    OBVIOUS
  <2> HIDE DEF y
  <2> QED BY <2>1, ShorterByNone DEF Apply
<1>9. <<x, y>> # << >> /\ Len(<<x, y>>) # 1 /\ <<x, y>>[1] = x /\ <<x, y>>[2] = y
  BY <1>3, OrdersAre
<1> HIDE DEF x, y
<1>10. Lands(<<x, y>>, u) = c \o w
  BY <1>7, <1>8, <1>9 DEF Lands
<1> QED BY <1>10 DEF x, y, u, e

\* What the compensation and the body make of a text.
LEMMA BodyLands ==
  ASSUME NEW o \in Orders, o.insert = << >>, NEW w \in Seq(Ink), NEW t \in Seq(Ink)
  PROVE  Lands(<<o, [back |-> 0, insert |-> w]>>, t) = Shorter(t, o.back) \o w
<1> DEFINE y == [back |-> 0, insert |-> w]
           u == Shorter(t, o.back)
<1>1. o.back \in Nat
  BY DEF Orders
<1>2. u \in Seq(Ink)
  BY <1>1, ShorterIs
<1> HIDE DEF u
<1>3. Apply(o, t) = u
  <2>1. u \o << >> = u
    BY <1>2
  <2> QED BY <2>1 DEF Apply, u
<1>4. Apply(y, u) = u \o w
  <2>1. y.back = 0 /\ y.insert = w
    OBVIOUS
  <2> HIDE DEF y
  <2> QED BY <1>2, <2>1, ShorterByNone DEF Apply
<1>5. y \in Orders
  BY DEF Orders
<1>6. <<o, y>> # << >> /\ Len(<<o, y>>) # 1 /\ <<o, y>>[1] = o /\ <<o, y>>[2] = y
  BY <1>5, OrdersAre
<1> HIDE DEF y
<1>7. Lands(<<o, y>>, t) = u \o w
  BY <1>3, <1>4, <1>6 DEF Lands
<1> QED BY <1>7 DEF y, u

\* What an expansion leaves of the history is blank since it.
LEMMA SilentPush ==
  ASSUME NEW hist \in Seq(Entries), NEW kept \in Seq(Entries),
         kept = hist \/ (hist # << >> /\ kept = Tail(hist)),
         NEW v \in 0..Len(hist), SilentFrom(hist, v), NEW h \in Entries, Silent(h)
  PROVE  \E w \in 0..Len(Append(kept, h)) - 1 : SilentFrom(Append(kept, h), w)
<1> DEFINE g == Append(kept, h)
<1>1. /\ g \in Seq(Entries) /\ Len(g) = Len(kept) + 1 /\ Len(kept) \in Nat /\ Len(hist) \in Nat
      /\ (\A k \in 1..Len(kept) : g[k] = kept[k]) /\ g[Len(kept) + 1] = h
  BY AppendIs
<1> HIDE DEF g
<1>2. CASE kept = hist
  <2>1. v \in 0..Len(g) - 1 /\ (v > 0 => g[v].at = 0)
    BY <1>1, <1>2 DEF SilentFrom
  <2>2. ASSUME NEW k \in DOMAIN g, k >= v PROVE Silent(g[k])
    <3>1. CASE k = Len(kept) + 1
      BY <1>1, <3>1
    <3>2. CASE k # Len(kept) + 1
      <4>1. k \in 1..Len(kept)
        BY <1>1, <3>2
      <4> QED BY <1>1, <1>2, <2>2, <4>1 DEF SilentFrom
    <3> QED BY <3>1, <3>2
  <2> QED BY <2>1, <2>2 DEF SilentFrom, g
<1>3. CASE hist # << >> /\ kept = Tail(hist)
  <2> DEFINE w == IF v = 0 THEN 0 ELSE v - 1
  <2>1. /\ Len(kept) = Len(hist) - 1 /\ Len(hist) > 0
        /\ \A k \in 1..Len(kept) : kept[k] = hist[k + 1]
    BY <1>3, TailIs
  <2>2. w \in 0..Len(g) - 1
    BY <1>1, <2>1
  <2>3. w > 0 => g[w].at = 0
    <3> SUFFICES ASSUME w > 0 PROVE g[w].at = 0
      OBVIOUS
    <3>1. w \in 1..Len(kept) /\ w + 1 = v /\ v > 0
      BY <1>1, <2>1
    <3>2. g[w] = hist[w + 1]
      BY <1>1, <2>1, <3>1
    <3> QED BY <3>1, <3>2 DEF SilentFrom
  <2>4. ASSUME NEW k \in DOMAIN g, k >= w PROVE Silent(g[k])
    <3>1. CASE k = Len(kept) + 1
      BY <1>1, <3>1
    <3>2. CASE k # Len(kept) + 1
      <4>1. k \in 1..Len(kept) /\ k + 1 \in 1..Len(hist) /\ k + 1 >= v
        BY <1>1, <2>1, <2>4, <3>2
      <4>2. g[k] = hist[k + 1]
        BY <1>1, <2>1, <4>1
      <4> QED BY <4>1, <4>2 DEF SilentFrom
    <3> QED BY <3>1, <3>2
  <2> HIDE DEF w
  <2> QED BY <2>2, <2>3, <2>4 DEF SilentFrom, g
<1> QED BY <1>2, <1>3

\* What the matcher believes after a letter is at the end of the text with the letter.
LEMMA OnwardSuffix ==
  ASSUME states \in Seq(Entries), NEW t \in Seq(Ink), Agrees(states, t), NEW e \in Letters,
         NEW p, Onward(p, e)
  PROVE  IsSuffix(p.typed, Append(t, e))
<1>1. Chars(e) = <<e>> /\ e \in Ink
  BY InkIs DEF Chars
<1>2. CASE p.typed = Chars(e)
  <2>1. << >> \in Seq(Ink) /\ << >> \o <<e>> = <<e>>
    OBVIOUS
  <2> QED BY <1>1, <1>2, <2>1, NothingEnds, SuffixGoesOn
<1>3. ASSUME states # << >>, NEW q \in Range(Last(states).paths), p.typed = q.typed \o Chars(e)
      PROVE  IsSuffix(p.typed, Append(t, e))
  <2> DEFINE n == Len(states)
  <2>1. n \in DOMAIN states /\ n \in Nat /\ n + 1..n = {} /\ n - n = 0 /\ Last(states) = states[n]
    BY <1>3, FrontIs DEF Last
  <2>2. IsSuffix(q.typed, Shorter(t, n - n))
    <3> HIDE DEF n
    <3>1. \A j \in n + 1..Len(states) : 0 < states[j].at /\ states[j].at + (Len(states) - j) = Len(t)
      BY <2>1 DEF n
    <3> QED BY <1>3, <2>1, <3>1 DEF Agrees, n
  <2>3. Shorter(t, 0) = t
    BY ShorterByNone
  <2>4. q.typed \in Seq(Ink)
    <3>1. Last(states) \in Entries
      BY <1>3, FrontIs
    <3>2. q \in Paths
      BY <3>1 DEF Entries, Heard, Proper
    <3>3. q.typed \in Seq(Letters)
      BY <3>2 DEF Paths
    <3> QED BY <3>3, InkIs
  <2> QED BY <1>1, <1>3, <2>1, <2>2, <2>3, <2>4, SuffixGoesOn
<1> QED BY <1>2, <1>3 DEF Onward

\* Nothing agrees with everything.
LEMMA NothingAgrees == ASSUME NEW t PROVE Agrees(<< >>, t)
BY DEF Agrees

\* The last state of a history that agrees is at the end of the text.
LEMMA LastAgrees ==
  ASSUME NEW hist \in Seq(Entries), hist # << >>, NEW t \in Seq(Ink), Agrees(hist, t)
  PROVE  \A p \in Range(Last(hist).paths) : IsSuffix(p.typed, t)
<1> DEFINE n == Len(hist)
<1>1. n \in DOMAIN hist /\ n \in Nat /\ n + 1..n = {} /\ n - n = 0 /\ Last(hist) = hist[n]
  BY FrontIs DEF Last
<1>2. Shorter(t, 0) = t
  BY ShorterByNone
<1>3. \A j \in n + 1..Len(hist) : 0 < hist[j].at /\ hist[j].at + (Len(hist) - j) = Len(t)
  BY <1>1
<1>4. \A p \in Range(hist[n].paths) : IsSuffix(p.typed, Shorter(t, Len(hist) - n))
  BY <1>1, <1>3 DEF Agrees
<1> HIDE DEF n
<1> QED BY <1>1, <1>2, <1>4 DEF n

\* The key that a user who waits has pressed.
LEMMA OneKey ==
  ASSUME QueueOK, Paced, calm, chan # << >>
  PROVE  Tail(chan) = << >> /\ phase = "idle"
<1>1. chan \in Seq(Messages) /\ Len(chan) <= 1 /\ phase = "idle"
  BY DEF Paced, QueueOK
<1>2. Tail(chan) \in Seq(Messages) /\ Len(Tail(chan)) = Len(chan) - 1 /\ Len(chan) \in Nat /\ Len(chan) > 0
  BY <1>1, TailIs
<1>3. Len(Tail(chan)) = 0
  BY <1>1, <1>2
<1> QED BY <1>1, <1>2, <1>3, EmptySeq

\* A letter that is taken: the history grows with the text.
LEMMA LetterAgrees ==
  ASSUME TypingOK, NEW t \in Seq(Ink), Agrees(states, t), NEW e \in Letters,
         NEW at, at = Len(t) + 1, Push(NextPaths(State, e), at)
  PROVE  \E kept \in Seq(Entries) :
           /\ Remains(kept)
           /\ states' = Append(kept, [paths |-> AfterEvent(NextPaths(State, e)), at |-> at])
           /\ [paths |-> AfterEvent(NextPaths(State, e)), at |-> at] \in Entries
           /\ Agrees(states', Append(t, e))
<1> DEFINE paths == NextPaths(State, e)
           h == [paths |-> AfterEvent(paths), at |-> at]
<1>1. HistoryOK /\ states \in Seq(Entries) /\ e \in Events /\ e \in Ink /\ at \in Nat
  BY InkIs DEF TypingOK, HistoryOK
<1>2. paths \in Seq(Paths) /\ \A p \in Range(paths) : Proper(p) /\ Onward(p, e)
  BY <1>1, OnwardIs
<1>3. PICK kept \in Seq(Entries) : Remains(kept) /\ h \in Entries /\ states' = Append(kept, h)
  <2> HIDE DEF paths
  <2> QED BY <1>1, <1>2, PushIs DEF paths
<1>4. Agrees(kept, t)
  BY <1>1, <1>3, RemainsAgrees
<1>5. \A p \in Range(h.paths) : IsSuffix(p.typed, Append(t, e))
  <2>1. h.paths = AfterEvent(paths)
    OBVIOUS
  <2>2. Range(AfterEvent(paths)) \subseteq Range(paths)
    BY <1>2, AfterEventIs
  <2>3. \A p \in Range(paths) : IsSuffix(p.typed, Append(t, e))
    BY <1>1, <1>2, OnwardSuffix
  <2> HIDE DEF paths, h
  <2> QED BY <2>1, <2>2, <2>3
<1>6. h.at = Len(t) + 1
  OBVIOUS
<1> HIDE DEF h
<1>7. Agrees(Append(kept, h), Append(t, e))
  BY <1>1, <1>3, <1>4, <1>5, <1>6, AgreesPush
<1> QED BY <1>3, <1>7 DEF h

\* The separator that is made up after an expansion: nothing is believed since.
LEMMA VirtualSilent ==
  ASSUME TypingOK, states # << >>, Last(states).paths = << >>, Push(NextPaths(State, Virtual), 0)
  PROVE  \E kept \in Seq(Entries), h \in Entries :
           Remains(kept) /\ Silent(h) /\ h.at = 0 /\ states' = Append(kept, h)
<1> DEFINE paths == NextPaths(State, Virtual)
           h == [paths |-> AfterEvent(paths), at |-> 0]
<1>1. HistoryOK /\ states \in Seq(Entries) /\ Virtual \in Events
  BY InkIs DEF TypingOK, HistoryOK
<1>2. paths \in Seq(Paths) /\ \A p \in Range(paths) : Proper(p) /\ Onward(p, Virtual)
  BY <1>1, OnwardIs
<1>3. PICK kept \in Seq(Entries) : Remains(kept) /\ h \in Entries /\ states' = Append(kept, h)
  <2> HIDE DEF paths
  <2> QED BY <1>1, <1>2, PushIs DEF paths
<1>4. Silent(h)
  <2>1. Range(AfterEvent(paths)) \subseteq Range(paths)
    BY <1>2, AfterEventIs
  <2>2. Chars(Virtual) = << >>
    BY DEF Chars
  <2>3. Range(Last(states).paths) = {}
    BY DEF Range
  <2>4. \A p \in Range(paths) : p.typed = << >>
    BY <1>2, <2>2, <2>3 DEF Onward
  <2>5. h.paths = AfterEvent(paths)
    OBVIOUS
  <2> HIDE DEF paths, h
  <2> QED BY <2>1, <2>4, <2>5 DEF Silent
<1>5. h.at = 0
  OBVIOUS
<1> HIDE DEF h
<1> QED BY <1>3, <1>4, <1>5

\* The end of such a history is a separator that was made up.
LEMMA SilentEnd ==
  ASSUME NEW kept \in Seq(Entries), NEW h \in Entries, Silent(h), h.at = 0
  PROVE  SilentFrom(Append(kept, h), Len(Append(kept, h)))
<1> DEFINE g == Append(kept, h)
           n == Len(g)
<1>1. n = Len(kept) + 1 /\ g[n] = h /\ n \in Nat /\ DOMAIN g = 1..n
  BY AppendIs
<1> HIDE DEF g, n
<1>2. \A k \in DOMAIN g : k >= n => k = n
  BY <1>1
<1> QED BY <1>1, <1>2 DEF SilentFrom, g, n

\* What the undo of an expansion leads to, if the last trigger was expanded: what had been
\* typed, with the separator before the trigger once more.
LEMMA UndoneIs ==
  ASSUME TypingOK, Current, record.injected # << >>, chan # << >>, chan[1].key = Backspace,
         TakeBackspace
  PROVE  /\ Landing' = Compensated \o job.trigger
         /\ text' = text /\ Len(out') = 2 /\ Landing' = Apply(out'[2], Apply(out'[1], text))
         /\ Landing' \in Seq(Ink) /\ job'.left = job.left /\ job'.ids = job.ids
         /\ job.left = << >> => Landing' = before
         /\ Len(Landing') = Len(before) => Shorter(Landing', 1) = Shorter(before, 1)
<1> DEFINE b == record.injected[1]
           w == record.trigger[1]
           c == Compensated
           x == [back |-> UndoBackspaces, insert |-> << >>]
           y == [back |-> 0, insert |-> w]
           n == Len(job.trigger) - Len(job.left)
<1>1. /\ text \in Seq(Ink) /\ before \in Seq(Ink) /\ job.trigger \in Seq(Letters)
      /\ job.left \in Seq(Letters) /\ Len(job.left) <= Len(job.trigger) /\ job \in JobTypes
      /\ Recorded
  BY DEF TypingOK, JobOK, JobTypes
<1>2. /\ x \in Orders /\ y \in Orders /\ UndoBackspaces = Len(b) - 1 /\ b \in Seq(Ink) /\ b # << >>
      /\ w \in Seq(Ink)
  BY <1>1, UndoIs DEF Recorded
<1>3. n \in Nat /\ job.trigger \in Seq(Ink)
  BY <1>1, InkIs
<1>4. c \in Seq(Ink) /\ c = Shorter(before, n)
  BY <1>1, <1>3, ShorterIs DEF Compensated
<1>5. text = Shorter(c \o b, 1) /\ w = job.trigger /\ IsSuffix(job.trigger, before)
  BY DEF Current, Expanded
<1>6. out' = <<x, y>> /\ text' = text /\ job' = [job EXCEPT !.undo = TRUE]
  BY DEF TakeBackspace
<1>7. Lands(<<x, y>>, text) = c \o w
  <2> HIDE DEF c, b, w
  <2>1. Lands(<<[back |-> Len(b) - 1, insert |-> << >>], [back |-> 0, insert |-> w]>>, Shorter(c \o b, 1))
          = c \o w
    BY <1>2, <1>4, UndoLands
  <2> QED BY <1>2, <1>5, <2>1
<1> HIDE DEF x, y, c, b, w
<1>8. Len(out') = 2 /\ out' # << >> /\ out'[1] = x /\ out'[2] = y
  BY <1>2, <1>6, OrdersAre
<1>9. Landing' = c \o w /\ Landing' = Apply(out'[2], Apply(out'[1], text))
  BY <1>6, <1>7, <1>8 DEF Landing, Lands
<1>10. Landing' \in Seq(Ink) /\ Len(Landing') = Len(c) + Len(job.trigger)
  <2>1. c \o job.trigger \in Seq(Ink) /\ Len(c \o job.trigger) = Len(c) + Len(job.trigger)
    BY <1>3, <1>4, ConcatProperties
  <2> QED BY <1>5, <1>9, <2>1
<1>11. job'.left = job.left /\ job'.ids = job.ids
  BY <1>1, <1>6 DEF JobTypes
<1>12. Shorter(before, Len(job.trigger)) \o job.trigger = before /\ Len(job.trigger) <= Len(before)
  BY <1>1, <1>3, <1>5, SuffixSplits
<1>13. job.left = << >> => Landing' = before
  <2> SUFFICES ASSUME job.left = << >> PROVE Landing' = before
    OBVIOUS
  <2>1. n = Len(job.trigger)
    BY <1>1
  <2> QED BY <1>4, <1>5, <1>9, <1>12, <2>1
<1>14. Len(Landing') = Len(before) => job.left = << >>
  <2> SUFFICES ASSUME Len(Landing') = Len(before) PROVE job.left = << >>
    OBVIOUS
  <2>1. Len(c) = Len(before) - n
    <3>1. n <= Len(before)
      BY <1>1, <1>3, <1>12
    <3> HIDE DEF n
    <3> QED BY <1>1, <1>3, <1>4, <3>1, ShorterIs
  <2>3. Len(job.left) = 0
    BY <1>1, <1>3, <1>10, <2>1
  <2> QED BY <1>1, <2>3, EmptySeq
<1> QED BY <1>5, <1>6, <1>8, <1>9, <1>10, <1>11, <1>13, <1>14 DEF c

\* What a text is followed with after one step, from what it was before: nothing changes
\* but the phase.
LEMMA PressFollowed ==
  ASSUME TypingOK, Paced, Followed, NEW k \in Keys, Press(k) PROVE Followed'
<1>1. /\ text \in Seq(Ink) /\ chan \in Seq(Messages) /\ Len(text) \in Nat
      /\ (phase = "injecting" <=> out # << >>) /\ job \in JobTypes
  BY DEF TypingOK, JobOK, QueueOK
<1>2. SUFFICES ASSUME calm, ~blind PROVE Followed'
  BY DEF Press, Followed
<1>3. /\ phase = "idle" /\ phase' = phase /\ chan = << >> /\ out = << >> /\ states' = states
      /\ text' = IF k = Backspace THEN Shorter(text, 1) ELSE IF k = Move THEN << >> ELSE Append(text, k)
  BY <1>1, <1>2 DEF Press, AtRest
<1>4. Agrees(states, text)
  BY <1>2, <1>3 DEF Followed, Landing, Lands
<1>5. chan' # << >> /\ chan'[1].key = k /\ chan'[1].at = Len(text)
  <2> DEFINE m == [key |-> k, id |-> nextId, at |-> Len(text),
                   choice |-> IF phase = "choosing" THEN job.start ELSE 0]
  <2>1. chan' = Append(<< >>, m)
    BY <1>2, <1>3 DEF Press
  <2>2. m.key = k /\ m.at = Len(text)
    OBVIOUS
  <2> HIDE DEF m
  <2>3. chan' = <<m>>
    BY <2>1
  <2>4. chan' # << >> /\ chan'[1] = m
    BY <2>3
  <2> QED BY <2>2, <2>4
<1>6. k \in Letters => k # Backspace /\ k # Move
  BY InkIs
<1>7. Backspace # Move
  BY InkIs
<1>8. Pressed(chan[1], text)' <=> /\ (k \in Letters \cup {Backspace} => chan'[1].at = Len(text'))
                                  /\ (k \in Letters => text' = Append(text', k))
                                  /\ (k = Backspace => text' = Shorter(text', 1))
  BY <1>5 DEF Pressed
<1>9. \E t \in Seq(Ink) :
        /\ chan'[1].at = Len(t) /\ (k \in Letters => text' = Append(t, k))
        /\ (k = Backspace => text' = Shorter(t, 1)) /\ Agrees(states', t)
  BY <1>1, <1>3, <1>4, <1>5, <1>6
<1> QED BY <1>3, <1>5, <1>7, <1>9 DEF Followed, Pressed

\* A letter that is taken keeps the history to the text.
LEMMA LetterFollowed ==
  ASSUME TypingOK, Paced, Followed, TakeLetter PROVE Followed'
<1>1. SUFFICES ASSUME calm, ~blind PROVE Followed'
  BY DEF TakeLetter, Followed
<1> DEFINE e == Key.key
           paths == NextPaths(State, e)
<1>2. /\ chan # << >> /\ chan' = Tail(chan) /\ phase = "idle" /\ e \in Letters /\ text' = text
      /\ Push(paths, Key.at + 1) /\ Key = chan[1] /\ out = << >>
  BY KeyIs DEF TakeLetter, Taken, Receive, TypingOK, JobOK
<1>3. chan' = << >>
  BY <1>1, <1>2, OneKey DEF TypingOK
<1>4. PICK t \in Seq(Ink) : Pressed(chan[1], t) /\ (chan[1].key # Move => Agrees(states, t))
  BY <1>1, <1>2 DEF Followed
<1>5. Key.at = Len(t) /\ text = Append(t, e) /\ Agrees(states, t) /\ e # Move
  BY <1>2, <1>4, InkIs DEF Pressed
<1>6. PICK kept \in Seq(Entries) :
        /\ Remains(kept)
        /\ states' = Append(kept, [paths |-> AfterEvent(paths), at |-> Key.at + 1])
        /\ [paths |-> AfterEvent(paths), at |-> Key.at + 1] \in Entries
        /\ Agrees(states', Append(t, e))
  BY <1>2, <1>5, LetterAgrees
<1>7. CASE Complete(paths) = {}
  <2>1. phase' = phase /\ out' = out
    BY <1>7 DEF TakeLetter
  <2>2. Landing' = text
    BY <1>2, <2>1 DEF Landing, Lands
  <2> QED BY <1>2, <1>3, <1>5, <1>6, <2>1, <2>2 DEF Followed
<1>8. CASE Complete(paths) # {}
  <2> DEFINE hit == FirstMatch(paths)
             h == [paths |-> AfterEvent(paths), at |-> Key.at + 1]
  <2>1. job'.trigger = hit.typed /\ job'.undo = FALSE /\ out' = << >> /\ before' = text
    BY <1>8 DEF TakeLetter
  <2>2. IsSuffix(hit.typed, text)
    <3>1. states \in Seq(Entries) /\ e \in Events
      BY <1>2, InkIs DEF TypingOK, HistoryOK
    <3>2. Onward(hit, e)
      BY <1>8, <3>1, HitIs
    <3> HIDE DEF hit
    <3> QED BY <1>2, <1>5, <3>1, <3>2, OnwardSuffix
  <2>3. h.paths = << >> /\ h.at = Len(t) + 1
    BY <1>5, <1>8 DEF AfterEvent
  <2> HIDE DEF h, hit
  <2>4. states' # << >> /\ Last(states') = h
    BY <1>6, AppendIs DEF h
  <2>5. Len(text) = Len(t) + 1 /\ Len(t) \in Nat /\ 0 < Len(t) + 1
    <3>1. e \in Ink
      BY <1>2, InkIs
    <3> HIDE DEF e
    <3> QED BY <1>5, <3>1, AppendIs
  <2>6. EndsAt(states', text')
    BY <1>2, <2>3, <2>4, <2>5 DEF EndsAt
  <2>7. Landing' = text
    BY <1>2, <2>1 DEF Landing, Lands
  <2> QED BY <1>2, <1>3, <1>5, <1>6, <2>1, <2>2, <2>4, <2>6, <2>7 DEF Followed
<1> QED BY <1>7, <1>8

\* So does a backspace, whether it undoes an expansion or not.
LEMMA BackspaceFollowed ==
  ASSUME TypingOK, Paced, Followed, Undoable, TakeBackspace PROVE Followed'
<1>1. SUFFICES ASSUME calm, ~blind, ~blind' PROVE Followed'
  BY DEF TakeBackspace, Followed
<1>2. /\ chan # << >> /\ chan' = Tail(chan) /\ phase = "idle" /\ Key.key = Backspace /\ text' = text
      /\ Key = chan[1] /\ out = << >> /\ states' = (IF states = << >> THEN states ELSE Front(states))
      /\ text \in Seq(Ink) /\ states \in Seq(Entries)
  BY KeyIs DEF TakeBackspace, Taken, Receive, TypingOK, JobOK, Forgotten, HistoryOK
<1>3. chan' = << >>
  BY <1>1, <1>2, OneKey DEF TypingOK
<1>4. PICK t \in Seq(Ink) : Pressed(chan[1], t) /\ (chan[1].key # Move => Agrees(states, t))
  BY <1>1, <1>2 DEF Followed
<1>5. Key.at = Len(t) /\ text = Shorter(t, 1) /\ Agrees(states, t)
  BY <1>2, <1>4, InkIs DEF Pressed
<1>6. SUFFICES Agrees(states', Landing') /\ phase' \notin {"choosing", "rendering"}
  BY <1>3 DEF Followed
<1>7. CASE record.injected = << >>
  <2>1. phase' = phase /\ out' = out
    BY <1>7 DEF TakeBackspace
  <2>2. Landing' = text
    BY <1>2, <2>1 DEF Landing, Lands
  <2>3. CASE states = << >>
    BY <1>2, <2>1, <2>2, <2>3, NothingAgrees
  <2>4. CASE states # << >>
    <3>1. Key.at # 0 /\ Last(states).at = Key.at
      BY <1>1, <1>7, <2>4 DEF TakeBackspace
    <3>2. 0 < Len(t) /\ Last(states).at = Len(t)
      BY <1>5, <3>1
    <3>3. Agrees(Front(states), Shorter(t, 1))
      BY <1>2, <1>5, <2>4, <3>2, AgreesPop
    <3> QED BY <1>2, <1>5, <2>1, <2>2, <2>4, <3>3
  <2> QED BY <2>3, <2>4
<1>8. CASE record.injected # << >>
  <2>1. phase' = "injecting"
    BY <1>8 DEF TakeBackspace
  <2>2. Current \/ Outdated
    BY <1>1, <1>8 DEF Undoable
  <2>3. CASE Current
    <3>1. /\ states # << >> /\ Landing' \in Seq(Ink) /\ before \in Seq(Ink)
          /\ Len(Landing') = Len(before) => Shorter(Landing', 1) = Shorter(before, 1)
      BY <1>2, <1>8, <2>3, UndoneIs DEF Current, TypingOK
    <3>2. /\ Front(states) \in Seq(Entries) /\ Len(Front(states)) = Len(states) - 1
          /\ Len(states) \in Nat /\ Len(states) > 0
      <4>1. states \in Seq(Entries) /\ states # << >>
        BY <1>2, <3>1
      <4> QED BY <4>1, FrontIs
    <3>3. states' = Front(states)
      BY <1>2, <3>1
    <3>4. CASE Front(states) = << >>
      BY <2>1, <3>3, <3>4, NothingAgrees
    <3>5. CASE Front(states) # << >>
      <4>1. Len(states) > 1
        <5>1. Len(Front(states)) # 0
          BY <3>2, <3>5, EmptySeq
        <5> QED BY <3>2, <5>1
      <4>2. EndsAt(Front(states), before) /\ Agrees(Front(states), before)
        BY <2>3, <4>1 DEF Current
      <4>3. \A r \in Seq(Ink) : (Len(r) = Len(before) => Shorter(r, 1) = Shorter(before, 1))
                                  => Agrees(Front(states), r)
        BY <3>1, <3>2, <3>5, <4>2, AgreesCut
      <4> QED BY <2>1, <3>1, <3>3, <4>3
    <3> QED BY <3>4, <3>5
  <2>4. CASE Outdated
    <3>1. PICK v \in 0..Len(states) - 1 : SilentFrom(states, v)
      BY <2>4 DEF Outdated
    <3>2. states # << >>
      <4>1. Len(states) \in Nat /\ Len(states) # 0
        BY <1>2, <3>1
      <4> QED BY <4>1
    <3>3. /\ Front(states) \in Seq(Entries) /\ Len(Front(states)) = Len(states) - 1
          /\ Len(states) \in Nat /\ (\A k \in 1..Len(Front(states)) : Front(states)[k] = states[k])
          /\ states' = Front(states)
      <4>1. states \in Seq(Entries) /\ states # << >> /\ states' = Front(states) /\ Len(states) \in Nat
        BY <1>2, <3>2
      <4> QED BY <4>1, FrontIs
    <3>4. v \in 0..Len(Front(states)) /\ SilentFrom(Front(states), v)
      <4> DEFINE h == Front(states)
      <4> HIDE DEF h
      <4>1. v \in 0..Len(h) /\ Len(h) \in Nat
        BY <3>3 DEF h
      <4>2. v > 0 => h[v].at = 0
        <5> SUFFICES ASSUME v > 0 PROVE h[v].at = 0
          OBVIOUS
        <5>1. v \in 1..Len(h)
          BY <4>1
        <5> QED BY <3>1, <3>3, <5>1 DEF SilentFrom, h
      <4>3. ASSUME NEW k \in DOMAIN h, k >= v PROVE Silent(h[k])
        <5>1. k \in 1..Len(h) /\ k \in DOMAIN states
          BY <3>3, <4>3 DEF h
        <5> QED BY <3>1, <3>3, <4>3, <5>1 DEF SilentFrom, h
      <4> QED BY <4>1, <4>2, <4>3 DEF SilentFrom, h
    <3>5. \A r \in Seq(Ink) : Agrees(Front(states), r)
      BY <3>3, <3>4, AgreesSilent
    <3>6. Landing' \in Seq(Ink)
      <4> DEFINE x == [back |-> UndoBackspaces, insert |-> << >>]
                 y == [back |-> 0, insert |-> record.trigger[1]]
      <4>1. x \in Orders /\ y \in Orders
        BY <1>8, UndoIs DEF TypingOK
      <4>2. out' = <<x, y>>
        BY <1>8 DEF TakeBackspace
      <4> HIDE DEF x, y
      <4>3. Lands(<<x, y>>, text) \in Seq(Ink)
        <5>1. <<x, y>> \in Seq(Orders) /\ Len(<<x, y>>) <= 2
          BY <4>1, OrdersAre
        <5> QED BY <1>2, <5>1, LandsIs
      <4> QED BY <1>2, <4>2, <4>3 DEF Landing
    <3> QED BY <2>1, <3>3, <3>5, <3>6
  <2> QED BY <2>2, <2>3, <2>4
<1> QED BY <1>7, <1>8

\* So does a body that is rendered and to be injected.
LEMMA RenderedFollowed ==
  ASSUME TypingOK, Paced, Followed, Rendered PROVE Followed'
<1>1. SUFFICES ASSUME calm, ~blind PROVE Followed'
  BY DEF Rendered, Followed
<1>2. /\ phase = "rendering" /\ phase' = "injecting" /\ chan' = chan /\ text' = text
      /\ Push(NextPaths(State, Virtual), 0) /\ text \in Seq(Ink) /\ JobOK
  BY DEF Rendered, TypingOK
<1>3. chan = << >>
  BY <1>1, <1>2 DEF Paced
<1>4. states # << >> /\ Last(states).paths = << >>
  BY <1>1, <1>2 DEF Followed, EndsAt
<1>5. PICK kept \in Seq(Entries), h \in Entries :
        Remains(kept) /\ Silent(h) /\ h.at = 0 /\ states' = Append(kept, h)
  BY <1>2, <1>4, VirtualSilent
<1>6. states' \in Seq(Entries) /\ Len(states') \in 0..Len(states') /\ SilentFrom(states', Len(states'))
  <2>1. states' \in Seq(Entries) /\ Len(states') \in Nat
    BY <1>5, AppendIs
  <2>2. SilentFrom(Append(kept, h), Len(Append(kept, h)))
    BY <1>5, SilentEnd
  <2> QED BY <1>5, <2>1, <2>2
<1>7. \A r \in Seq(Ink) : Agrees(states', r)
  BY <1>6, AgreesSilent
<1>8. Landing' \in Seq(Ink)
  <2> DEFINE body == Triggers[Picked].body \o job.right
             y == [back |-> 0, insert |-> body]
  <2>1. out' = <<Compensation, y>>
    BY DEF Rendered, Picked
  <2>2. Compensation \in Orders /\ y \in Orders
    BY <1>2, BodyIs, CompensationIs DEF Orders
  <2> HIDE DEF y
  <2>3. <<Compensation, y>> \in Seq(Orders) /\ Len(<<Compensation, y>>) <= 2
    BY <2>2, OrdersAre
  <2>4. Lands(<<Compensation, y>>, text) \in Seq(Ink)
    BY <1>2, <2>3, LandsIs
  <2> QED BY <1>2, <2>1, <2>4 DEF Landing
<1> QED BY <1>2, <1>3, <1>7, <1>8 DEF Followed

\* A text that goes on with one character, and loses it again.
LEMMA OneMoreIs ==
  ASSUME NEW r \in Seq(Ink), NEW e \in Seq(Ink), Len(e) = 1
  PROVE  r \o e \in Seq(Ink) /\ Len(r \o e) = Len(r) + 1 /\ Shorter(r \o e, 1) = r
<1>1. r \o e \in Seq(Ink) /\ Len(r \o e) = Len(r) + Len(e)
  BY ConcatProperties
<1>2. \A m \in Nat : m <= Len(e) => Shorter(r \o e, m) = r \o Shorter(e, m)
  BY ShorterOfBoth
<1>3. Shorter(r \o e, 1) = r \o Shorter(e, 1)
  BY <1>2
<1>4. Shorter(e, 1) = << >>
  <2>1. Shorter(e, 1) \in Seq(Ink) /\ Len(Shorter(e, 1)) = IF 1 > Len(e) THEN 0 ELSE Len(e) - 1
    BY ShorterIs
  <2>2. Len(Shorter(e, 1)) = 0
    BY <2>1
  <2> QED BY <2>1, <2>2, EmptySeq
<1>5. r \o << >> = r
  OBVIOUS
<1> QED BY <1>1, <1>3, <1>4, <1>5

\* A trigger that only goes, or whose place the word for an error takes: the history before
\* it agrees with what is left.
LEMMA NotRenderedFollowed ==
  ASSUME TypingOK, Paced, Followed, NEW aborted \in BOOLEAN, NotRendered(aborted) PROVE Followed'
<1>1. SUFFICES ASSUME calm, ~blind PROVE Followed'
  BY DEF NotRendered, Followed
<1>2. /\ phase = "rendering" /\ phase' = "injecting" /\ chan' = chan /\ text' = text
      /\ states' = states /\ out' = <<Compensation>> \o Said(aborted)
      /\ text \in Seq(Ink) /\ states \in Seq(Entries) /\ JobOK
  BY DEF NotRendered, TypingOK, HistoryOK
<1>3. chan = << >>
  BY <1>1, <1>2 DEF Paced
<1>4. states # << >> /\ EndsAt(states, text) /\ IsSuffix(job.trigger, text)
  BY <1>1, <1>2 DEF Followed
<1>5. Agrees(states, text)
  <2>1. out = << >>
    BY <1>2 DEF JobOK
  <2> QED BY <1>1, <1>3, <2>1 DEF Followed, Landing, Lands
<1> DEFINE o == Compensation
           n == o.back
           r == Shorter(text, n)
           e == <<"error">>
           y == [back |-> 0, insert |-> e]
<1>6. o \in Orders /\ o.insert = << >> /\ n \in Nat /\ n <= Len(text) /\ 0 < Len(text)
  <2>1. job.trigger \in Seq(Ink) /\ Len(job.left) \in Nat /\ Len(job.trigger) \in Nat
        /\ Len(job.left) <= Len(job.trigger)
    BY <1>2, InkIs DEF JobOK, JobTypes
  <2>2. Len(job.trigger) <= Len(text)
    BY <1>2, <1>4, <2>1, SuffixByPlace
  <2>3. n = Len(job.trigger) - Len(job.left)
    BY DEF Compensation
  <2>4. o \in Orders /\ o.insert = << >>
    BY <1>2, CompensationIs
  <2>5. 0 < Len(text)
    BY <1>4 DEF EndsAt
  <2> HIDE DEF n, o
  <2> QED BY <1>2, <2>1, <2>2, <2>3, <2>4, <2>5
<1>7. r \in Seq(Ink) /\ Len(r) = Len(text) - n /\ Len(text) \in Nat
  <2>1. Len(text) \in Nat
    BY <1>2
  <2> HIDE DEF n
  <2>2. /\ Shorter(text, n) \in Seq(Ink)
        /\ Len(Shorter(text, n)) = IF n > Len(text) THEN 0 ELSE Len(text) - n
    BY <1>2, <1>6, ShorterIs
  <2> QED BY <1>6, <2>1, <2>2
<1>8. e \in Seq(Ink) /\ Len(e) = 1 /\ y \in Orders
  BY InkIs DEF Orders
<1>9. Landing' = IF aborted THEN r ELSE r \o e
  <2>1. CASE aborted
    <3>1. out' = <<o>>
      BY <1>2, <1>6, <2>1 DEF Said
    <3>2. <<o>> # << >> /\ Len(<<o>>) = 1 /\ <<o>>[1] = o
      BY <1>6, OrdersAre
    <3>3. Apply(o, text) = r
      <4>1. r \o << >> = r
        BY <1>7
      <4> HIDE DEF r, o
      <4> QED BY <1>6, <4>1 DEF Apply, r, n
    <3> HIDE DEF o, r
    <3> QED BY <1>2, <2>1, <3>1, <3>2, <3>3 DEF Landing, Lands
  <2>2. CASE ~aborted
    <3>1. out' = <<o, y>>
      <4> HIDE DEF o
      <4>1. Said(aborted) = <<y>>
        BY <2>2 DEF Said
      <4> HIDE DEF y
      <4>2. out' = <<o>> \o <<y>>
        BY <1>2, <4>1 DEF o
      <4>3. <<o>> \o <<y>> = <<o, y>>
        BY <1>6, <1>8, OrdersAre
      <4> QED BY <4>2, <4>3
    <3>2. Lands(<<o, [back |-> 0, insert |-> e]>>, text) = Shorter(text, o.back) \o e
      <4> HIDE DEF e, o
      <4> QED BY <1>2, <1>6, <1>8, BodyLands
    <3> QED BY <1>2, <2>2, <3>1, <3>2 DEF Landing
  <2> QED BY <2>1, <2>2
<1> HIDE DEF o, n, r, e, y
<1>10. \A u \in Seq(Ink) : (Len(u) = Len(text) => Shorter(u, 1) = Shorter(text, 1)) => Agrees(states, u)
  BY <1>2, <1>4, <1>5, AgreesCut
<1>11. Agrees(states, r)
  <2>1. SUFFICES ASSUME Len(r) = Len(text) PROVE Shorter(r, 1) = Shorter(text, 1)
    BY <1>7, <1>10
  <2>2. n = 0
    BY <1>6, <1>7, <2>1
  <2>3. r = text
    BY <1>2, <2>2, ShorterByNone DEF r
  <2> QED BY <2>3
<1>12. Agrees(states, r \o e)
  <2>1. r \o e \in Seq(Ink) /\ Len(r \o e) = Len(r) + 1 /\ Shorter(r \o e, 1) = r
    <3>1. r \in Seq(Ink) /\ e \in Seq(Ink) /\ Len(e) = 1
      BY <1>7, <1>8
    <3> QED BY <3>1, OneMoreIs
  <2>2. SUFFICES ASSUME Len(r \o e) = Len(text) PROVE Shorter(r \o e, 1) = Shorter(text, 1)
    BY <1>10, <2>1
  <2>3. n = 1
    BY <1>6, <1>7, <2>1, <2>2
  <2> QED BY <2>1, <2>3 DEF r
<1>13. Agrees(states', Landing')
  BY <1>2, <1>9, <1>11, <1>12
<1> QED BY <1>2, <1>3, <1>13 DEF Followed

\* Where the text will be stays the same while the orders are carried out.
LEMMA InjectLands ==
  ASSUME TypingOK, Inject PROVE Landing' = Landing
<1>1. out \in Seq(Orders) /\ Len(out) <= 2 /\ out # << >> /\ text' = Apply(Head(out), text) /\ out' = Tail(out)
  BY DEF TypingOK, JobOK, Inject
<1>2. Lands(Tail(out), Apply(Head(out), text)) = Lands(out, text)
  BY <1>1, LandsOn
<1> QED BY <1>1, <1>2 DEF Landing

\* Every step of one who waits for the engine keeps the history to the text.
LEMMA FollowedStep == ASSUME TypingOK, Paced, Followed, Undoable, [TypingNext]_typingVars PROVE Followed'
<1>1. ASSUME UNCHANGED <<text, chan, states, phase, job, out, calm, blind, before>> PROVE Followed'
  BY <1>1 DEF Followed, Landing, Pressed
<1>2. ASSUME calm /\ ~blind => FALSE, calm' = calm, blind' = blind PROVE Followed'
  BY <1>2 DEF Followed
<1>3. CASE \E k \in Keys : Press(k)
  BY <1>3, PressFollowed
<1>4. CASE Toggle \/ UNCHANGED typingVars
  BY <1>1, <1>4 DEF Toggle, typingVars
<1>5. CASE Discard
  <2>1. calm' = calm /\ blind' = blind
    BY <1>5 DEF Discard
  <2>2. calm => FALSE
    <3> SUFFICES ASSUME calm PROVE FALSE
      OBVIOUS
    <3>1. Key = chan[1] /\ Key.id \in Nat /\ 1 \in DOMAIN chan
      BY <1>5, KeyIs DEF Discard, Receive, TypingOK
    <3>2. max <= Key.id /\ max \in Nat
      BY <3>1 DEF Paced, TypingOK, QueueOK
    <3>3. Key.id < max
      BY <1>5 DEF Discard, Stale
    <3> HIDE DEF Key
    <3> QED BY <3>1, <3>2, <3>3
  <2> QED BY <1>2, <2>1, <2>2
<1>6. CASE Ignore
  BY <1>6 DEF Ignore, Followed
<1>7. CASE TakeBackspace
  BY <1>7, BackspaceFollowed
<1>8. CASE TakeMove
  <2>1. SUFFICES ASSUME calm PROVE Followed'
    BY <1>8 DEF TakeMove, Followed
  <2>2. states' = << >> /\ chan' = Tail(chan) /\ chan # << >> /\ phase' = phase /\ phase = "idle"
    BY <1>8 DEF TakeMove, Taken, Receive
  <2>3. chan' = << >>
    BY <2>1, <2>2, OneKey DEF TypingOK
  <2> QED BY <2>2, <2>3, NothingAgrees DEF Followed
<1>9. CASE TakeLetter
  BY <1>9, LetterFollowed
<1>10. ASSUME NEW i \in Ids, Choose(i) PROVE Followed'
  <2>1. /\ UNCHANGED <<text, chan, states, out, calm, blind, before>> /\ phase = "choosing"
        /\ phase' = "rendering" /\ job' = [job EXCEPT !.ids = {i}]
    BY <1>10 DEF Choose
  <2>2. job'.trigger = job.trigger /\ job'.undo = job.undo
    BY <2>1 DEF TypingOK, JobOK, JobTypes
  <2> QED BY <2>1, <2>2 DEF Followed, Landing, Pressed
<1>11. CASE CancelChoice
  <2>1. /\ UNCHANGED <<text, chan, states, job, out, calm, blind, before>> /\ phase' = "idle"
    BY <1>11 DEF CancelChoice
  <2> QED BY <2>1 DEF Followed, Landing, Pressed
<1>12. CASE Rendered
  BY <1>12, RenderedFollowed
<1>13. CASE \E aborted \in BOOLEAN : NotRendered(aborted)
  BY <1>13, NotRenderedFollowed
<1>14. CASE Inject
  <2>1. SUFFICES ASSUME calm, ~blind PROVE Followed'
    BY <1>14 DEF Inject, Followed
  <2>2. /\ UNCHANGED <<chan, states>> /\ phase = "injecting" /\ phase' \in {"idle", "injecting"}
    BY <1>14 DEF Inject
  <2>3. chan = << >>
    BY <2>1, <2>2 DEF Paced
  <2>4. Agrees(states, Landing)
    BY <2>1, <2>3 DEF Followed
  <2>5. Landing' = Landing
    BY <1>14, InjectLands
  <2> QED BY <2>2, <2>3, <2>4, <2>5 DEF Followed
<1> QED BY <1>3, <1>4, <1>5, <1>6, <1>7, <1>8, <1>9, <1>10, <1>11, <1>12, <1>13, <1>14 DEF TypingNext

(***************************************************************************)
(* What a backspace would undo.                                            *)
(***************************************************************************)
\* The body of an expansion takes the place of its trigger: the record is of this trigger.
LEMMA RenderedUndoable ==
  ASSUME TypingOK, Paced, Followed, Rendered PROVE Undoable'
<1>1. SUFFICES ASSUME calm, ~blind PROVE Current'
  BY DEF Rendered, Undoable
<1> DEFINE body == Triggers[Picked].body \o job.right
           y == [back |-> 0, insert |-> body]
<1>2. /\ phase = "rendering" /\ phase' = "injecting" /\ chan' = chan /\ text' = text
      /\ Push(NextPaths(State, Virtual), 0) /\ job' = job /\ before' = before
      /\ out' = <<Compensation, y>> /\ record' = [trigger |-> <<job.trigger>>, injected |-> <<body>>]
  BY DEF Rendered, Picked
<1>3. text \in Seq(Ink) /\ states \in Seq(Entries) /\ JobOK
  BY DEF TypingOK, HistoryOK
<1>4. chan = << >> /\ out = << >>
  BY <1>1, <1>2, <1>3 DEF Paced, JobOK
<1>5. /\ states # << >> /\ EndsAt(states, text) /\ before = text /\ IsSuffix(job.trigger, text)
      /\ ~job.undo
  BY <1>1, <1>2 DEF Followed
<1>6. Agrees(states, text)
  BY <1>1, <1>4 DEF Followed, Landing, Lands
<1>7. PICK kept \in Seq(Entries), h \in Entries :
        Remains(kept) /\ Silent(h) /\ h.at = 0 /\ states' = Append(kept, h)
  BY <1>2, <1>5, VirtualSilent DEF EndsAt
<1>8. /\ states' # << >> /\ SilentFrom(states', Len(states')) /\ Front(states') = kept
      /\ Len(states') = Len(kept) + 1 /\ Len(kept) \in Nat
  <2>1. SilentFrom(Append(kept, h), Len(Append(kept, h)))
    BY <1>7, SilentEnd
  <2>2. /\ Append(kept, h) # << >> /\ Front(Append(kept, h)) = kept
        /\ Len(Append(kept, h)) = Len(kept) + 1
    BY <1>7, AppendIs
  <2> QED BY <1>7, <2>1, <2>2
<1>9. Agrees(kept, before)
  BY <1>3, <1>5, <1>6, <1>7, RemainsAgrees
<1>10. Len(states') > 1 => EndsAt(kept, before)
  <2> SUFFICES ASSUME Len(states') > 1 PROVE EndsAt(kept, before)
    OBVIOUS
  <2>1. Last(kept) = Last(states)
    <3>1. CASE kept = states
      BY <3>1
    <3>2. CASE kept = Tail(states)
      <4>1. /\ Len(kept) = Len(states) - 1 /\ Len(states) \in Nat /\ Len(states) > 0
            /\ \A k \in 1..Len(kept) : kept[k] = states[k + 1]
        BY <1>3, <1>5, <3>2, TailIs
      <4>2. Len(kept) \in 1..Len(kept) /\ Len(kept) + 1 = Len(states)
        BY <1>8, <4>1
      <4>3. kept[Len(kept)] = states[Len(states)]
        BY <4>1, <4>2
      <4> QED BY <4>3 DEF Last
    <3> QED BY <1>7, <3>1, <3>2 DEF Remains
  <2> QED BY <1>5, <2>1 DEF EndsAt
<1>11. record'.trigger[1] = job.trigger /\ record'.injected[1] = body
  <2> HIDE DEF body
  <2>1. record'.trigger = <<job.trigger>> /\ record'.injected = <<body>>
    BY <1>2
  <2> QED BY <2>1
<1>12. Landing' = Expanded'
  <2>1. Compensation \in Orders /\ Compensation.insert = << >> /\ body \in Seq(Ink)
        /\ Compensation.back = Len(job.trigger) - Len(job.left)
    <3>1. Compensation.back = Len(job.trigger) - Len(job.left)
      BY DEF Compensation
    <3> QED BY <1>2, <1>3, <3>1, BodyIs, CompensationIs
  <2>2. Lands(<<Compensation, [back |-> 0, insert |-> body]>>, text) = Shorter(text, Compensation.back) \o body
    <3> HIDE DEF body
    <3> QED BY <1>3, <2>1, BodyLands
  <2>3. Landing' = Shorter(text, Len(job.trigger) - Len(job.left)) \o body
    BY <1>2, <2>1, <2>2 DEF Landing
  <2> HIDE DEF body
  <2> QED BY <1>2, <1>5, <1>11, <2>3 DEF Expanded, Compensated
<1> QED BY <1>2, <1>4, <1>5, <1>8, <1>9, <1>10, <1>11, <1>12 DEF Current

\* A trigger that is detected after an expansion: the record is of the earlier one.
LEMMA LetterUndoable ==
  ASSUME TypingOK, Paced, Followed, Undoable, TakeLetter PROVE Undoable'
<1>1. SUFFICES ASSUME calm, ~blind, record'.injected # << >> PROVE Outdated'
  BY DEF TakeLetter, Undoable
<1> DEFINE e == Key.key
           paths == NextPaths(State, e)
           h == [paths |-> AfterEvent(paths), at |-> Key.at + 1]
<1>2. Complete(paths) # {}
  <2>1. NoRecord.injected = << >>
    BY DEF NoRecord
  <2> QED BY <1>1, <2>1 DEF TakeLetter
<1>3. record' = record /\ phase' \in {"rendering", "choosing"}
  BY <1>2 DEF TakeLetter
<1>4. PICK v \in 0..Len(states) : SilentFrom(states, v)
  <2>1. Current \/ Outdated
    BY <1>1, <1>3 DEF Undoable
  <2>2. Len(states) \in Nat
    BY DEF TypingOK, HistoryOK
  <2>3. CASE Current
    BY <2>2, <2>3 DEF Current
  <2>4. CASE Outdated
    <3>1. PICK v \in 0..Len(states) - 1 : SilentFrom(states, v)
      BY <2>4 DEF Outdated
    <3>2. v \in 0..Len(states)
      BY <2>2, <3>1
    <3> QED BY <3>1, <3>2
  <2> QED BY <2>1, <2>3, <2>4
<1>5. HistoryOK /\ states \in Seq(Entries) /\ e \in Events /\ Push(paths, Key.at + 1) /\ Key.at + 1 \in Nat
  BY InkIs, KeyIs DEF TypingOK, HistoryOK, TakeLetter, Taken, Receive
<1>6. paths \in Seq(Paths) /\ \A p \in Range(paths) : Proper(p)
  BY <1>5, OnwardIs
<1>7. PICK kept \in Seq(Entries) : Remains(kept) /\ h \in Entries /\ states' = Append(kept, h)
  <2> HIDE DEF paths
  <2> QED BY <1>5, <1>6, PushIs DEF paths
<1>8. Silent(h)
  <2>1. h.paths = << >>
    BY <1>2 DEF AfterEvent
  <2> HIDE DEF h
  <2> QED BY <2>1 DEF Silent, Range
<1> HIDE DEF h
<1>9. \E w \in 0..Len(states') - 1 : SilentFrom(states', w)
  BY <1>4, <1>5, <1>7, <1>8, SilentPush DEF Remains
<1> QED BY <1>3, <1>9 DEF Outdated

\* Every step keeps the undo record current, or outdated by keys that the history shows.
LEMMA UndoableStep == ASSUME TypingOK, Paced, Followed, Undoable, Chosen, [TypingNext]_typingVars PROVE Undoable'
<1>1. ASSUME UNCHANGED <<text, chan, states, record, phase, job, out, calm, blind, before>>
      PROVE  Undoable'
  BY <1>1 DEF Undoable, Current, Outdated, Landing, Expanded, Compensated
<1>2. ASSUME record'.injected = << >> PROVE Undoable'
  BY <1>2 DEF Undoable
<1>3. NoRecord.injected = << >>
  BY DEF NoRecord
<1>4. ASSUME NEW k \in Keys, Press(k) PROVE Undoable'
  <2>1. SUFFICES ASSUME calm, ~blind, record.injected # << >> PROVE Current' \/ Outdated'
    BY <1>4 DEF Press, Undoable
  <2>2. /\ UNCHANGED <<states, record, phase, job, out, before>> /\ phase = "idle" /\ chan = << >>
        /\ text' = IF k = Backspace THEN Shorter(text, 1) ELSE IF k = Move THEN << >> ELSE Append(text, k)
        /\ out = << >>
    BY <1>4, <2>1 DEF Press, AtRest, TypingOK, JobOK
  <2>3. chan' # << >> /\ chan'[1].key = k
    <3> DEFINE m == [key |-> k, id |-> nextId, at |-> Len(text),
                     choice |-> IF phase = "choosing" THEN job.start ELSE 0]
    <3>1. chan' = Append(<< >>, m)
      BY <1>4, <2>2 DEF Press
    <3>2. m.key = k
      OBVIOUS
    <3> HIDE DEF m
    <3>3. chan' = <<m>>
      BY <3>1
    <3>4. chan' # << >> /\ chan'[1] = m
      BY <3>3
    <3> QED BY <3>2, <3>4
  <2>4. CASE Current
    <3>1. text = Expanded
      BY <2>2, <2>4 DEF Current, Landing, Lands
    <3>2. Expanded' = Expanded
      BY <2>2 DEF Expanded, Compensated
    <3>3. k = Backspace => text' = Shorter(Expanded', 1)
      BY <2>2, <3>1, <3>2
    <3> QED BY <2>2, <2>3, <2>4, <3>3 DEF Current
  <2>5. CASE Outdated
    BY <2>2, <2>5 DEF Outdated
  <2> QED BY <2>1, <2>4, <2>5 DEF Undoable
<1>5. CASE Toggle \/ UNCHANGED typingVars
  BY <1>1, <1>5 DEF Toggle, typingVars
<1>6. CASE Discard
  <2>1. UNCHANGED <<states, record, phase, job, out, text, calm, blind, before>>
    BY <1>6 DEF Discard
  <2>2. calm => FALSE
    <3> SUFFICES ASSUME calm PROVE FALSE
      OBVIOUS
    <3>1. Key = chan[1] /\ Key.id \in Nat /\ 1 \in DOMAIN chan
      BY <1>6, KeyIs DEF Discard, Receive, TypingOK
    <3>2. max <= Key.id /\ max \in Nat
      BY <3>1 DEF Paced, TypingOK, QueueOK
    <3>3. Key.id < max
      BY <1>6 DEF Discard, Stale
    <3> HIDE DEF Key
    <3> QED BY <3>1, <3>2, <3>3
  <2> QED BY <2>1, <2>2 DEF Undoable
<1>7. CASE Ignore
  BY <1>7 DEF Ignore, Undoable
<1>8. CASE TakeBackspace \/ TakeMove
  BY <1>2, <1>3, <1>8 DEF TakeBackspace, TakeMove
<1>9. CASE TakeLetter
  BY <1>9, LetterUndoable
<1>10. ASSUME NEW i \in Ids, Choose(i) PROVE Undoable'
  <2>1. UNCHANGED <<states, record, calm, blind>> /\ phase = "choosing" /\ phase' = "rendering"
    BY <1>10 DEF Choose
  <2> QED BY <2>1 DEF Undoable, Current, Outdated
<1>11. CASE CancelChoice
  <2>1. UNCHANGED <<states, record, calm, blind, job>> /\ phase = "choosing" /\ phase' = "idle"
    BY <1>11 DEF CancelChoice
  <2> QED BY <2>1 DEF Undoable, Current, Outdated, Chosen
<1>12. CASE Rendered
  BY <1>12, RenderedUndoable
<1>13. CASE \E aborted \in BOOLEAN : NotRendered(aborted)
  <2>1. record'.injected = << >>
    BY <1>13 DEF NotRendered
  <2> QED BY <1>2, <2>1
<1>14. CASE Inject
  <2>1. SUFFICES ASSUME calm, ~blind, record.injected # << >> PROVE Current'
    BY <1>14 DEF Inject, Undoable
  <2>2. /\ UNCHANGED <<chan, states, record, job, before>> /\ phase = "injecting"
        /\ phase' \in {"idle", "injecting"}
    BY <1>14 DEF Inject
  <2>3. Current
    BY <2>1, <2>2 DEF Undoable, Outdated
  <2>4. chan = << >>
    BY <2>1, <2>2 DEF Paced
  <2>5. Landing' = Landing /\ Expanded' = Expanded
    BY <1>14, <2>2, InjectLands DEF Expanded, Compensated
  <2> QED BY <2>2, <2>3, <2>4, <2>5 DEF Current
<1> QED BY <1>4, <1>5, <1>6, <1>7, <1>8, <1>9, <1>10, <1>11, <1>12, <1>13, <1>14 DEF TypingNext

\* A backspace that undoes restores what stood before the expansion.
LEMMA RestoresStep ==
  ASSUME TypingOK, Paced, Followed, Undoable, UndoRestores, [TypingNext]_typingVars PROVE UndoRestores'
<1>1. ASSUME phase' # "injecting" PROVE UndoRestores'
  BY <1>1 DEF UndoRestores
<1>2. CASE TakeBackspace
  <2>1. SUFFICES ASSUME calm', ~blind', phase' = "injecting", job'.left = << >>, Cardinality(job'.ids) = 1
                 PROVE  Outcome(text)' = before'
    BY DEF UndoRestores
  <2>2. chan # << >> /\ phase = "idle" /\ chan[1].key = Backspace /\ calm' = calm /\ before' = before
        /\ text' = text
    BY <1>2, KeyIs DEF TakeBackspace, Taken, Receive, TypingOK
  <2>3. record.injected # << >>
    BY <1>2, <2>1, <2>2 DEF TakeBackspace
  <2>4. ~blind /\ job' = [job EXCEPT !.undo = TRUE]
    BY <1>2, <2>1, <2>3 DEF TakeBackspace
  <2>5. job'.ids = job.ids /\ job'.left = job.left
    BY <2>4 DEF TypingOK, JobOK, JobTypes
  <2>6. Current
    BY <2>1, <2>2, <2>3, <2>4, <2>5 DEF Undoable, Outdated
  <2>7. Landing' = Apply(out'[2], Apply(out'[1], text)) /\ Landing' = before
    BY <1>2, <2>1, <2>2, <2>3, <2>5, <2>6, UndoneIs
  <2> QED BY <2>2, <2>7 DEF Outcome
<1>3. ASSUME calm' = calm, blind' = blind, phase = "rendering", job' = job PROVE UndoRestores'
  <2>1. calm /\ ~blind => ~job.undo
    BY <1>3 DEF Followed
  <2> QED BY <1>3, <2>1 DEF UndoRestores
<1>4. CASE Rendered
  BY <1>3, <1>4 DEF Rendered
<1>5. CASE \E aborted \in BOOLEAN : NotRendered(aborted)
  BY <1>3, <1>5 DEF NotRendered
<1>6. CASE Inject
  <2>1. Len(out) \in Nat /\ Len(out) <= 2 /\ out # << >> /\ out' = Tail(out) /\ out \in Seq(Orders)
    BY <1>6 DEF Inject, TypingOK, JobOK
  <2>2. Len(out') # 2
    <3>1. Len(out') = Len(out) - 1
      BY <2>1, TailIs
    <3>2. PICK n \in Nat : n = Len(out)
      BY <2>1
    <3>3. n <= 2
      BY <2>1, <3>2
    <3>4. n - 1 # 2
      BY <3>3
    <3> QED BY <3>1, <3>2, <3>4
  <2> QED BY <2>2 DEF UndoRestores
<1>7. CASE \E k \in Keys : Press(k)
  <2>1. calm' = calm /\ phase' = phase /\ (calm => phase = "idle")
    BY <1>7 DEF Press, AtRest
  <2> QED BY <2>1 DEF UndoRestores
<1>8. CASE Toggle \/ Discard \/ Ignore \/ TakeMove
  BY <1>1, <1>8 DEF Toggle, Discard, Ignore, TakeMove, Taken, Receive
<1>9. CASE TakeLetter
  BY <1>1, <1>9 DEF TakeLetter, Taken, Receive
<1>10. CASE (\E i \in Ids : Choose(i)) \/ CancelChoice
  BY <1>1, <1>10 DEF Choose, CancelChoice
<1>11. CASE UNCHANGED typingVars
  BY <1>11 DEF typingVars, UndoRestores, Outcome
<1> QED BY <1>2, <1>4, <1>5, <1>6, <1>7, <1>8, <1>9, <1>10, <1>11 DEF TypingNext

(***************************************************************************)
(* The theorems.                                                           *)
(***************************************************************************)
LEMMA TypingFirst == ASSUME TypingInit PROVE TypingInv
<1>1. TypingOK
  BY TypingStarts
<1>2. /\ states = << >> /\ chan = << >> /\ phase = "idle" /\ record = NoRecord /\ out = << >>
  BY DEF TypingInit
<1>3. ChoiceKeys /\ Paced /\ Chosen
  BY <1>2 DEF ChoiceKeys, Paced, Chosen
<1>4. Followed
  BY <1>2, NothingAgrees DEF Followed
<1>5. Undoable
  BY <1>2 DEF Undoable, NoRecord
<1>6. UndoRestores
  BY <1>2 DEF UndoRestores
<1> QED BY <1>1, <1>3, <1>4, <1>5, <1>6 DEF TypingInv

\* The invariant holds of every run of the engine.
LEMMA TypingKept == TypingSpec => []TypingInv
<1>1. TypingInit => TypingInv
  BY TypingFirst
<1>2. TypingInv /\ [TypingNext]_typingVars => TypingInv'
  BY TypingStep, ChoiceKeysStep, PacedStep, FollowedStep, UndoableStep, ChosenStep, RestoresStep
     DEF TypingInv
<1> QED BY <1>1, <1>2, PTL DEF TypingSpec

\* What the matcher believes to have been typed stands before the caret, and so does the
\* trigger that is about to be deleted.
LEMMA TypingBelieves == ASSUME TypingInv PROVE Believes
<1>1. SUFFICES ASSUME calm, ~blind PROVE Believes
  BY DEF Believes
<1>2. /\ states \in Seq(Entries) /\ text \in Seq(Ink) /\ Followed /\ (phase = "injecting" <=> out # << >>)
  BY DEF TypingInv, TypingOK, HistoryOK, JobOK
<1>3. ASSUME AtRest, states # << >> PROVE \A p \in Range(State) : IsSuffix(p.typed, text)
  <2>1. chan = << >> /\ out = << >>
    BY <1>2, <1>3 DEF AtRest
  <2>2. Agrees(states, text)
    BY <1>1, <1>2, <2>1 DEF Followed, Landing, Lands
  <2>3. State = Last(states).paths
    BY <1>3 DEF State
  <2> QED BY <1>2, <1>3, <2>2, <2>3, LastAgrees
<1>4. phase \in {"choosing", "rendering"} => IsSuffix(job.trigger, text)
  BY <1>1, <1>2 DEF Followed
<1> QED BY <1>3, <1>4 DEF Believes

\* The inductive invariant gives the invariant of the runs.
LEMMA SoundFromInv == ASSUME TypingInv PROVE TypingSound
<1>1. TypingOK /\ Believes
  BY TypingBelieves DEF TypingInv
<1>2. text \in Seq(Ink)
  BY <1>1 DEF TypingOK
<1>3. /\ \A k \in DOMAIN chan : chan[k].key \in Keys /\ chan[k].id < nextId
      /\ \A j, k \in DOMAIN chan : j < k => chan[j].id < chan[k].id
      /\ min <= nextId /\ max <= nextId /\ barrier <= nextId
  <2>1. \A k \in DOMAIN chan : chan[k] \in Messages
    BY <1>1 DEF TypingOK, QueueOK
  <2>2. \A k \in DOMAIN chan : chan[k].key \in Keys
    BY <2>1 DEF Messages
  <2> QED BY <1>1, <2>2 DEF TypingOK, QueueOK
<1>4. /\ Len(states) <= MaxHistory
      /\ \A k \in DOMAIN states : \A p \in Range(states[k].paths) :
           Has(p.node) /\ MatchesAt(p.node) = {}
  <2>1. \A k \in DOMAIN states : states[k] \in Entries
    BY <1>1 DEF TypingOK, HistoryOK
  <2>2. \A k \in DOMAIN states : states[k].paths \in Heard
    BY <2>1 DEF Entries
  <2>3. \A k \in DOMAIN states : \A p \in Range(states[k].paths) : Proper(p) /\ MatchesAt(p.node) = {}
    BY <2>2 DEF Heard
  <2> QED BY <1>1, <2>3 DEF TypingOK, HistoryOK, Proper
<1>5. /\ phase \in {"idle", "choosing", "rendering", "injecting"}
      /\ job.ids \subseteq Ids /\ (phase = "injecting" <=> out # << >>)
  BY <1>1 DEF TypingOK, JobOK, JobTypes, Phases
<1> QED BY <1>1, <1>2, <1>3, <1>4, <1>5 DEF TypingSound

\* The engine with its renderer does nothing to the text, the keys and the matcher but what
\* the engine does whose renderings may come to anything (render.rs; default.rs).
LEMMA LoopTypes == LoopSpec => TypingSpec
<1>1. LoopInit => TypingInit
  BY DEF LoopInit
<1>2. [LoopNext]_loopVars => [TypingNext]_typingVars
  <2>1. NotRendering => TypingNext
    BY DEF NotRendering, TypingNext
  <2>2. Answer => TypingNext
    BY DEF Answer, TypingNext
  <2>3. AskRenderer \/ Render => UNCHANGED typingVars
    BY DEF AskRenderer, Render
  <2>4. UNCHANGED loopVars => UNCHANGED typingVars
    BY DEF loopVars
  <2> QED BY <2>1, <2>2, <2>3, <2>4 DEF LoopNext
<1> QED BY <1>1, <1>2, PTL DEF LoopSpec, TypingSpec

\* Whatever is typed and whenever, the engine's queue, history and thresholds keep to what
\* they should; and as long as the user waits for it and nothing deletes behind its back,
\* what the matcher believes stands before the caret, and the trigger that an expansion is
\* about to delete: for any triggers, separators and length of the history.
THEOREM TypingIsSound == LoopSpec => []TypingSound
<1>1. TypingInv => TypingSound
  BY SoundFromInv
<1> QED BY <1>1, TypingKept, LoopTypes, PTL

\* Undoing an expansion gives the text back as it was when the trigger was complete, for any
\* triggers, bodies and length of the history, and whatever was typed before it (undo.rs,
\* action.rs).
THEOREM UndoIsExact == LoopSpec => []UndoRestores
<1>1. TypingInv => UndoRestores
  BY DEF TypingInv
<1> QED BY <1>1, TypingKept, LoopTypes, PTL

\* What is typed into the window of a choice never reaches the matcher, but for what was
\* typed into an earlier one, with another open before it was received (match_select.rs,
\* discard.rs): for a user who waits and for one who does not.
THEOREM ChoiceKeysAreDropped == LoopSpec => ChoiceKeysDropped
<1>1. ASSUME TypingInv, TakeLetter PROVE Key.choice = 0 \/ Key.choice < min
  <2>1. phase = "idle" /\ chan # << >> /\ ~Stale(Key) /\ QueueOK /\ ChoiceKeys
    BY <1>1 DEF TakeLetter, Taken, Receive, TypingInv, TypingOK
  <2>2. Key = chan[1] /\ 1 \in DOMAIN chan
    BY <2>1, KeyIs
  <2> QED BY <2>1, <2>2 DEF ChoiceKeys, Stale
<1>2. TypingInv /\ [TypingNext]_typingVars => [TakeLetter => Key.choice = 0 \/ Key.choice < min]_typingVars
  BY <1>1
<1> QED BY <1>2, TypingKept, LoopTypes, PTL DEF ChoiceKeysDropped, TypingSpec
=============================================================================
