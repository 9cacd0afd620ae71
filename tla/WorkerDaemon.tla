---------------------------- MODULE WorkerDaemon ----------------------------
(***************************************************************************)
(* The engine's own two processes (espanso/src/cli): a daemon that watches *)
(* the configuration and the keyboard layout, and a worker that detects    *)
(* keystrokes.  The daemon spawns the worker, restarts it, and hears of    *)
(* its exit from one monitor thread per child; the worker watches the      *)
(* daemon's lock and leaves when it is free.  A lock file each keeps the   *)
(* instances single; the processes talk by IPC, which reaches only a       *)
(* worker that listens already.                                            *)
(***************************************************************************)
EXTENDS Integers, Sequences, FiniteSets

CONSTANTS
  MaxRespawns,  \* MAX_WORKER_RESPAWNS
  Versions,     \* what the files of the configuration may say
  Unread,       \* of a worker that has not read them
  MaxActs,      \* bound: things done to the processes from outside
  MaxWorkers    \* bound: worker processes at one time

ASSUME DaemonConstants ==
  MaxRespawns \in Nat /\ MaxActs \in Nat /\ MaxWorkers \in Nat /\ Unread \notin Versions

Workers == 1..MaxWorkers
ExitModes == {"exit", "all", "restart"}

VARIABLES
  daemon,     \* where the main thread of the daemon stands
  verdict,    \* how it ended
  mine,       \* its children whose monitor thread has not reported their exit
  exits,      \* exit_signal
  expected,   \* WORKER_EXIT_EXPECTED
  respawns,   \* worker_respawns
  changed,    \* has_received_event of the debouncer
  signals,    \* watcher_signal
  nudges,     \* keyboard_layout_watcher_signal; a grant of Accessibility acts alike
  version, broken,            \* the configuration, and whether loading it is fatal
  stage, loaded, busy, mail, code, watching,   \* the workers
  probe,      \* the worker whose daemon monitor holds the daemon's lock, or 0
  acts, strikes,
  raced       \* whether two causes met in a way that the code leaves to timing

conf == <<version, broken>>
chans == <<changed, signals, nudges>>
books == <<acts, strikes>>
procs == <<stage, loaded, busy, mail, code, watching>>
vars == <<daemon, verdict, mine, exits, expected, respawns, chans, conf, procs, probe, books, raced>>

TypeOK ==
  /\ daemon \in {"begin", "load", "stuck", "clear", "purge", "loop", "wait", "gone"}
  /\ verdict \in {"none", "success", "general", "config", "running", "panic", "code"}
  /\ mine \subseteq Workers /\ watching \subseteq Workers
  /\ exits \in Seq({"success", "all", "restart", "unexpected", "nocode", "already", "panic"})
  /\ expected \in BOOLEAN /\ changed \in BOOLEAN /\ broken \in BOOLEAN /\ raced \in BOOLEAN
  /\ respawns \in Nat /\ signals \in Nat /\ nudges \in Nat /\ version \in Versions
  /\ acts \in Nat /\ strikes \in Nat
  /\ stage \in [Workers -> {"none", "loading", "locked", "ready", "ended"}]
  /\ loaded \in [Workers -> Versions \cup {Unread}]
  /\ busy \in [Workers -> BOOLEAN]
  /\ mail \in [Workers -> SUBSET ExitModes]
  /\ code \in [Workers -> {"none", "success", "all", "restart", "nocode", "already", "panic"}]
  /\ probe \in Workers \cup {0}

Init ==
  /\ daemon = "begin" /\ verdict = "none"
  /\ mine = {} /\ exits = << >> /\ expected = FALSE /\ respawns = 0
  /\ changed = FALSE /\ signals = 0 /\ nudges = 0
  /\ version \in Versions /\ broken \in BOOLEAN
  /\ stage = [w \in Workers |-> "none"]
  /\ loaded = [w \in Workers |-> Unread]
  /\ busy = [w \in Workers |-> FALSE]
  /\ mail = [w \in Workers |-> {}]
  /\ code = [w \in Workers |-> "none"]
  /\ watching = {} /\ probe = 0
  /\ acts = 0 /\ strikes = 0 /\ raced = FALSE

Live == {w \in Workers : stage[w] \in {"loading", "locked", "ready"}}
Holders == {w \in Workers : stage[w] \in {"locked", "ready"}}

\* The lock is not free by the end of a wait: its holder was not told, or it is busy with a
\* form.  One that was told and is idle is gone well before.
TooSlow == \E w \in Holders : mail[w] = {} \/ busy[w]

\* A restart finds what it was written for: one child, which listens and was told nothing.
Steady == exits = << >> /\ \E w \in Workers : mine = {w} /\ Live = {w} /\ stage[w] = "ready" /\ mail[w] = {}

-----------------------------------------------------------------------------
(***************************************************************************)
(* The daemon                                                              *)
(***************************************************************************)

\* spawn_worker.  The number of a worker that is over, and whose exit was heard of if it had a
\* parent, is given again.
Over(w) == stage[w] \in {"none", "ended"} /\ w \notin mine
Spawn ==
  \E w \in Workers :
    /\ Over(w) /\ \A v \in Workers : v < w => ~Over(v)
    /\ stage' = [stage EXCEPT ![w] = "loading"]
    /\ loaded' = [loaded EXCEPT ![w] = Unread] /\ code' = [code EXCEPT ![w] = "none"]
    /\ mine' = mine \cup {w}

\* The process ends, its monitor threads and its channels with it.
EndDaemon(v) ==
  /\ daemon' = "gone" /\ verdict' = v
  /\ mine' = {} /\ exits' = << >> /\ expected' = FALSE /\ respawns' = 0
  /\ changed' = FALSE /\ signals' = 0 /\ nudges' = 0

\* What IPC delivers to the worker, if one listens.
Tell(m) == mail' = [w \in Workers |-> IF stage[w] = "ready" THEN mail[w] \cup {m} ELSE mail[w]]

Begin ==
  /\ daemon = "begin"
  /\ IF probe = 0
       THEN daemon' = "load" /\ UNCHANGED <<verdict, mine, exits, expected, respawns, chans>>
       ELSE EndDaemon("running")
  /\ UNCHANGED <<conf, procs, probe, books, raced>>

LoadConfig ==
  /\ daemon = "load"
  /\ daemon' = IF broken THEN "stuck" ELSE "clear"
  /\ UNCHANGED <<verdict, mine, exits, expected, respawns, chans, conf, procs, probe, books, raced>>

\* load_config_or_troubleshoot_until_config_is_correct_or_abort
Reload ==
  /\ daemon = "stuck" /\ signals > 0
  /\ daemon' = "load" /\ signals' = signals - 1
  /\ UNCHANGED <<verdict, mine, exits, expected, respawns, changed, nudges, conf, procs, probe, books, raced>>

Abort ==
  /\ daemon = "stuck" /\ EndDaemon("config")
  /\ UNCHANGED <<conf, procs, probe, books, raced>>

\* terminate_worker_if_already_running
ClearFree ==
  /\ daemon \in {"clear", "purge"} /\ Holders = {}
  /\ Spawn /\ daemon' = "loop" /\ raced' = (raced \/ Live # {})
  /\ UNCHANGED <<verdict, exits, expected, respawns, chans, conf, busy, mail, watching, probe, books>>

ClearTell ==
  /\ daemon = "clear" /\ Holders # {}
  /\ Tell("exit") /\ daemon' = "purge"
  /\ UNCHANGED <<verdict, mine, exits, expected, respawns, chans, conf, stage, loaded, busy, code, watching, probe, books, raced>>

PurgeOver ==
  /\ daemon = "purge" /\ TooSlow /\ EndDaemon("panic")
  /\ UNCHANGED <<conf, procs, probe, books, raced>>

\* restart_worker, up to its wait
\* Mutant: the exit to come is not marked as expected.
RestartUnmarked ==
  /\ Tell("exit") /\ daemon' = "wait"
  /\ raced' = (raced \/ ~Steady)
  /\ UNCHANGED <<expected, stage, loaded, busy, code, watching>>
Restart ==
  /\ expected' = TRUE /\ Tell("exit") /\ daemon' = "wait"
  /\ raced' = (raced \/ ~Steady)
  /\ UNCHANGED <<stage, loaded, busy, code, watching>>

\* The configuration is checked before the worker is restarted.
\* Mutant: a change is taken for part of the restart before it.
OnConfigSignalOnce ==
  /\ daemon = "loop" /\ signals > 0
  /\ signals' = signals - 1
  /\ IF broken \/ expected THEN UNCHANGED <<daemon, expected, procs, raced>> ELSE Restart
  /\ UNCHANGED <<verdict, mine, exits, respawns, changed, nudges, conf, probe, books>>
OnConfigSignal ==
  /\ daemon = "loop" /\ signals > 0
  /\ signals' = signals - 1
  /\ IF broken THEN UNCHANGED <<daemon, expected, procs, raced>> ELSE Restart
  /\ UNCHANGED <<verdict, mine, exits, respawns, changed, nudges, conf, probe, books>>

OnNudge ==
  /\ daemon = "loop" /\ nudges > 0
  /\ nudges' = nudges - 1 /\ Restart
  /\ UNCHANGED <<verdict, mine, exits, respawns, changed, signals, conf, probe, books>>

WaitFree ==
  /\ daemon = "wait" /\ Holders = {}
  /\ Spawn /\ daemon' = "loop"
  /\ UNCHANGED <<verdict, exits, expected, respawns, chans, conf, busy, mail, watching, probe, books, raced>>

WaitOver ==
  /\ daemon = "wait" /\ TooSlow
  /\ daemon' = "loop" /\ raced' = TRUE
  /\ UNCHANGED <<verdict, mine, exits, expected, respawns, chans, conf, procs, probe, books>>

OnExit ==
  /\ daemon = "loop" /\ exits # << >>
  /\ LET c == Head(exits)
         died == c \in {"unexpected", "nocode"}
     IN IF c = "restart" \/ (died /\ respawns < MaxRespawns)
          THEN /\ Spawn /\ exits' = Tail(exits)
               /\ respawns' = respawns + (IF died THEN 1 ELSE 0)
               /\ UNCHANGED <<daemon, verdict, expected, chans>>
          ELSE /\ EndDaemon(IF c = "all" THEN "success" ELSE IF died THEN "general" ELSE "code")
               /\ UNCHANGED <<stage, loaded, code>>
  /\ UNCHANGED <<conf, busy, mail, watching, probe, books, raced>>

\* The monitor thread of child w: an exit with success counts as asked for when the flag says so.
Report(w) ==
  /\ w \in mine /\ stage[w] = "ended"
  /\ mine' = mine \ {w}
  /\ IF code[w] = "success"
       THEN /\ expected' = FALSE
            /\ exits' = IF expected THEN exits ELSE Append(exits, "unexpected")
       ELSE exits' = Append(exits, code[w]) /\ UNCHANGED expected
  /\ stage' = [stage EXCEPT ![w] = "none"] /\ code' = [code EXCEPT ![w] = "none"]
  /\ UNCHANGED <<daemon, verdict, respawns, chans, conf, loaded, busy, mail, watching, probe, books, raced>>

\* debouncer_main: quiet for a second
Debounce ==
  /\ changed /\ changed' = FALSE /\ signals' = signals + 1
  /\ UNCHANGED <<daemon, verdict, mine, exits, expected, respawns, nudges, conf, procs, probe, books, raced>>

-----------------------------------------------------------------------------
(***************************************************************************)
(* The workers                                                             *)
(***************************************************************************)

EndWorker(w, c) ==
  /\ stage' = [stage EXCEPT ![w] = "ended"] /\ code' = [code EXCEPT ![w] = c]
  /\ busy' = [busy EXCEPT ![w] = FALSE] /\ mail' = [mail EXCEPT ![w] = {}]
  /\ watching' = watching \ {w}
  /\ probe' = IF probe = w THEN 0 ELSE probe

\* The configuration is loaded before the lock is tried.  Whoever polls the lock holds it
\* for an instant.
StartUp(w) ==
  /\ stage[w] = "loading"
  /\ \/ broken /\ EndWorker(w, "panic") /\ UNCHANGED loaded
     \/ /\ ~broken /\ (Holders # {} \/ daemon \in {"clear", "purge", "wait"})
        /\ EndWorker(w, "already") /\ UNCHANGED loaded
     \/ /\ ~broken /\ Holders = {}
        /\ stage' = [stage EXCEPT ![w] = "locked"] /\ loaded' = [loaded EXCEPT ![w] = version]
        /\ UNCHANGED <<busy, mail, code, watching, probe>>
  /\ UNCHANGED <<daemon, verdict, mine, exits, expected, respawns, chans, conf, books, raced>>

\* The engine, the IPC server and the daemon monitor run.
Listen(w) ==
  /\ stage[w] = "locked"
  /\ stage' = [stage EXCEPT ![w] = "ready"] /\ watching' = watching \cup {w}
  /\ UNCHANGED <<daemon, verdict, mine, exits, expected, respawns, chans, conf, loaded, busy, mail, code, probe, books, raced>>

\* The engine takes an exit event, which it cannot while it waits for a form.
Leave(w, m) ==
  /\ stage[w] = "ready" /\ ~busy[w] /\ m \in mail[w]
  /\ EndWorker(w, IF m = "exit" THEN "success" ELSE m)
  /\ raced' = (raced \/ (m # "exit" /\ expected))
  /\ UNCHANGED <<daemon, verdict, mine, exits, expected, respawns, chans, conf, loaded, books>>

\* daemon_monitor_main: the lock of the daemon is free, and for an instant it is the monitor's.
Probe(w) ==
  /\ w \in watching /\ daemon \in {"begin", "gone"} /\ probe = 0
  /\ probe' = w
  /\ UNCHANGED <<daemon, verdict, mine, exits, expected, respawns, chans, conf, procs, books, raced>>

\* Mutant: the monitor looks once, and only when it starts.
ConcludeNothing(w) ==
  /\ probe = w
  /\ probe' = 0 /\ watching' = watching \ {w}
  /\ UNCHANGED <<daemon, verdict, mine, exits, expected, respawns, chans, conf, stage, loaded, busy, mail, code, books, raced>>
Conclude(w) ==
  /\ probe = w
  /\ probe' = 0 /\ watching' = watching \ {w} /\ mail' = [mail EXCEPT ![w] = @ \cup {"exit"}]
  /\ UNCHANGED <<daemon, verdict, mine, exits, expected, respawns, chans, conf, stage, loaded, busy, code, books, raced>>

FormCloses(w) ==
  /\ busy[w] /\ busy' = [busy EXCEPT ![w] = FALSE]
  /\ UNCHANGED <<daemon, verdict, mine, exits, expected, respawns, chans, conf, stage, loaded, mail, code, watching, probe, books, raced>>

-----------------------------------------------------------------------------
(***************************************************************************)
(* What comes from outside                                                 *)
(***************************************************************************)

Act == acts < MaxActs /\ acts' = acts + 1

FormOpens(w) ==
  /\ Act /\ stage[w] = "ready" /\ ~busy[w]
  /\ busy' = [busy EXCEPT ![w] = TRUE]
  /\ UNCHANGED <<daemon, verdict, mine, exits, expected, respawns, chans, conf, stage, loaded, mail, code, watching, probe, strikes, raced>>

\* A file of the configuration is written or removed, by whomever (watcher_main).
Touch(c, b) ==
  /\ version' = c /\ broken' = b
  /\ changed' = (daemon \notin {"begin", "gone"})

\* By somebody else than the application.
ConfigChange(c, b) ==
  /\ Act /\ Touch(c, b)
  /\ UNCHANGED <<daemon, verdict, mine, exits, expected, respawns, signals, nudges, procs, probe, strikes, raced>>

\* Another keyboard layout, or a grant of Accessibility.
Nudge ==
  /\ Act /\ daemon \notin {"begin", "gone"} /\ nudges' = nudges + 1
  /\ UNCHANGED <<daemon, verdict, mine, exits, expected, respawns, changed, signals, conf, procs, probe, strikes, raced>>

\* The user's choice in the engine's menu, or a command over IPC.
Ask(w, m) ==
  /\ Act /\ stage[w] = "ready" /\ m \in {"all", "restart"}
  /\ mail' = [mail EXCEPT ![w] = @ \cup {m}]
  /\ UNCHANGED <<daemon, verdict, mine, exits, expected, respawns, chans, conf, stage, loaded, busy, code, watching, probe, strikes, raced>>

AskDaemon ==
  /\ Act /\ daemon \in {"loop", "wait"} /\ exits' = Append(exits, "success")
  /\ UNCHANGED <<daemon, verdict, mine, expected, respawns, chans, conf, procs, probe, strikes, raced>>

\* The worker is killed by a signal, or quit from outside with success.
StrikeWorker(w, c) ==
  /\ Act /\ stage[w] \in {"locked", "ready"} /\ EndWorker(w, c)
  /\ strikes' = strikes + 1
  /\ raced' = (raced \/ expected)
  /\ UNCHANGED <<daemon, verdict, mine, exits, expected, respawns, chans, conf, loaded>>

KillDaemon ==
  /\ Act /\ daemon # "gone" /\ EndDaemon("code")
  /\ UNCHANGED <<conf, procs, probe, strikes, raced>>

\* The application's supervisor brings the daemon back.
Relaunch ==
  /\ Act /\ daemon = "gone"
  /\ daemon' = "begin" /\ verdict' = "none"
  /\ UNCHANGED <<mine, exits, expected, respawns, chans, conf, procs, probe, strikes, raced>>

Daemon ==
  \/ Begin \/ LoadConfig \/ Reload \/ ClearFree \/ ClearTell \/ PurgeOver
  \/ OnConfigSignal \/ OnNudge \/ WaitFree \/ WaitOver \/ OnExit \/ Debounce

Worker(w) ==
  \/ Report(w) \/ StartUp(w) \/ Listen(w) \/ FormCloses(w) \/ Probe(w) \/ Conclude(w)
  \/ \E m \in ExitModes : Leave(w, m)

Outside ==
  \/ Abort \/ Nudge \/ AskDaemon \/ KillDaemon \/ Relaunch
  \/ \E w \in Workers : \/ FormOpens(w)
                        \/ \E m \in {"all", "restart"} : Ask(w, m)
                        \/ \E c \in {"success", "nocode"} : StrikeWorker(w, c)

Next ==
  \/ Daemon \/ (\E w \in Workers : Worker(w)) \/ Outside
  \/ \E c \in Versions, b \in BOOLEAN : ConfigChange(c, b)

Spec == Init /\ [][Next]_vars

-----------------------------------------------------------------------------
\* Nothing is under way: the daemon waits in its select, and nothing waits for it.
Settled ==
  /\ daemon = "loop" /\ exits = << >> /\ nudges = 0 /\ signals = 0 /\ ~changed
  /\ \A w \in mine : stage[w] \in {"loading", "locked", "ready"}

\* A daemon that has heard of every exit has a worker ("else the daemon lives on with no
\* keystroke detection at all"), unless two causes met.
HasWorker == \E w \in mine : stage[w] # "ended"
Tended == Settled /\ ~raced => HasWorker

\* The worker that runs has loaded the configuration as it is, once the watcher has had its
\* say and unless it cannot be loaded.
Fresh ==
  Settled /\ ~raced /\ ~broken =>
    \A w \in Holders : w \in mine /\ loaded[w] = version

\* A daemon that may spawn a worker has a number to give it: MaxWorkers is never the limit.
Room == (daemon \in {"clear", "purge", "wait"} \/ exits # << >>) => \E w \in Workers : Over(w)

\* The type invariant; and at most one worker holds the lock, whose monitor alone watches,
\* the daemon has a worker, and it is a fresh one.
Sound ==
  /\ TypeOK
  /\ \A v, w \in Holders : v = w
  /\ watching \subseteq Holders /\ (probe # 0 => probe \in watching)
  /\ daemon = "gone" => mine = {} /\ exits = << >>
  /\ \A w \in Workers : mail[w] # {} \/ busy[w] => stage[w] = "ready"
  /\ Room /\ Tended /\ Fresh

\* The same as the comment on the respawn has it: of every behaviour.
NeverWithoutWorker == Settled => HasWorker

\* The daemon never runs two workers: none finds the lock taken.  It gives up for want of
\* respawns only when workers were struck down more often than it has respawns, so that no
\* restart of its own is taken for a death.
RestartIsNoDeath ==
  ~raced =>
    /\ \A w \in mine : code[w] # "already"
    /\ respawns <= strikes
    /\ verdict = "general" => strikes > MaxRespawns

\* A worker does not outlive the daemon, even one that was started as it went.
WorkersFollow == daemon = "gone" ~> (Live = {} \/ daemon # "gone")
=============================================================================
