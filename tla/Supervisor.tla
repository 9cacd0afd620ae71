----------------------------- MODULE Supervisor -----------------------------
(***************************************************************************)
(* The supervisor of the expansion engine (src-tauri/src/engine.rs): it    *)
(* spawns the engine daemon as a child process, hears of its exit from a   *)
(* watcher task, respawns it a bounded number of times, and stops or       *)
(* restarts it when the user asks to.  start() is called by the main       *)
(* thread and by every watcher; nothing holds a lock from its check to its *)
(* store.  The pauses that follow a pkill (300 ms) and precede a respawn   *)
(* (2 s) are all that orders the threads.                                  *)
(***************************************************************************)
EXTENDS Integers, FiniteSets

CONSTANTS
  MaxRespawns,  \* MAX_RESPAWNS
  MaxSpawns,    \* bound: daemons spawned in one behaviour
  MaxCrashes,   \* bound: daemons that die of themselves, and starts that fail
  MaxRestarts   \* bound: restarts by the user

ASSUME SupervisorConstants ==
  /\ MaxRespawns \in Nat /\ MaxSpawns \in Nat /\ MaxCrashes \in Nat /\ MaxRestarts \in Nat

\* Daemons are numbered as they are spawned; 0 is none.  The watcher of a daemon
\* goes by its number, the main thread by 0.
Daemons == 1..MaxSpawns
Main == 0
Callers == 0..MaxSpawns

VARIABLES
  alive,     \* the daemons that run
  queued,    \* the daemons whose Terminated event waits for their watcher
  spawned,   \* daemons spawned so far
  slot,      \* child: the daemon the supervisor believes to be running
  stopping,
  respawns,
  at,        \* at[c]: where caller c stands
  got,       \* got[c]: the daemon c has spawned and not stored yet
  quitting,  \* whether the stop that is under way ends the application
  killed,    \* the daemons that stop() killed
  crashes, restarts,
  failed,    \* history: a start has failed and no daemon was spawned since
  calm       \* whether this behaviour is calm: exits are heard of within the pause after
             \* a pkill and after start() has stored the child, and a crash and what
             \* follows it never overlap a stop by the user.  Nothing in the code sees to it.

vars == <<alive, queued, spawned, slot, stopping, respawns, at, got, quitting,
          killed, crashes, restarts, failed, calm>>

\* start() is "check", "sweep", "clear", "spawn", "store"; stop() is "flag", "take",
\* "sweepAll", "stopped"; a watcher that heard of an exit is at "reaped", then "asleep";
\* everybody is "gone" when the application has exited.
Starting == {"check", "sweep", "clear", "spawn", "store"}
Stopping == {"flag", "take", "sweepAll", "stopped"}

TypeOK ==
  /\ alive \subseteq Daemons /\ queued \subseteq Daemons /\ killed \subseteq Daemons
  /\ spawned \in Callers /\ slot \in Callers
  /\ stopping \in BOOLEAN /\ quitting \in BOOLEAN /\ failed \in BOOLEAN
  /\ calm \in BOOLEAN /\ respawns \in Nat /\ crashes \in Nat /\ restarts \in Nat
  /\ at \in [Callers -> {"idle", "reaped", "asleep", "gone"} \cup Starting \cup Stopping]
  /\ got \in [Callers -> Callers]

\* The application starts the engine during its setup.
Init ==
  /\ alive = {} /\ queued = {} /\ killed = {}
  /\ spawned = 0 /\ slot = 0
  /\ stopping = FALSE /\ quitting = FALSE /\ failed = FALSE /\ calm \in BOOLEAN
  /\ respawns = 0 /\ crashes = 0 /\ restarts = 0
  /\ at = [c \in Callers |-> IF c = Main THEN "check" ELSE "idle"]
  /\ got = [c \in Callers |-> 0]

Goto(c, p) == at' = [at EXCEPT ![c] = p]

Kill(S) == alive' = alive \ S /\ queued' = queued \cup (alive \cap S)

\* The pause is over; it was long enough for the exits to be heard of, or not.
Paused == calm => queued = {} /\ \A n \in Daemons : at[n] # "reaped"

-----------------------------------------------------------------------------
(***************************************************************************)
(* start()                                                                 *)
(***************************************************************************)
Check(c) ==
  /\ at[c] = "check"
  /\ Goto(c, IF slot # 0 THEN "idle" ELSE "sweep")
  /\ UNCHANGED <<alive, queued, spawned, slot, stopping, respawns, got, quitting,
                 killed, crashes, restarts, failed, calm>>

\* kill_stale_engines()
Sweep(c) ==
  /\ at[c] = "sweep"
  /\ Kill(alive)
  /\ Goto(c, "clear")
  /\ UNCHANGED <<spawned, slot, stopping, respawns, got, quitting, killed, crashes,
                 restarts, failed, calm>>

Clear(c) ==
  /\ at[c] = "clear"
  /\ Paused
  /\ stopping' = FALSE
  /\ Goto(c, "spawn")
  /\ UNCHANGED <<alive, queued, spawned, slot, respawns, got, quitting, killed,
                 crashes, restarts, failed, calm>>

\* Mutant: a start gives the engine a new budget.
SpawnResets(c) ==
  /\ at[c] = "spawn"
  /\ spawned < MaxSpawns
  /\ spawned' = spawned + 1
  /\ alive' = alive \cup {spawned + 1}
  /\ got' = [got EXCEPT ![c] = spawned + 1]
  /\ respawns' = 0
  /\ failed' = FALSE
  /\ Goto(c, "store")
  /\ UNCHANGED <<queued, slot, stopping, quitting, killed, crashes, restarts, calm>>

Spawn(c) ==
  /\ at[c] = "spawn"
  /\ spawned < MaxSpawns
  /\ spawned' = spawned + 1
  /\ alive' = alive \cup {spawned + 1}
  /\ got' = [got EXCEPT ![c] = spawned + 1]
  /\ failed' = FALSE
  /\ Goto(c, "store")
  /\ UNCHANGED <<queued, slot, stopping, respawns, quitting, killed, crashes, restarts, calm>>

\* sidecar()? fails before the flag is reset, spawn()? after it.  restart() returns the
\* error; the setup and a watcher log it, and nobody tries again.
StartFails(c) ==
  /\ at[c] \in {"clear", "spawn"}
  /\ at[c] = "clear" => Paused
  /\ crashes < MaxCrashes /\ crashes' = crashes + 1
  /\ failed' = TRUE
  /\ Goto(c, "idle")
  /\ UNCHANGED <<alive, queued, spawned, slot, stopping, respawns, got, quitting, killed,
                 restarts, calm>>

Store(c) ==
  /\ at[c] = "store"
  /\ slot' = got[c]
  /\ Goto(c, "idle")
  /\ UNCHANGED <<alive, queued, spawned, stopping, respawns, got, quitting, killed,
                 crashes, restarts, failed, calm>>

-----------------------------------------------------------------------------
(***************************************************************************)
(* The watcher of daemon n, and the daemon itself.                         *)
(***************************************************************************)
\* A daemon dies of itself, or because another one holds the engine's lock.
Die(n) ==
  /\ n \in alive
  /\ calm => at[Main] \notin Stopping
  /\ \/ crashes < MaxCrashes /\ crashes' = crashes + 1
     \/ (\E m \in alive : m < n) /\ UNCHANGED crashes
  /\ Kill({n})
  /\ UNCHANGED <<spawned, slot, stopping, respawns, at, got, quitting, killed, restarts,
                 failed, calm>>

\* Terminated: whatever child is stored is taken.
Reap(n) ==
  /\ n \in queued /\ at[n] = "idle"
  /\ calm => \A c \in Callers : ~(at[c] = "store" /\ got[c] = n)
  /\ queued' = queued \ {n}
  /\ slot' = 0
  /\ Goto(n, "reaped")
  /\ UNCHANGED <<alive, spawned, stopping, respawns, got, quitting, killed, crashes,
                 restarts, failed, calm>>

\* Mutant: one respawn too few.
DecideEarly(n) ==
  /\ at[n] = "reaped"
  /\ IF stopping
     THEN Goto(n, "idle") /\ UNCHANGED respawns
     ELSE /\ respawns' = respawns + 1
          /\ Goto(n, IF respawns + 1 < MaxRespawns THEN "asleep" ELSE "idle")
  /\ UNCHANGED <<alive, queued, spawned, slot, stopping, got, quitting, killed, crashes,
                 restarts, failed, calm>>

Decide(n) ==
  /\ at[n] = "reaped"
  /\ IF stopping
     THEN Goto(n, "idle") /\ UNCHANGED respawns
     ELSE /\ respawns' = respawns + 1
          /\ Goto(n, IF respawns < MaxRespawns THEN "asleep" ELSE "idle")
  /\ UNCHANGED <<alive, queued, spawned, slot, stopping, got, quitting, killed,
                 crashes, restarts, failed, calm>>

Wake(n) ==
  /\ at[n] = "asleep"
  /\ Goto(n, "check")
  /\ UNCHANGED <<alive, queued, spawned, slot, stopping, respawns, got, quitting,
                 killed, crashes, restarts, failed, calm>>

-----------------------------------------------------------------------------
(***************************************************************************)
(* stop(), on the main thread: for restart() or because the user quits.    *)
(***************************************************************************)

Ask ==
  /\ at[Main] = "idle"
  /\ calm => \A n \in Daemons : at[n] = "idle" /\ n \notin queued
  /\ \/ restarts < MaxRestarts /\ restarts' = restarts + 1 /\ quitting' = FALSE
     \/ quitting' = TRUE /\ UNCHANGED restarts
  /\ Goto(Main, "flag")
  /\ UNCHANGED <<alive, queued, spawned, slot, stopping, respawns, got, killed, crashes,
                 failed, calm>>

Flag ==
  /\ at[Main] = "flag"
  /\ stopping' = TRUE
  /\ Goto(Main, "take")
  /\ UNCHANGED <<alive, queued, spawned, slot, respawns, got, quitting, killed,
                 crashes, restarts, failed, calm>>

Take ==
  /\ at[Main] = "take"
  /\ Kill({slot})
  /\ killed' = killed \cup (alive \cap {slot})
  /\ slot' = 0
  /\ Goto(Main, "sweepAll")
  /\ UNCHANGED <<spawned, stopping, respawns, got, quitting, crashes, restarts, failed,
                 calm>>

SweepAll ==
  /\ at[Main] = "sweepAll"
  /\ Kill(alive)
  /\ killed' = killed \cup alive
  /\ Goto(Main, "stopped")
  /\ UNCHANGED <<spawned, slot, stopping, respawns, got, quitting, crashes, restarts, failed,
                 calm>>

\* restart() goes on with a new budget.
Restart ==
  /\ at[Main] = "stopped" /\ ~quitting
  /\ Paused
  /\ respawns' = 0
  /\ Goto(Main, "check")
  /\ UNCHANGED <<alive, queued, spawned, slot, stopping, got, quitting, killed,
                 crashes, restarts, failed, calm>>

\* The process ends and takes its threads and tasks with it.
Exit ==
  /\ at[Main] = "stopped" /\ quitting
  /\ Paused
  /\ at' = [c \in Callers |-> "gone"]
  /\ UNCHANGED <<alive, queued, spawned, slot, stopping, respawns, got, quitting, killed,
                 crashes, restarts, failed, calm>>

-----------------------------------------------------------------------------
Start(c) == Check(c) \/ Sweep(c) \/ Clear(c) \/ Spawn(c) \/ Store(c)
Watch(n) == Reap(n) \/ Decide(n) \/ Wake(n)
Stop == Flag \/ Take \/ SweepAll \/ Restart \/ Exit

Next ==
  \/ \E c \in Callers : Start(c) \/ StartFails(c)
  \/ \E n \in Daemons : Watch(n) \/ Die(n)
  \/ Ask \/ Stop

Spec == Init /\ [][Next]_vars

\* Threads and tasks go on; nobody has to restart or quit, and no start has to fail.
Fairness ==
  /\ \A c \in Callers : WF_vars(Start(c))
  /\ \A n \in Daemons : WF_vars(Watch(n))
  /\ WF_vars(Stop)

FairSpec == Spec /\ Fairness
-----------------------------------------------------------------------------
\* "Bounded to avoid crash-looping": whoever starts and restarts meanwhile, a
\* restart by the user is good for one engine and MaxRespawns more.
CrashLoopBounded == spawned <= (1 + restarts) * (1 + MaxRespawns)

\* The engine is given up for two reasons only: when nothing runs and nothing is
\* believed to run, an exit is still to be heard of, somebody is on the way to
\* start, a stop was asked for, the budget is spent, or the last start failed.
Tended ==
  alive = {} /\ slot = 0 =>
    \/ queued # {} \/ \E c \in Callers : at[c] # "idle"
    \/ stopping \/ respawns > MaxRespawns \/ failed

\* "Deliberate - exit watcher must not respawn": in a calm behaviour a daemon that
\* stop() killed is not taken for one that crashed.
StopIsDeliberate == calm => \A n \in killed : at[n] # "asleep"

\* What is stored as running runs, or its exit is on its way to the watcher.
SlotHonest == calm /\ slot # 0 => slot \in alive \/ slot \in queued

\* Quitting leaves no engine behind ("else the daemon/worker are orphaned and
\* block the next launch"), unless a watcher was about to respawn one.
NoOrphan == calm /\ at[Main] = "gone" => alive = {}

\* The type invariant, with the four of them: in every behaviour the engine is given up only
\* when the budget is spent or a start fails; in a calm one the slot is honest, a stop no
\* crash and quitting the end.
Sound == TypeOK /\ Tended /\ SlotHonest /\ StopIsDeliberate /\ NoOrphan

\* "An engine that dies unexpectedly must be respawned": once nothing dies any more an engine
\* runs, unless the budget is spent, the user quits, or the last start failed: a watcher
\* does not try again, whatever budget is left.
BackUp == calm => <>[](alive # {} \/ respawns > MaxRespawns \/ quitting \/ failed)
=============================================================================
