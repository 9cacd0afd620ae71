---------------------------- MODULE Deployment -----------------------------
(***************************************************************************)
(* From the store to the worker that expands: every file a rendering       *)
(* writes or removes is an event for the daemon's watcher, and a worker    *)
(* has read what the files said when it started.                           *)
(***************************************************************************)
EXTENDS WorkerDaemon, MatchFiles

CONSTANT MaxDeeds  \* bound: acts and edits together, if there are edits

\* The configuration: what the application generates, and how often somebody else has edited it.
Contents == [active : SUBSET Matches, override : BOOLEAN, hand : 0..MaxActs]

ASSUME DeploymentConstants == MaxDeeds \in Nat /\ Versions = Contents

deployVars == <<vars, filesVars>>

DeployInit == FilesInit /\ version = [active |-> Active, override |-> override, hand |-> 0] /\ Init

MayDo == edits' > 0 => acts' + edits' <= MaxDeeds

\* The application starts the daemon when its first rendering is over; and a rendering takes
\* less than the second of quiet that the debouncer waits for.
DaemonStep ==
  /\ Daemon /\ UNCHANGED filesVars
  /\ daemon = "begin" => app = "up"
  /\ daemon' # "gone" /\ signals' > signals => \A t \in Threads : ~Holding(t)

WorkerStep(w) == Worker(w) /\ UNCHANGED filesVars

OutsideStep == Outside /\ UNCHANGED filesVars /\ MayDo

HandEdit(b) ==
  /\ ConfigChange([version EXCEPT !.hand = @ + 1], b)
  /\ UNCHANGED filesVars /\ MayDo

WriteFile(t) ==
  /\ FileStep(t) /\ Touch([version EXCEPT !.active = Active', !.override = override'], broken)
  /\ UNCHANGED <<daemon, verdict, mine, exits, expected, respawns, signals, nudges, procs, probe, books, raced>>

Elsewhere == OtherStep /\ UNCHANGED vars /\ MayDo

DeployNext ==
  \/ DaemonStep \/ OutsideStep \/ Elsewhere
  \/ \E w \in Workers : WorkerStep(w)
  \/ \E b \in BOOLEAN : HandEdit(b)
  \/ \E t \in Threads : WriteFile(t)

\* Every thread of the engine's processes goes on; nothing obliges the outside.
DeploySpec ==
  /\ DeployInit /\ [][DeployNext]_deployVars
  /\ WF_deployVars(DaemonStep)
  /\ \A w \in Workers : WF_deployVars(WorkerStep(w))

-----------------------------------------------------------------------------
\* The invariants of the two parts.
DeploySound == Sound /\ FilesSound

\* Once nothing is on its way, the worker expands exactly the snippets that are in the store
\* and switched on, each in its application, and with the delivery that the settings say,
\* unless two causes met in the engine's processes or two renderings overlapped ("its
\* file-watcher hot-reloads it").
Deployed ==
  Settled /\ ~raced /\ ~broken /\ Quiet /\ debt = "none" =>
    \A w \in Holders : w \in mine /\ loaded[w].active = Wanted /\ loaded[w].override = policy
=============================================================================
