----------------------------- MODULE DesktopProofs ----------------------------
(***************************************************************************)
(* Theorems about three parts of the application that share no state: the  *)
(* engine supervisor, the form bridge and the clipboard history, each for  *)
(* every value of its constants and every interleaving of its threads.     *)
(***************************************************************************)
EXTENDS Supervisor, FormBridge, ClipHistory, FiniteSetTheorems, SequenceTheorems,
        WellFoundedInduction, TLAPS

(***************************************************************************)
(* SUPERVISOR: for every budget of respawns and every interleaving of the  *)
(* main thread, the watchers and the daemons.                              *)
(***************************************************************************)
(***************************************************************************)
(* The inductive invariant.                                                *)
(***************************************************************************)
\* The callers that are good for one more daemon.
Coming == {"asleep", "check", "sweep", "clear", "spawn"}
Pending == {c \in Callers : at[c] \in Coming}

\* The restarts that have begun a new budget.
Done == IF at[Main] \in Stopping /\ ~quitting THEN restarts - 1 ELSE restarts
Used == IF respawns < MaxRespawns THEN respawns ELSE MaxRespawns

\* Every daemon, spawned or on its way, was granted: by the start of the application or a
\* restart, or by the budget of respawns that goes with it.
Granted ==
  /\ Done \in Nat
  /\ spawned + Cardinality(Pending) <= 1 + Done + Done * MaxRespawns + Used

\* A watcher is busy only after its daemon's exit; who is about to store has spawned.
Watched ==
  /\ \A n \in Daemons :
       /\ n \in alive \cup queued \cup killed => n <= spawned
       /\ n \in alive => n \notin queued /\ n \notin killed
       /\ at[n] \notin {"idle", "gone"} => n <= spawned /\ n \notin alive \cup queued
       /\ at[n] \notin Stopping
  /\ \A c \in Callers : at[c] = "store" => got[c] \in Daemons
  /\ (\E c \in Callers : at[c] = "gone") => \A c \in Callers : at[c] = "gone"

\* In a calm behaviour a stop by the user meets no watcher on its way to a start, and what
\* it killed is heard of before stopping is cleared.
Calm ==
  /\ \A n \in killed : /\ at[n] \in {"idle", "reaped", "gone"}
                       /\ n \in queued \/ at[n] = "reaped" => stopping
  /\ at[Main] \in Stopping => \A n \in Daemons : at[n] \in {"idle", "reaped"}
  /\ at[Main] = "flag" => \A n \in Daemons : at[n] = "idle" /\ n \notin queued
  /\ at[Main] \in {"take", "sweepAll", "stopped"} => stopping
  /\ at[Main] \in {"stopped", "gone"} => alive = {}
  /\ slot # 0 => slot \in alive \cup queued
  /\ \A c \in Callers : at[c] = "store" => got[c] \in alive \cup queued

Ind == TypeOK /\ Granted /\ Watched /\ Tended /\ (calm => Calm)

-----------------------------------------------------------------------------
(***************************************************************************)
(* Types, and the other parts of the invariant step by step.               *)
(***************************************************************************)
\* The main thread is a caller and no watcher.
LEMMA WhoIsWho ==
  /\ Daemons \subseteq Callers /\ Main \in Callers /\ Main \notin Daemons
  /\ \A c \in Callers : c # Main => c \in Daemons
  /\ \A n \in Callers : n # 0 => n \in Daemons
  /\ \A n \in Callers : n < MaxSpawns => n + 1 \in Daemons
BY SupervisorConstants DEF Daemons, Callers, Main

\* Every step keeps the types.
LEMMA TypeStep == ASSUME TypeOK, [Next]_vars PROVE TypeOK'
<1> USE WhoIsWho DEF TypeOK, Goto, Kill, Starting, Stopping
<1>1. CASE UNCHANGED vars
  BY <1>1 DEF vars
<1>2. ASSUME NEW c \in Callers, Start(c) \/ StartFails(c) PROVE TypeOK'
  <2>1. CASE Check(c)
    BY <2>1 DEF Check
  <2>2. CASE Sweep(c)
    BY <2>2 DEF Sweep
  <2>3. CASE Clear(c)
    BY <2>3 DEF Clear
  <2>4. CASE Spawn(c)
    <3>1. spawned + 1 \in Daemons
      BY <2>4 DEF Spawn
    <3> QED BY <2>4, <3>1 DEF Spawn
  <2>5. CASE Store(c)
    BY <2>5 DEF Store
  <2>6. CASE StartFails(c)
    BY <2>6 DEF StartFails
  <2> QED BY <1>2, <2>1, <2>2, <2>3, <2>4, <2>5, <2>6 DEF Start
<1>3. ASSUME NEW n \in Daemons, Watch(n) \/ Die(n) PROVE TypeOK'
  <2>1. CASE Reap(n)
    BY <2>1 DEF Reap
  <2>2. CASE Decide(n)
    BY <2>2 DEF Decide
  <2>3. CASE Wake(n)
    BY <2>3 DEF Wake
  <2>4. CASE Die(n)
    BY <2>4 DEF Die
  <2> QED BY <1>3, <2>1, <2>2, <2>3, <2>4 DEF Watch
<1>4. CASE Ask
  <2>0. restarts \in Nat
    OBVIOUS
  <2>1. at' = [at EXCEPT ![Main] = "flag"] /\ quitting' \in BOOLEAN /\ restarts' \in Nat
    <3> HIDE DEF TypeOK
    <3>1. \/ restarts' = restarts + 1 /\ quitting' = FALSE
          \/ quitting' = TRUE /\ restarts' = restarts
      BY <1>4 DEF Ask
    <3>2. at' = [at EXCEPT ![Main] = "flag"]
      BY <1>4 DEF Ask
    <3>3. quitting' \in BOOLEAN
      BY <3>1
    <3>4. restarts' \in Nat
      BY <2>0, <3>1
    <3> QED BY <3>2, <3>3, <3>4
  <2>2. UNCHANGED <<alive, queued, spawned, slot, stopping, respawns, got, killed, crashes,
                 failed, calm>>
    BY <1>4 DEF Ask
  <2> QED BY <2>1, <2>2
<1>5. CASE Stop
  <2>1. CASE Flag
    BY <2>1 DEF Flag
  <2>2. CASE Take
    BY <2>2 DEF Take
  <2>3. CASE SweepAll
    BY <2>3 DEF SweepAll
  <2>4. CASE Restart
    BY <2>4 DEF Restart
  <2>5. CASE Exit
    BY <2>5 DEF Exit
  <2> QED BY <1>5, <2>1, <2>2, <2>3, <2>4, <2>5 DEF Stop
<1> QED BY <1>1, <1>2, <1>3, <1>4, <1>5 DEF Next

\* One caller moves at a time; who may spawn is counted.
LEMMA PendingStep ==
  ASSUME TypeOK, NEW c \in Callers, NEW p, Goto(c, p)
  PROVE  /\ Cardinality(Pending) \in Nat /\ Cardinality(Pending') \in Nat
         /\ (at[c] \in Coming <=> p \in Coming) => Cardinality(Pending') = Cardinality(Pending)
         /\ at[c] \notin Coming /\ p \in Coming => Cardinality(Pending') = Cardinality(Pending) + 1
         /\ at[c] \in Coming /\ p \notin Coming => Cardinality(Pending') = Cardinality(Pending) - 1
<1>1. IsFiniteSet(Callers)
  BY SupervisorConstants, FS_Interval DEF Callers
<1>2. Pending \subseteq Callers /\ Pending' \subseteq Callers
  BY DEF Pending
<1>3. IsFiniteSet(Pending) /\ IsFiniteSet(Pending')
  BY <1>1, <1>2, FS_Subset
<1>4. Cardinality(Pending) \in Nat /\ Cardinality(Pending') \in Nat
  BY <1>3, FS_CardinalityType
<1>5. \A d \in Callers : at'[d] = IF d = c THEN p ELSE at[d]
  BY DEF TypeOK, Goto
<1>6. (at[c] \in Coming <=> p \in Coming) => Pending' = Pending
  BY <1>5 DEF Pending
<1>7. at[c] \notin Coming /\ p \in Coming => Pending' = Pending \cup {c} /\ c \notin Pending
  BY <1>5 DEF Pending
<1>8. at[c] \in Coming /\ p \notin Coming => Pending' = Pending \ {c} /\ c \in Pending
  BY <1>5 DEF Pending
<1> HIDE DEF Pending
<1> QED BY <1>3, <1>4, <1>6, <1>7, <1>8, FS_AddElement, FS_RemoveElement

\* No step spawns more than was granted.
LEMMA GrantedStep == ASSUME TypeOK, Granted, [Next]_vars PROVE Granted'
<1>0. /\ MaxRespawns \in Nat /\ respawns \in Nat /\ restarts \in Nat /\ spawned \in Nat
      /\ Main \in Callers /\ Done \in Nat
      /\ Used \in Nat /\ Used <= MaxRespawns
      /\ spawned + Cardinality(Pending) <= 1 + Done + Done * MaxRespawns + Used
      /\ at \in [Callers -> {"idle", "reaped", "asleep", "gone"} \cup Starting \cup Stopping]
  BY SupervisorConstants, WhoIsWho DEF TypeOK, Granted, Used, Callers
<1>1. ASSUME UNCHANGED <<at, spawned, respawns, restarts, quitting>> PROVE Granted'
  BY <1>1 DEF Granted, Done, Used, Pending
\* Moves that neither spawn nor grant.
<1>2. ASSUME NEW c \in Callers, NEW p, Goto(c, p), UNCHANGED <<spawned, respawns>>,
             p \in Coming => at[c] \in Coming, Done' = Done
      PROVE  Granted'
  <2>1. Cardinality(Pending') <= Cardinality(Pending) /\ Cardinality(Pending) \in Nat
        /\ Cardinality(Pending') \in Nat
    BY <1>2, PendingStep
  <2>2. Used' = Used
    BY <1>2 DEF Used
  <2> QED BY <1>0, <1>2, <2>1, <2>2 DEF Granted
<1>3. ASSUME NEW c \in Callers, NEW p, Goto(c, p), UNCHANGED <<restarts, quitting>>,
             at[c] \in Stopping <=> p \in Stopping
      PROVE  Done' = Done
  BY <1>0, <1>3 DEF Done, Goto
<1>4. ASSUME NEW c \in Callers, Start(c) \/ StartFails(c) PROVE Granted'
  <2>1. CASE Spawn(c)
    <3>1. Goto(c, "store") /\ at[c] = "spawn" /\ spawned' = spawned + 1 /\ UNCHANGED respawns
          /\ UNCHANGED <<restarts, quitting>>
      BY <2>1 DEF Spawn
    <3>2. Done' = Done
      BY <1>3, <3>1 DEF Stopping
    <3>3. Cardinality(Pending') = Cardinality(Pending) - 1 /\ Cardinality(Pending) \in Nat
      BY <3>1, PendingStep DEF Coming
    <3>4. Used' = Used
      BY <3>1 DEF Used
    <3> QED BY <1>0, <3>1, <3>2, <3>3, <3>4 DEF Granted
  <2>2. CASE Check(c) \/ Sweep(c) \/ Clear(c) \/ Store(c) \/ StartFails(c)
    <3>1. PICK p \in {"idle", "sweep", "clear", "spawn"} :
            /\ Goto(c, p) /\ at[c] \in Starting
            /\ p \in Coming => at[c] \in Coming
            /\ UNCHANGED <<spawned, respawns, restarts, quitting>>
      BY <2>2 DEF Check, Sweep, Clear, Store, StartFails, Coming, Starting
    <3>2. Done' = Done
      BY <1>3, <3>1 DEF Starting, Stopping
    <3> QED BY <1>2, <3>1, <3>2
  <2> QED BY <1>4, <2>1, <2>2 DEF Start
<1>5. ASSUME NEW n \in Daemons, Watch(n) PROVE Granted'
  <2>0. n \in Callers
    BY WhoIsWho
  <2>1. CASE Decide(n) /\ ~stopping
    <3>1. /\ at[n] = "reaped" /\ respawns' = respawns + 1
          /\ Goto(n, IF respawns < MaxRespawns THEN "asleep" ELSE "idle")
          /\ UNCHANGED <<spawned, restarts, quitting>>
      BY <2>1 DEF Decide
    <3>2. Done' = Done
      BY <1>3, <2>0, <3>1 DEF Stopping
    <3>3. CASE respawns < MaxRespawns
      <4>1. Goto(n, "asleep")
        BY <3>1, <3>3
      <4>2. Cardinality(Pending') = Cardinality(Pending) + 1 /\ Cardinality(Pending) \in Nat
        BY <2>0, <3>1, <4>1, PendingStep DEF Coming
      <4>3. Used' = Used + 1
        BY <1>0, <3>1, <3>3 DEF Used
      <4> QED BY <1>0, <3>1, <3>2, <4>2, <4>3 DEF Granted
    <3>4. CASE ~(respawns < MaxRespawns)
      <4>1. Goto(n, "idle")
        BY <3>1, <3>4
      <4>2. Cardinality(Pending') = Cardinality(Pending) /\ Cardinality(Pending) \in Nat
        BY <2>0, <3>1, <4>1, PendingStep DEF Coming
      <4>3. Used' = Used
        BY <1>0, <3>1, <3>4 DEF Used
      <4> QED BY <1>0, <3>1, <3>2, <4>2, <4>3 DEF Granted
    <3> QED BY <3>3, <3>4
  <2>2. CASE Reap(n) \/ (Decide(n) /\ stopping) \/ Wake(n)
    <3>1. PICK p \in {"idle", "reaped", "check"} :
            /\ Goto(n, p) /\ at[n] \in {"idle", "reaped", "asleep"}
            /\ p \in Coming => at[n] \in Coming
            /\ UNCHANGED <<spawned, respawns, restarts, quitting>>
      BY <2>2 DEF Reap, Decide, Wake, Coming
    <3>2. Done' = Done
      BY <1>3, <2>0, <3>1 DEF Stopping
    <3> QED BY <1>2, <2>0, <3>1, <3>2
  <2> QED BY <1>5, <2>1, <2>2 DEF Watch
<1>6. ASSUME NEW n \in Daemons, Die(n) PROVE Granted'
  BY <1>1, <1>6 DEF Die
<1>7. CASE Ask
  <2>1. Goto(Main, "flag") /\ at[Main] = "idle" /\ UNCHANGED <<spawned, respawns>>
    BY <1>7 DEF Ask
  <2>2. Done' = Done
    BY <1>0, <1>7, <2>1 DEF Ask, Done, Goto, Stopping
  <2> QED BY <1>0, <1>2, <2>1, <2>2 DEF Coming
<1>8. CASE Flag \/ Take \/ SweepAll
  <2>1. PICK p \in {"take", "sweepAll", "stopped"} :
          /\ Goto(Main, p) /\ at[Main] \in Stopping
          /\ UNCHANGED <<spawned, respawns, restarts, quitting>>
    BY <1>8 DEF Flag, Take, SweepAll, Stopping
  <2>2. Done' = Done
    BY <1>0, <1>3, <2>1 DEF Stopping
  <2> QED BY <1>0, <1>2, <2>1, <2>2 DEF Coming
<1>9. CASE Restart
  <2>1. /\ Goto(Main, "check") /\ at[Main] = "stopped" /\ ~quitting /\ respawns' = 0
        /\ UNCHANGED <<spawned, restarts, quitting>>
    BY <1>9 DEF Restart
  <2>2. Done' = Done + 1
    BY <1>0, <2>1 DEF Done, Goto, Stopping
  <2>3. Cardinality(Pending') = Cardinality(Pending) + 1 /\ Cardinality(Pending) \in Nat
    BY <1>0, <2>1, PendingStep DEF Coming
  <2>4. Used' = 0
    BY <1>0, <2>1 DEF Used
  <2>5. \A d \in Nat : (d + 1) * MaxRespawns = d * MaxRespawns + MaxRespawns
                       /\ d * MaxRespawns \in Nat
    BY <1>0
  <2>6. Done' * MaxRespawns = Done * MaxRespawns + MaxRespawns /\ Done * MaxRespawns \in Nat
    BY <1>0, <2>2, <2>5
  <2> QED BY <1>0, <2>1, <2>2, <2>3, <2>4, <2>6 DEF Granted
<1>10. CASE Exit
  <2>1. /\ at' = [c \in Callers |-> "gone"] /\ UNCHANGED <<spawned, respawns, restarts, quitting>>
        /\ at[Main] = "stopped" /\ quitting
    BY <1>10 DEF Exit
  <2>2. Pending' = {} /\ Cardinality({}) = 0
    BY <2>1, FS_EmptySet DEF Pending, Coming
  <2>3. Done' = Done /\ Used' = Used
    BY <1>0, <2>1 DEF Done, Used, Stopping
  <2>4. Cardinality(Pending) \in Nat
    <3>1. IsFiniteSet(Callers)
      BY SupervisorConstants, FS_Interval DEF Callers
    <3>2. Pending \subseteq Callers
      BY DEF Pending
    <3> QED BY <3>1, <3>2, FS_Subset, FS_CardinalityType
  <2> QED BY <1>0, <2>1, <2>2, <2>3, <2>4 DEF Granted
<1>11. CASE UNCHANGED vars
  BY <1>1, <1>11 DEF vars
<1> QED BY <1>4, <1>5, <1>6, <1>7, <1>8, <1>9, <1>10, <1>11 DEF Next, Stop

-----------------------------------------------------------------------------
(***************************************************************************)
(* Watchers, and calm behaviours.                                          *)
(***************************************************************************)
Rest == Watched /\ Tended /\ (calm => Calm)

\* A start, and one that fails.
LEMMA StartRest ==
  ASSUME TypeOK, TypeOK', Rest, NEW c \in Callers, Start(c) \/ StartFails(c) PROVE Rest'
<1>0. /\ at \in [Callers -> {"idle", "reaped", "asleep", "gone"} \cup Starting \cup Stopping]
      /\ alive \subseteq Daemons /\ queued \subseteq Daemons /\ killed \subseteq Daemons
      /\ spawned \in Nat /\ got \in [Callers -> Callers] /\ got[c] \in Callers
      /\ calm' = calm /\ calm \in BOOLEAN /\ killed' = killed
      /\ \A n \in Daemons : n \in Nat
  BY DEF TypeOK, Callers, Daemons, Start, Check, Sweep, Clear, Spawn, Store, StartFails
<1>1. CASE Check(c)
  <2>1. /\ \A d \in Callers : at'[d] = IF d = c THEN IF slot # 0 THEN "idle" ELSE "sweep" ELSE at[d]
        /\ at[c] = "check"
        /\ UNCHANGED <<alive, queued, spawned, slot, stopping, respawns, got, failed>>
    BY <1>0, <1>1 DEF Check, Goto
  <2>2. Watched'
    BY <1>0, <2>1, WhoIsWho DEF Rest, Watched, Stopping
  <2>3. Tended'
    BY <1>0, <2>1 DEF Rest, Tended
  <2>4. calm => Calm'
    BY <1>0, <2>1, WhoIsWho DEF Rest, Calm, Stopping
  <2> QED BY <1>0, <2>2, <2>3, <2>4 DEF Rest
<1>2. CASE Sweep(c)
  <2>1. /\ \A d \in Callers : at'[d] = IF d = c THEN "clear" ELSE at[d]
        /\ at[c] = "sweep" /\ UNCHANGED <<spawned, slot, stopping, respawns, got>>
        /\ alive' = {} /\ queued' = queued \cup alive
    BY <1>0, <1>2 DEF Sweep, Goto, Kill
  <2>2. Watched'
    BY <1>0, <2>1, WhoIsWho DEF Rest, Watched, Stopping
  <2>3. Tended'
    BY <1>0, <2>1 DEF Tended
  <2>4. calm => Calm'
    BY <1>0, <2>1, WhoIsWho DEF Rest, Watched, Calm, Stopping
  <2> QED BY <1>0, <2>2, <2>3, <2>4 DEF Rest
<1>3. CASE Clear(c)
  <2>1. /\ \A d \in Callers : at'[d] = IF d = c THEN "spawn" ELSE at[d]
        /\ at[c] = "clear" /\ UNCHANGED <<alive, queued, spawned, slot, respawns, got>>
        /\ calm => queued = {} /\ \A n \in Daemons : at[n] # "reaped"
    BY <1>0, <1>3 DEF Clear, Goto, Paused
  <2>2. Watched'
    BY <1>0, <2>1, WhoIsWho DEF Rest, Watched, Stopping
  <2>3. Tended'
    BY <1>0, <2>1 DEF Tended
  <2>4. calm => Calm'
    BY <1>0, <2>1, WhoIsWho DEF Rest, Watched, Calm, Stopping
  <2> QED BY <1>0, <2>2, <2>3, <2>4 DEF Rest
<1>4. CASE Spawn(c)
  <2>1. /\ \A d \in Callers : at'[d] = IF d = c THEN "store" ELSE at[d]
        /\ \A d \in Callers : got'[d] = IF d = c THEN spawned + 1 ELSE got[d]
        /\ at[c] = "spawn" /\ UNCHANGED <<queued, slot, stopping, respawns>>
        /\ spawned' = spawned + 1 /\ alive' = alive \cup {spawned + 1} /\ spawned + 1 \in Daemons
    BY <1>0, <1>4, WhoIsWho DEF Spawn, Goto, TypeOK
  <2>2. Watched'
    BY <1>0, <2>1, WhoIsWho DEF Rest, Watched, Stopping
  <2>3. Tended'
    BY <1>0, <2>1 DEF Tended
  <2>4. calm => Calm'
    BY <1>0, <2>1, WhoIsWho DEF Rest, Watched, Calm, Stopping
  <2> QED BY <1>0, <2>2, <2>3, <2>4 DEF Rest
<1>5. CASE Store(c)
  <2>1. /\ \A d \in Callers : at'[d] = IF d = c THEN "idle" ELSE at[d]
        /\ at[c] = "store" /\ UNCHANGED <<alive, queued, spawned, stopping, respawns, got>>
        /\ slot' = got[c] /\ got[c] # 0
    BY <1>0, <1>5 DEF Store, Goto, Rest, Watched, Daemons
  <2>2. Watched'
    BY <1>0, <2>1, WhoIsWho DEF Rest, Watched, Stopping
  <2>3. Tended'
    BY <1>0, <2>1 DEF Tended
  <2>4. calm => Calm'
    BY <1>0, <2>1, WhoIsWho DEF Rest, Watched, Calm, Stopping
  <2> QED BY <1>0, <2>2, <2>3, <2>4 DEF Rest
<1>6. CASE StartFails(c)
  <2>1. /\ \A d \in Callers : at'[d] = IF d = c THEN "idle" ELSE at[d]
        /\ at[c] \in {"clear", "spawn"} /\ failed'
        /\ UNCHANGED <<alive, queued, spawned, slot, stopping, respawns, got>>
    BY <1>0, <1>6 DEF StartFails, Goto
  <2>2. Watched'
    BY <1>0, <2>1, WhoIsWho DEF Rest, Watched, Stopping
  <2>3. Tended'
    BY <2>1 DEF Tended
  <2>4. calm => Calm'
    BY <1>0, <2>1, WhoIsWho DEF Rest, Watched, Calm, Stopping
  <2> QED BY <1>0, <2>2, <2>3, <2>4 DEF Rest
<1> QED BY <1>1, <1>2, <1>3, <1>4, <1>5, <1>6 DEF Start

\* A watcher, and its daemon's death.
LEMMA WatchRest ==
  ASSUME TypeOK, TypeOK', Rest, NEW n \in Daemons, Watch(n) \/ Die(n) PROVE Rest'
<1>0. /\ at \in [Callers -> {"idle", "reaped", "asleep", "gone"} \cup Starting \cup Stopping]
      /\ alive \subseteq Daemons /\ queued \subseteq Daemons /\ killed \subseteq Daemons
      /\ spawned \in Nat /\ got \in [Callers -> Callers] /\ n \in Callers /\ n # Main
      /\ calm' = calm /\ calm \in BOOLEAN /\ UNCHANGED <<killed, spawned, stopping, got, failed>>
      /\ respawns \in Nat /\ MaxRespawns \in Nat
  <2>1. UNCHANGED <<calm, killed, spawned, stopping, got, failed>>
    BY DEF Watch, Reap, Decide, Wake, Die
  <2>2. n \in Callers /\ n # Main
    BY WhoIsWho
  <2>3. /\ at \in [Callers -> {"idle", "reaped", "asleep", "gone"} \cup Starting \cup Stopping]
        /\ alive \subseteq Daemons /\ queued \subseteq Daemons /\ killed \subseteq Daemons
        /\ got \in [Callers -> Callers] /\ calm \in BOOLEAN /\ respawns \in Nat
        /\ spawned \in Callers
    BY DEF TypeOK
  <2>4. spawned \in Nat
    BY <2>3 DEF Callers
  <2> QED BY <2>1, <2>2, <2>3, <2>4, SupervisorConstants
<1>1. CASE Reap(n)
  <2>1. /\ \A d \in Callers : at'[d] = IF d = n THEN "reaped" ELSE at[d]
        /\ at[n] = "idle" /\ n \in queued /\ UNCHANGED <<alive, respawns>>
        /\ queued' = queued \ {n} /\ slot' = 0
        /\ calm => \A c \in Callers : ~(at[c] = "store" /\ got[c] = n)
    BY <1>0, <1>1 DEF Reap, Goto
  <2>2. Watched'
    BY <1>0, <2>1, WhoIsWho DEF Rest, Watched, Stopping
  <2>3. Tended'
    BY <1>0, <2>1 DEF Tended
  <2>4. calm => Calm'
    BY <1>0, <2>1, WhoIsWho DEF Rest, Watched, Calm, Stopping
  <2> QED BY <1>0, <2>2, <2>3, <2>4 DEF Rest
<1>2. CASE Decide(n)
  <2>1. /\ \A d \in Callers : d # n => at'[d] = at[d]
        /\ at[n] = "reaped" /\ UNCHANGED <<alive, queued, slot>>
        /\ \/ stopping /\ at'[n] = "idle"
           \/ ~stopping /\ at'[n] = "asleep"
           \/ ~stopping /\ at'[n] = "idle" /\ respawns' > MaxRespawns
    BY <1>0, <1>2 DEF Decide, Goto
  <2>2. Watched'
    BY <1>0, <2>1, WhoIsWho DEF Rest, Watched, Stopping
  <2>3. Tended'
    BY <1>0, <2>1 DEF Tended
  <2>4. calm => Calm'
    BY <1>0, <2>1, WhoIsWho DEF Rest, Watched, Calm, Stopping
  <2> QED BY <1>0, <2>2, <2>3, <2>4 DEF Rest
<1>3. CASE Wake(n)
  <2>1. /\ \A d \in Callers : at'[d] = IF d = n THEN "check" ELSE at[d]
        /\ at[n] = "asleep" /\ UNCHANGED <<alive, queued, slot, respawns>>
    BY <1>0, <1>3 DEF Wake, Goto
  <2>2. Watched'
    BY <1>0, <2>1, WhoIsWho DEF Rest, Watched, Stopping
  <2>3. Tended'
    BY <1>0, <2>1 DEF Tended
  <2>4. calm => Calm'
    BY <1>0, <2>1, WhoIsWho DEF Rest, Watched, Calm, Stopping
  <2> QED BY <1>0, <2>2, <2>3, <2>4 DEF Rest
<1>4. CASE Die(n)
  <2>1. /\ UNCHANGED <<at, slot, respawns>> /\ n \in alive
        /\ alive' = alive \ {n} /\ queued' = queued \cup {n}
        /\ calm => at[Main] \notin Stopping
    BY <1>0, <1>4 DEF Die, Kill
  <2>2. Watched'
    BY <1>0, <2>1, WhoIsWho DEF Rest, Watched, Stopping
  <2>3. Tended'
    BY <1>0, <2>1 DEF Tended
  <2>4. calm => Calm'
    BY <1>0, <2>1, WhoIsWho DEF Rest, Watched, Calm, Stopping
  <2> QED BY <1>0, <2>2, <2>3, <2>4 DEF Rest
<1> QED BY <1>1, <1>2, <1>3, <1>4 DEF Watch

\* The user's restarts, and quitting.
LEMMA StopRest == ASSUME TypeOK, TypeOK', Rest, Ask \/ Stop PROVE Rest'
<1>0. /\ at \in [Callers -> {"idle", "reaped", "asleep", "gone"} \cup Starting \cup Stopping]
      /\ alive \subseteq Daemons /\ queued \subseteq Daemons /\ killed \subseteq Daemons
      /\ spawned \in Nat /\ got \in [Callers -> Callers]
      /\ calm' = calm /\ calm \in BOOLEAN /\ UNCHANGED <<spawned, got, failed>>
      /\ Main \in Callers /\ slot \in Callers
  BY WhoIsWho DEF TypeOK, Callers, Ask, Stop, Flag, Take, SweepAll, Restart, Exit
<1>1. CASE Ask
  <2>1. /\ \A d \in Callers : at'[d] = IF d = Main THEN "flag" ELSE at[d]
        /\ at[Main] = "idle" /\ UNCHANGED <<alive, queued, slot, stopping, respawns, killed>>
        /\ calm => \A n \in Daemons : at[n] = "idle" /\ n \notin queued
    BY <1>0, <1>1 DEF Ask, Goto
  <2>2. Watched'
    BY <1>0, <2>1, WhoIsWho DEF Rest, Watched, Stopping
  <2>3. Tended'
    BY <1>0, <2>1 DEF Tended
  <2>4. calm => Calm'
    BY <1>0, <2>1, WhoIsWho DEF Rest, Watched, Calm, Stopping
  <2> QED BY <1>0, <2>2, <2>3, <2>4 DEF Rest
<1>2. CASE Flag
  <2>1. /\ \A d \in Callers : at'[d] = IF d = Main THEN "take" ELSE at[d]
        /\ at[Main] = "flag" /\ UNCHANGED <<alive, queued, slot, respawns, killed>> /\ stopping'
    BY <1>0, <1>2 DEF Flag, Goto
  <2>2. Watched'
    BY <1>0, <2>1, WhoIsWho DEF Rest, Watched, Stopping
  <2>3. Tended'
    BY <1>0, <2>1 DEF Tended
  <2>4. calm => Calm'
    BY <1>0, <2>1, WhoIsWho DEF Rest, Watched, Calm, Stopping
  <2> QED BY <1>0, <2>2, <2>3, <2>4 DEF Rest
<1>3. CASE Take
  <2>1. /\ \A d \in Callers : at'[d] = IF d = Main THEN "sweepAll" ELSE at[d]
        /\ at[Main] = "take" /\ UNCHANGED <<stopping, respawns>> /\ slot' = 0
        /\ alive' = alive \ {slot} /\ queued' = queued \cup (alive \cap {slot})
        /\ killed' = killed \cup (alive \cap {slot})
    BY <1>0, <1>3 DEF Take, Goto, Kill
  <2>2. Watched'
    BY <1>0, <2>1, WhoIsWho DEF Rest, Watched, Stopping
  <2>3. Tended'
    BY <1>0, <2>1 DEF Tended
  <2>4. calm => Calm'
    BY <1>0, <2>1, WhoIsWho DEF Rest, Watched, Calm, Stopping
  <2> QED BY <1>0, <2>2, <2>3, <2>4 DEF Rest
<1>4. CASE SweepAll
  <2>1. /\ \A d \in Callers : at'[d] = IF d = Main THEN "stopped" ELSE at[d]
        /\ at[Main] = "sweepAll" /\ UNCHANGED <<slot, stopping, respawns>>
        /\ alive' = {} /\ queued' = queued \cup alive /\ killed' = killed \cup alive
    BY <1>0, <1>4 DEF SweepAll, Goto, Kill
  <2>2. Watched'
    BY <1>0, <2>1, WhoIsWho DEF Rest, Watched, Stopping
  <2>3. Tended'
    BY <1>0, <2>1 DEF Tended
  <2>4. calm => Calm'
    BY <1>0, <2>1, WhoIsWho DEF Rest, Watched, Calm, Stopping
  <2> QED BY <1>0, <2>2, <2>3, <2>4 DEF Rest
<1>5. CASE Restart
  <2>1. /\ \A d \in Callers : at'[d] = IF d = Main THEN "check" ELSE at[d]
        /\ at[Main] = "stopped" /\ UNCHANGED <<alive, queued, slot, stopping, killed>>
    BY <1>0, <1>5 DEF Restart, Goto
  <2>2. Watched'
    BY <1>0, <2>1, WhoIsWho DEF Rest, Watched, Stopping
  <2>3. Tended'
    BY <1>0, <2>1 DEF Tended
  <2>4. calm => Calm'
    BY <1>0, <2>1, WhoIsWho DEF Rest, Watched, Calm, Stopping
  <2> QED BY <1>0, <2>2, <2>3, <2>4 DEF Rest
<1>6. CASE Exit
  <2>1. /\ \A d \in Callers : at'[d] = "gone"
        /\ at[Main] = "stopped" /\ UNCHANGED <<alive, queued, slot, stopping, respawns, killed>>
        /\ calm => queued = {}
    BY <1>0, <1>6 DEF Exit, Paused
  <2>2. Watched'
    BY <1>0, <2>1, WhoIsWho DEF Rest, Watched, Stopping
  <2>3. Tended'
    BY <1>0, <2>1 DEF Tended
  <2>4. calm => Calm'
    BY <1>0, <2>1, WhoIsWho DEF Rest, Watched, Calm, Stopping
  <2> QED BY <1>0, <2>2, <2>3, <2>4 DEF Rest
<1> QED BY <1>1, <1>2, <1>3, <1>4, <1>5, <1>6 DEF Stop

-----------------------------------------------------------------------------
\* The invariant holds at first.
LEMMA IndInit == Init => Ind
<1> SUFFICES ASSUME Init PROVE Ind
  OBVIOUS
<1>1. TypeOK
  BY WhoIsWho DEF Init, TypeOK, Starting, Callers, Main
<1>2. Granted
  <2>1. Pending = {Main}
    BY WhoIsWho DEF Init, Pending, Coming
  <2>2. Cardinality({Main}) = 1
    BY FS_Singleton
  <2>3. Done = 0 /\ Used = 0 /\ spawned = 0
    BY WhoIsWho, SupervisorConstants DEF Init, Done, Used, Stopping
  <2> HIDE DEF Pending
  <2>4. 0 * MaxRespawns = 0
    BY SupervisorConstants
  <2> QED BY <2>1, <2>2, <2>3, <2>4 DEF Granted
<1>3. Watched /\ Tended
  BY WhoIsWho DEF Init, Watched, Tended, Stopping
<1>4. Calm
  BY WhoIsWho DEF Init, Calm, Stopping
<1> QED BY <1>1, <1>2, <1>3, <1>4 DEF Ind

\* Every step keeps it.
LEMMA IndStep == ASSUME Ind, [Next]_vars PROVE Ind'
<1>1. TypeOK' /\ Granted'
  BY TypeStep, GrantedStep DEF Ind
<1>2. Rest
  BY DEF Ind, Rest
<1>3. CASE UNCHANGED vars
  <2>1. Rest'
    BY <1>2, <1>3 DEF vars, Rest, Watched, Tended, Calm
  <2> QED BY <1>1, <2>1 DEF Ind, Rest
<1>4. CASE Next
  <2>1. Rest'
    BY <1>1, <1>2, <1>4, StartRest, WatchRest, StopRest DEF Ind, Next
  <2> QED BY <1>1, <2>1 DEF Ind, Rest
<1> QED BY <1>3, <1>4

\* For every budget: the engine is given up only when the budget is spent, a stop was asked for
\* or the last start failed, which a watcher only logs; and where exits are heard of in
\* time and no crash overlaps a stop, the slot is honest, a stop is not taken for a crash and
\* quitting leaves no engine behind.
THEOREM SupervisorSound == Spec => []Sound
<1>1. Ind => Sound
  BY DEF Ind, Calm, Sound, SlotHonest, StopIsDeliberate, NoOrphan
<1> QED BY <1>1, IndInit, IndStep, PTL DEF Spec

\* No crash loop: whoever starts, restarts and dies meanwhile, every restart by the user is
\* good for one engine and MaxRespawns more.
THEOREM NoCrashLoop == Spec => []CrashLoopBounded
<1>1. ASSUME Ind PROVE CrashLoopBounded
  <2>1. /\ MaxRespawns \in Nat /\ respawns \in Nat /\ restarts \in Nat /\ spawned \in Nat
        /\ Done \in Nat /\ (Done = restarts \/ Done = restarts - 1)
        /\ Used \in Nat /\ Used <= MaxRespawns
        /\ spawned + Cardinality(Pending) <= 1 + Done + Done * MaxRespawns + Used
    BY <1>1, SupervisorConstants DEF Ind, TypeOK, Granted, Used, Done, Callers
  <2>2. Cardinality(Pending) \in Nat
    <3>1. IsFiniteSet(Callers)
      BY SupervisorConstants, FS_Interval DEF Callers
    <3>2. Pending \subseteq Callers
      BY DEF Pending
    <3> QED BY <3>1, <3>2, FS_Subset, FS_CardinalityType
  <2>3. Done * MaxRespawns \in Nat /\ Done * MaxRespawns <= restarts * MaxRespawns
        /\ restarts * MaxRespawns \in Nat
    <3>1. \A d \in Nat : /\ d * MaxRespawns \in Nat
                         /\ (d + 1) * MaxRespawns = d * MaxRespawns + MaxRespawns
      BY <2>1
    <3>2. Done = restarts - 1 => restarts * MaxRespawns = Done * MaxRespawns + MaxRespawns
      BY <2>1, <3>1
    <3> QED BY <2>1, <3>1, <3>2
  <2>4. (1 + restarts) * (1 + MaxRespawns) = 1 + restarts + MaxRespawns + restarts * MaxRespawns
    BY <2>1
  <2> QED BY <2>1, <2>2, <2>3, <2>4 DEF CrashLoopBounded
<1> QED BY <1>1, IndInit, IndStep, PTL DEF Spec

(***************************************************************************)
(* FORM BRIDGE: for any number of forms and kills, and every interleaving  *)
(* of handlers, event loop, pages and their commands.                      *)
(***************************************************************************)
(***************************************************************************)
(* The inductive invariant.                                                *)
(***************************************************************************)
\* The engine waits for one request, and of all handlers its alone is at work.
OneAtATime ==
  /\ \A r \in Requests : handler[r] \in {"polling", "waiting"} <=> asking = r
  /\ \A r \in Requests : r \in pending <=> asking = r /\ told[r] = "none"
  /\ \A r \in Requests : handler[r] = "none" => told[r] = "none" /\ window.shows # r

\* A window that is gone keeps nothing, one that has answered is on its way out or its
\* command is, and so is the one whose submit waits for its beat to pass.
Windows ==
  /\ window.up = "none" => window = NoWindow
  /\ window.up = "loading" => window = [NoWindow EXCEPT !.up = "loading"]
  /\ window.resolved => window.closing \/ calls # {}
  /\ \A c \in calls : c.at = "beat" => window.up = "none" \/ window.closing
  /\ \A r \in Requests : told[r] = "text" => window.shows # r

\* Where the stash, the main thread's queue and the window stand while nothing is asked, ...
Idle == stash = None /\ tasks = <<>> /\ window.up # "loading"
\* ... while an old form is waited for, ...
Closing(r) ==
  /\ stash = r /\ tasks = <<>> /\ told[r] = "none"
  /\ window.up \in {"none", "ready"} /\ (window.up = "ready" => window.closing)
  /\ window.shows # r /\ \A c \in calls : c.req # r
\* ... while the form is built, ...
Opening(r) ==
  /\ stash = r /\ calls = {} /\ told[r] = "none"
  /\ \/ tasks = <<r>> /\ window.up = "none"
     \/ tasks = <<>> /\ window.up = "loading"
\* ... and when it has been.
Shown(r) ==
  /\ stash = None /\ tasks = <<>> /\ window.up # "loading"
  /\ window.up = "ready" => window.shows = r
  /\ told[r] = "none" => \/ window.shows = r /\ ~window.resolved
                         \/ \E c \in calls : c.req = r

Stage ==
  /\ asking = None => Idle
  /\ \A r \in Requests :
       /\ handler[r] = "polling" => Closing(r)
       /\ handler[r] = "waiting" => Opening(r) \/ Shown(r)

FormInd == FormTypeOK /\ (prompt => OneAtATime /\ Windows /\ Stage)

-----------------------------------------------------------------------------
(***************************************************************************)
(* Types.                                                                  *)
(***************************************************************************)
\* The windows and commands of FormTypeOK.
WindowStates == [up : {"none", "loading", "ready"}, shows : RequestOrNone, resolved : BOOLEAN, closing : BOOLEAN]
PageCalls == [op : {"submit", "cancel"}, req : RequestOrNone, at : {"sent", "beat"}]

\* No request is the number that stands for none.
LEMMA Basics ==
  /\ Requests \subseteq Nat \ {0} /\ None = 0 /\ RequestOrNone = Requests \cup {None}
  /\ NoWindow \in WindowStates
BY FormConstants DEF Requests, None, RequestOrNone, NoWindow, WindowStates

\* A window that is asked to close stays what it is but for that.
LEMMA ClosedWindow ==
  ASSUME NEW w0 \in WindowStates
  PROVE  /\ Closed(w0) \in WindowStates
         /\ Closed(w0).up = w0.up /\ Closed(w0).shows = w0.shows /\ Closed(w0).resolved = w0.resolved
         /\ w0.up = "none" => Closed(w0) = w0
         /\ w0.up # "none" => Closed(w0).closing
         /\ w0.closing => Closed(w0).closing
<1>1. CASE w0.up = "none"
  BY <1>1 DEF Closed
<1>2. CASE w0.up # "none"
  <2> DEFINE w1 == [w0 EXCEPT !.closing = TRUE]
  <2>1. Closed(w0) = w1
    BY <1>2 DEF Closed
  <2>2. w1 \in WindowStates /\ w1.up = w0.up /\ w1.shows = w0.shows /\ w1.resolved = w0.resolved /\ w1.closing
    BY DEF WindowStates
  <2> HIDE DEF w1
  <2> QED BY <1>2, <2>1, <2>2
<1> QED BY <1>1, <1>2

\* What a page sends names the request it shows.
LEMMA CallTypes ==
  ASSUME NEW w0 \in WindowStates
  PROVE  /\ \A op \in {"submit", "cancel"} :
              /\ Call(op, w0.shows) \in PageCalls
              /\ Call(op, w0.shows).req = w0.shows /\ Call(op, w0.shows).at = "sent"
         /\ w0.resolved => Unload(w0) = {}
         /\ ~w0.resolved => Unload(w0) = {Call("cancel", w0.shows)}
         /\ Unload(w0) \subseteq PageCalls
<1>1. \A op \in {"submit", "cancel"} :
        /\ Call(op, w0.shows) \in PageCalls
        /\ Call(op, w0.shows).req = w0.shows /\ Call(op, w0.shows).at = "sent"
  BY DEF WindowStates, PageCalls, Call
<1>2. /\ w0.resolved => Unload(w0) = {}
      /\ ~w0.resolved => Unload(w0) = {Call("cancel", w0.shows)}
  BY DEF Unload
<1> QED BY <1>1, <1>2

\* A call whose beat has begun is the same call.
LEMMA BeatTypes ==
  ASSUME NEW c \in PageCalls
  PROVE  LET d == [c EXCEPT !.at = "beat"]
         IN d \in PageCalls /\ d.req = c.req /\ d.op = c.op /\ d.at = "beat"
BY DEF PageCalls

\* A page that has answered, one that shows its form, and one that is being built.
LEMMA PageTypes ==
  ASSUME NEW w0 \in WindowStates, NEW r \in RequestOrNone
  PROVE  /\ LET d == [w0 EXCEPT !.resolved = TRUE]
            IN d \in WindowStates /\ d.up = w0.up /\ d.shows = w0.shows /\ d.closing = w0.closing /\ d.resolved
         /\ LET d == [w0 EXCEPT !.up = "ready", !.shows = r]
            IN d \in WindowStates /\ d.up = "ready" /\ d.shows = r /\ d.closing = w0.closing
               /\ d.resolved = w0.resolved
         /\ LET d == [NoWindow EXCEPT !.up = "loading"]
            IN d \in WindowStates /\ d.up = "loading" /\ d.shows = None /\ d.closing = FALSE /\ d.resolved = FALSE
         /\ NoWindow.up = "none" /\ NoWindow.shows = None
         /\ NoWindow.resolved = FALSE /\ NoWindow.closing = FALSE
BY Basics DEF WindowStates, NoWindow

\* Every step keeps the types.
LEMMA FormTypeStep == ASSUME FormTypeOK, [FormNext]_formVars PROVE FormTypeOK'
<1> DEFINE HandlerStates == [Requests -> {"none", "polling", "waiting", "done"}]
<1>w. window \in WindowStates /\ calls \subseteq PageCalls
  BY DEF FormTypeOK, WindowStates, PageCalls
<1>1. CASE UNCHANGED formVars
  BY <1>1 DEF formVars, FormTypeOK
<1>2. ASSUME NEW r \in Requests, AskForm(r) PROVE FormTypeOK'
  <2>1. window' \in WindowStates
    BY <1>2, <1>w, ClosedWindow DEF AskForm
  <2>2. tasks' \in Seq(Requests)
    BY <1>2 DEF AskForm, FormTypeOK
  <2>3. handler' \in HandlerStates
    BY <1>2 DEF AskForm, FormTypeOK
  <2>4. asking' \in RequestOrNone /\ stash' \in RequestOrNone /\ pending' \subseteq Requests
    BY <1>2, Basics DEF AskForm, FormTypeOK
  <2> QED BY <1>2, <2>1, <2>2, <2>3, <2>4 DEF AskForm, FormTypeOK, WindowStates
<1>3. ASSUME NEW r \in Requests, Polled(r) \/ Answer(r) \/ Timeout(r) PROVE FormTypeOK'
  <2>1. tasks' \in Seq(Requests)
    BY <1>3 DEF Polled, Answer, Timeout, FormTypeOK
  <2>2. handler' \in HandlerStates
    BY <1>3 DEF Polled, Answer, Timeout, Reply, FormTypeOK
  <2>3. asking' \in RequestOrNone /\ pending' \subseteq Requests
    BY <1>3, Basics DEF Polled, Answer, Timeout, Reply, FormTypeOK
  <2>4. UNCHANGED <<told, stash, window, calls, kills, prompt>>
    BY <1>3 DEF Polled, Answer, Timeout
  <2> QED BY <2>1, <2>2, <2>3, <2>4 DEF FormTypeOK
<1>4. CASE EngineRestarts
  <2>1. kills' \in 0..MaxKills
    BY <1>4, FormConstants DEF EngineRestarts, FormTypeOK
  <2> QED BY <1>4, <2>1, Basics DEF EngineRestarts, FormTypeOK
<1>5. CASE OpenSurface
  <2>1. window' \in WindowStates
    BY <1>5, <1>w, ClosedWindow, PageTypes, Basics DEF OpenSurface
  <2>2. tasks' \in Seq(Requests)
    BY <1>5 DEF OpenSurface, FormTypeOK
  <2> QED BY <1>5, <2>1, <2>2 DEF OpenSurface, FormTypeOK, WindowStates
<1>6. CASE Destroy
  <2>1. calls' \subseteq PageCalls /\ window' \in WindowStates
    BY <1>6, <1>w, CallTypes, Basics DEF Destroy
  <2> QED BY <1>6, <2>1 DEF Destroy, FormTypeOK, WindowStates, PageCalls
<1>7. CASE Load
  <2>1. window' \in WindowStates
    BY <1>7, <1>w, PageTypes DEF Load, FormTypeOK
  <2> QED BY <1>7, <2>1, Basics DEF Load, FormTypeOK, WindowStates
<1>8. ASSUME NEW c \in calls, form_cancel(c) \/ SubmitCloses(c) \/ SubmitResolves(c) PROVE FormTypeOK'
  <2>1. c \in PageCalls /\ [c EXCEPT !.at = "beat"] \in PageCalls
    BY <1>w, BeatTypes
  <2>2. window' \in WindowStates
    BY <1>8, <1>w, ClosedWindow DEF form_cancel, SubmitCloses, SubmitResolves
  <2>3. calls' \subseteq PageCalls
    BY <1>8, <1>w, <2>1 DEF form_cancel, SubmitCloses, SubmitResolves
  <2>4. pending' \subseteq Requests
    BY <1>8 DEF form_cancel, SubmitCloses, SubmitResolves, resolve, FormTypeOK
  <2>5. told' \in [Requests -> {"none", "text", "cancelled"}]
    BY <1>8 DEF form_cancel, SubmitCloses, SubmitResolves, resolve, FormTypeOK
  <2>6. UNCHANGED <<asking, handler, stash, tasks, kills, prompt>>
    BY <1>8 DEF form_cancel, SubmitCloses, SubmitResolves
  <2> QED BY <2>2, <2>3, <2>4, <2>5, <2>6 DEF FormTypeOK, WindowStates, PageCalls
<1>9. CASE Submit \/ Cancel \/ UserCloses
  <2>1. window' \in WindowStates
    <3>1. [window EXCEPT !.resolved = TRUE] \in WindowStates /\ Closed(window) \in WindowStates
      BY <1>w, ClosedWindow, PageTypes, Basics
    <3> QED BY <1>9, <3>1 DEF Submit, Cancel, UserCloses
  <2>2. calls' \subseteq PageCalls
    BY <1>9, <1>w, CallTypes DEF Submit, Cancel, UserCloses
  <2>3. UNCHANGED <<asking, handler, pending, told, stash, tasks, kills, prompt>>
    BY <1>9 DEF Submit, Cancel, UserCloses
  <2> QED BY <2>1, <2>2, <2>3 DEF FormTypeOK, WindowStates, PageCalls
<1> QED BY <1>1, <1>2, <1>3, <1>4, <1>5, <1>6, <1>7, <1>8, <1>9 DEF FormNext

-----------------------------------------------------------------------------
(***************************************************************************)
(* The other parts of the invariant, in a prompt behaviour.                *)
(***************************************************************************)
\* The engine waits for nothing, for the old form to go, or for its own.
LEMMA Phases ==
  ASSUME FormTypeOK, OneAtATime, Stage
  PROVE  \/ /\ asking = None /\ Idle /\ pending = {}
            /\ \A q \in Requests : handler[q] \in {"none", "done"}
         \/ /\ asking \in Requests
            /\ \A q \in Requests : q # asking => handler[q] \in {"none", "done"}
            /\ \/ handler[asking] = "polling" /\ Closing(asking)
               \/ handler[asking] = "waiting" /\ (Opening(asking) \/ Shown(asking))
BY Basics DEF FormTypeOK, OneAtATime, Stage

\* Every step of a prompt behaviour keeps it well.
LEMMA PromptStep ==
  ASSUME FormTypeOK, prompt, OneAtATime, Windows, Stage, [FormNext]_formVars
  PROVE  (OneAtATime /\ Windows /\ Stage)'
<1>w. window \in WindowStates /\ calls \subseteq PageCalls
  BY DEF FormTypeOK, WindowStates, PageCalls
<1>h. handler \in [Requests -> {"none", "polling", "waiting", "done"}]
      /\ told \in [Requests -> {"none", "text", "cancelled"}] /\ pending \subseteq Requests
      /\ asking \in RequestOrNone /\ tasks \in Seq(Requests)
  BY DEF FormTypeOK
<1>c. /\ Closed(window) \in WindowStates
      /\ Closed(window).up = window.up /\ Closed(window).shows = window.shows
      /\ Closed(window).resolved = window.resolved
      /\ window.up = "none" => Closed(window) = window
      /\ window.up # "none" => Closed(window).closing
      /\ window.closing => Closed(window).closing
  BY <1>w, ClosedWindow
<1>n. /\ NoWindow.up = "none" /\ NoWindow.shows = None
      /\ NoWindow.resolved = FALSE /\ NoWindow.closing = FALSE
      /\ None \notin Requests
  BY PageTypes, Basics
<1>1. CASE UNCHANGED formVars
  BY <1>1 DEF formVars, OneAtATime, Windows, Stage, Idle, Closing, Opening, Shown
<1>2. ASSUME NEW r \in Requests, AskForm(r) PROVE (OneAtATime /\ Windows /\ Stage)'
  <2>1. /\ asking = None /\ calls = {} /\ tasks = <<>> /\ ~window.closing /\ handler[r] = "none"
        /\ asking' = r /\ pending' = pending \cup {r} /\ stash' = r
        /\ UNCHANGED <<told, calls>>
    BY <1>2 DEF AskForm, Quiet
  <2>2. /\ Idle /\ pending = {} /\ \A q \in Requests : handler[q] \in {"none", "done"}
        /\ told[r] = "none" /\ window.shows # r
    BY <2>1, <1>n, Phases DEF OneAtATime
  <2>3. CASE window.up # "none"
    <3>1. window' = Closed(window) /\ handler' = [handler EXCEPT ![r] = "polling"] /\ tasks' = tasks
      BY <1>2, <2>3 DEF AskForm, MustClose
    <3>2. \A q \in Requests : handler'[q] = IF q = r THEN "polling" ELSE handler[q]
      BY <1>h, <3>1
    <3>3. OneAtATime'
      BY <1>c, <2>1, <2>2, <3>1, <3>2 DEF OneAtATime
    <3>4. Windows'
      <4>1. window'.up # "none" /\ window'.up # "loading" /\ window'.closing /\ window'.shows = window.shows
        BY <1>c, <2>2, <2>3, <3>1 DEF Idle
      <4>2. calls' = {} /\ told' = told
        BY <2>1
      <4> QED BY <4>1, <4>2 DEF Windows
    <3>5. (Closing(r))'
      BY <1>c, <1>w, <2>1, <2>2, <2>3, <3>1 DEF Closing, Idle, WindowStates
    <3>6. Stage'
      BY <1>n, <2>1, <2>2, <3>2, <3>5 DEF Stage
    <3> QED BY <3>3, <3>4, <3>6
  <2>4. CASE window.up = "none"
    <3>1. window' = window /\ handler' = [handler EXCEPT ![r] = "waiting"] /\ tasks' = Append(tasks, r)
      BY <1>2, <2>4 DEF AskForm, MustClose
    <3>2. \A q \in Requests : handler'[q] = IF q = r THEN "waiting" ELSE handler[q]
      BY <1>h, <3>1
    <3>3. OneAtATime'
      BY <2>1, <2>2, <3>1, <3>2 DEF OneAtATime
    <3>4. Windows'
      BY <2>1, <3>1 DEF Windows
    <3>5. tasks' = <<r>>
      BY <2>1, <3>1
    <3>6. (Opening(r))'
      BY <2>1, <2>2, <2>4, <3>1, <3>5 DEF Opening
    <3>7. Stage'
      BY <1>n, <2>1, <2>2, <3>2, <3>6 DEF Stage
    <3> QED BY <3>3, <3>4, <3>7
  <2> QED BY <2>3, <2>4
<1>3. ASSUME NEW r \in Requests, Polled(r) PROVE (OneAtATime /\ Windows /\ Stage)'
  <2>1. /\ handler[r] = "polling" /\ window.up = "none" /\ calls = {} /\ tasks' = Append(tasks, r)
        /\ handler' = [handler EXCEPT ![r] = "waiting"]
        /\ UNCHANGED <<asking, pending, told, stash, window, calls>>
    BY <1>3 DEF Polled
  <2>2. asking = r /\ Closing(r)
    BY <2>1 DEF OneAtATime, Stage
  <2>3. \A q \in Requests : handler'[q] = IF q = r THEN "waiting" ELSE handler[q]
    BY <1>h, <2>1
  <2>4. OneAtATime' /\ Windows'
    BY <2>1, <2>2, <2>3 DEF OneAtATime, Windows
  <2>5. tasks' = <<r>>
    BY <2>1, <2>2 DEF Closing
  <2>6. (Opening(r))'
    BY <2>1, <2>2, <2>5 DEF Opening, Closing
  <2>7. \A q \in Requests : q # r => handler'[q] \notin {"polling", "waiting"}
    BY <2>2, <2>3 DEF OneAtATime
  <2> QED BY <1>n, <2>1, <2>2, <2>3, <2>4, <2>6, <2>7 DEF Stage
<1>4. ASSUME NEW r \in Requests, Answer(r) \/ Timeout(r) PROVE (OneAtATime /\ Windows /\ Stage)'
  <2>1. /\ handler[r] = "waiting" /\ Reply(r) /\ UNCHANGED <<told, stash, tasks, window, calls>>
        /\ told[r] # "none" \/ window.up = "ready"
        /\ (told[r] # "none" /\ pending' = pending) \/ pending' = pending \ {r}
    BY <1>4 DEF Answer, Timeout, MayExpire
  <2>2. asking = r /\ (Opening(r) \/ Shown(r))
    BY <2>1 DEF OneAtATime, Stage
  <2>3. Idle
    BY <2>1, <2>2 DEF Opening, Shown, Idle
  <2>4. asking' = None /\ \A q \in Requests : handler'[q] = IF q = r THEN "done" ELSE handler[q]
    BY <1>h, <2>1, <2>2 DEF Reply
  <2>5. pending' = pending \ {r}
    BY <1>4, <2>1, <2>2 DEF Answer, Timeout, OneAtATime
  <2>6. pending' = {}
    BY <1>h, <2>2, <2>5 DEF OneAtATime
  <2>7. OneAtATime'
    BY <1>n, <2>1, <2>2, <2>4, <2>6 DEF OneAtATime
  <2>8. Windows' /\ Idle'
    BY <2>1, <2>3 DEF Windows, Idle
  <2>9. \A q \in Requests : handler'[q] \notin {"polling", "waiting"}
    BY <2>2, <2>4 DEF OneAtATime
  <2> QED BY <2>7, <2>8, <2>9 DEF Stage
<1>5. CASE EngineRestarts
  BY <1>5 DEF EngineRestarts
\* From here on neither the engine nor a handler moves.
<1>s. ASSUME UNCHANGED <<asking, handler>>, OneAtATime', Windows',
             asking = None => Idle',
             ASSUME asking \in Requests, handler[asking] = "polling", Closing(asking)
             PROVE  (Closing(asking))',
             ASSUME asking \in Requests, handler[asking] = "waiting", Opening(asking) \/ Shown(asking)
             PROVE  (Opening(asking) \/ Shown(asking))'
      PROVE  (OneAtATime /\ Windows /\ Stage)'
  <2>1. ASSUME NEW r \in Requests, handler'[r] = "polling" PROVE (Closing(r))'
    <3>1. asking = r
      BY <1>s, <2>1 DEF OneAtATime
    <3>2. Closing(asking) /\ handler[asking] = "polling"
      BY <1>s, <2>1, <3>1 DEF Stage
    <3> QED BY <1>s, <3>1, <3>2
  <2>2. ASSUME NEW r \in Requests, handler'[r] = "waiting" PROVE (Opening(r) \/ Shown(r))'
    <3>1. asking = r
      BY <1>s, <2>2 DEF OneAtATime
    <3>2. handler[asking] = "waiting" /\ (Opening(asking) \/ Shown(asking))
      BY <1>s, <2>2, <3>1 DEF Stage
    <3> QED BY <1>s, <3>1, <3>2
  <2> QED BY <1>s, <2>1, <2>2 DEF Stage
<1>6. CASE OpenSurface
  <2>1. /\ tasks # <<>> /\ tasks' = Tail(tasks)
        /\ window' = IF window.up = "none" THEN [NoWindow EXCEPT !.up = "loading"] ELSE Closed(window)
        /\ UNCHANGED <<asking, handler, pending, told, stash, calls>>
    BY <1>6 DEF OpenSurface
  <2>2. /\ asking \in Requests /\ handler[asking] = "waiting" /\ Opening(asking) /\ tasks = <<asking>>
        /\ window.up = "none"
    BY <2>1, Phases DEF Idle, Closing, Opening, Shown
  <2>3. /\ window' = [NoWindow EXCEPT !.up = "loading"] /\ tasks' = <<>>
        /\ window'.up = "loading" /\ window'.shows = None
        /\ window'.closing = FALSE /\ window'.resolved = FALSE
    <3> DEFINE w1 == [NoWindow EXCEPT !.up = "loading"]
    <3>1. w1.up = "loading" /\ w1.shows = None /\ w1.closing = FALSE /\ w1.resolved = FALSE
      BY DEF NoWindow
    <3>2. window' = w1
      BY <2>1, <2>2
    <3>3. tasks' = <<>>
      BY <2>1, <2>2
    <3> HIDE DEF w1
    <3>4. window'.up = "loading" /\ window'.shows = None /\ window'.closing = FALSE /\ window'.resolved = FALSE
      BY <3>1, <3>2
    <3> QED BY <3>2, <3>3, <3>4 DEF w1
  <2>4. OneAtATime'
    BY <1>n, <2>1, <2>3 DEF OneAtATime
  <2>5. calls = {}
    BY <2>2 DEF Opening
  <2>6. Windows'
    BY <1>n, <2>1, <2>3, <2>5 DEF Windows
  <2>7. (Opening(asking))'
    BY <2>1, <2>2, <2>3 DEF Opening
  <2> QED BY <1>n, <1>s, <2>1, <2>2, <2>4, <2>6, <2>7
<1>7. CASE Load
  <2>1. /\ window.up = "loading" /\ window' = [window EXCEPT !.up = "ready", !.shows = stash]
        /\ stash' = None /\ UNCHANGED <<asking, handler, pending, told, tasks, calls>>
    BY <1>7 DEF Load
  <2>2. /\ asking \in Requests /\ handler[asking] = "waiting" /\ Opening(asking) /\ tasks = <<>>
    BY <2>1, Phases DEF Idle, Closing, Opening, Shown
  <2>3. stash = asking /\ calls = {} /\ told[asking] = "none"
    BY <2>2 DEF Opening
  <2>4. window = [NoWindow EXCEPT !.up = "loading"]
    BY <2>1 DEF Windows
  <2>5. /\ window'.up = "ready" /\ window'.shows = asking
        /\ window'.closing = FALSE /\ window'.resolved = FALSE
    <3> DEFINE w0 == [NoWindow EXCEPT !.up = "loading"]
               w1 == [w0 EXCEPT !.up = "ready", !.shows = asking]
    <3>1. w1.up = "ready" /\ w1.shows = asking /\ w1.closing = FALSE /\ w1.resolved = FALSE
      BY DEF NoWindow
    <3>2. window' = w1
      BY <2>1, <2>3, <2>4
    <3> HIDE DEF w1
    <3> QED BY <3>1, <3>2
  <2>6. OneAtATime'
    BY <2>1, <2>2, <2>5 DEF OneAtATime
  <2>7. Windows'
    BY <2>1, <2>3, <2>5 DEF Windows
  <2>8. (Shown(asking))'
    BY <2>1, <2>2, <2>5 DEF Shown
  <2> QED BY <1>n, <1>s, <2>1, <2>2, <2>6, <2>7, <2>8
<1>8. CASE Destroy
  <2>1. /\ window.up # "none" /\ window.closing /\ window' = NoWindow
        /\ calls' = calls \cup Unload(window)
        /\ UNCHANGED <<asking, handler, pending, told, stash, tasks>>
    BY <1>8 DEF Destroy
  <2>2. window.up = "ready"
    <3>1. window.up # "loading"
      BY <1>w, <2>1, PageTypes, Basics DEF Windows
    <3> QED BY <1>w, <2>1, <3>1 DEF WindowStates
  <2>3. /\ \A c \in calls' : c \in calls \/ c.req = window.shows
        /\ ~window.resolved => \E c \in calls' : c.req = window.shows
    BY <1>w, <2>1, CallTypes
  <2>4. OneAtATime'
    BY <1>n, <2>1 DEF OneAtATime
  <2>5. Windows'
    BY <1>n, <2>1 DEF Windows
  <2>6. ASSUME asking \in Requests, Closing(asking) PROVE (Closing(asking))'
    <3>1. \A c \in calls' : c.req # asking
      BY <2>3, <2>6 DEF Closing
    <3> QED BY <1>n, <2>1, <2>6, <3>1 DEF Closing
  <2>7. ASSUME asking \in Requests, Opening(asking) \/ Shown(asking) PROVE (Shown(asking))'
    <3>1. Shown(asking) /\ window.shows = asking
      BY <2>2, <2>7 DEF Opening, Shown
    <3>2. told[asking] = "none" => \E c \in calls' : c.req = asking
      BY <2>1, <2>3, <3>1 DEF Shown
    <3> QED BY <1>n, <2>1, <3>1, <3>2 DEF Shown
  <2>8. asking = None => Idle'
    BY <1>n, <2>1 DEF Stage, Idle
  <2> QED BY <1>s, <2>1, <2>4, <2>5, <2>6, <2>7, <2>8
<1>9. CASE Submit \/ Cancel
  <2> DEFINE w1 == [window EXCEPT !.resolved = TRUE]
  <2>1. PICK op \in {"submit", "cancel"} :
          /\ window.up = "ready" /\ ~window.closing /\ window' = w1
          /\ calls' = calls \cup {Call(op, window.shows)}
          /\ UNCHANGED <<asking, handler, pending, told, stash, tasks>>
    BY <1>9 DEF Submit, Cancel
  <2>2. w1.up = window.up /\ w1.shows = window.shows /\ w1.closing = window.closing /\ w1.resolved
    BY <1>w, PageTypes, Basics
  <2> HIDE DEF w1
  <2>3. Call(op, window.shows).req = window.shows /\ Call(op, window.shows).at = "sent"
    BY <1>w, CallTypes
  <2>4. OneAtATime'
    BY <2>1, <2>2 DEF OneAtATime
  <2>5. Windows'
    BY <2>1, <2>2, <2>3 DEF Windows
  <2>6. asking = None => Idle'
    BY <2>1, <2>2 DEF Stage, Idle
  <2>7. ~Closing(asking)
    BY <2>1 DEF Closing
  <2>8. ASSUME Opening(asking) \/ Shown(asking) PROVE (Shown(asking))'
    <3>1. Shown(asking) /\ window.shows = asking
      BY <2>1, <2>8 DEF Opening, Shown
    <3>2. \E c \in calls' : c.req = asking
      BY <2>1, <2>3, <3>1
    <3> QED BY <2>1, <2>2, <3>1, <3>2 DEF Shown
  <2> QED BY <1>s, <2>1, <2>4, <2>5, <2>6, <2>7, <2>8
\* A window that is asked to close.
<1>10. ASSUME UNCHANGED <<asking, handler, pending, told, stash, tasks>>, window' = Closed(window),
              \A c \in calls' : \E d \in calls : c.req = d.req,
              \A d \in calls : d.req = asking => \E c \in calls' : c.req = asking,
              calls # {} \/ window.up = "ready",
              \A c \in calls' : c.at = "beat" => c \in calls \/ Closed(window).up = "none"
                                                          \/ Closed(window).closing
       PROVE  (OneAtATime /\ Windows /\ Stage)'
  <2>1. OneAtATime'
    BY <1>10, <1>c DEF OneAtATime
  <2>2. ~Opening(asking)
    BY <1>10 DEF Opening
  <2>3. ASSUME Closing(asking) PROVE (Closing(asking))'
    BY <1>10, <1>c, <2>3 DEF Closing
  <2>4. ASSUME Shown(asking) PROVE (Shown(asking))'
    BY <1>10, <1>c, <2>4 DEF Shown
  <2>5. asking = None => Idle'
    BY <1>10, <1>c DEF Stage, Idle
  <2>6. Windows'
    <3>1. CASE window.up = "none"
      BY <1>10, <1>c, <1>n, <3>1 DEF Windows
    <3>2. CASE window.up # "none"
      <4>1. window'.up # "none" /\ window'.closing /\ window'.shows = window.shows
        BY <1>10, <1>c, <3>2
      <4>2. window'.up # "loading"
        <5>1. CASE asking = None
          BY <1>10, <1>c, <5>1 DEF Stage, Idle
        <5>2. CASE asking # None
          BY <1>10, <1>c, <2>2, <5>2, Phases DEF Closing, Shown
        <5> QED BY <5>1, <5>2
      <4> QED BY <1>10, <4>1, <4>2 DEF Windows
    <3> QED BY <3>1, <3>2
  <2> QED BY <1>10, <1>s, <2>1, <2>2, <2>3, <2>4, <2>5, <2>6
<1>11. CASE UserCloses
  <2>1. /\ window.up = "ready" /\ window' = Closed(window)
        /\ UNCHANGED <<asking, handler, pending, told, stash, tasks, calls>>
    BY <1>11 DEF UserCloses
  <2> QED BY <1>10, <2>1
<1>12. ASSUME NEW c \in calls, SubmitCloses(c) PROVE (OneAtATime /\ Windows /\ Stage)'
  <2> DEFINE d == [c EXCEPT !.at = "beat"]
  <2>1. /\ window' = Closed(window) /\ calls' = (calls \ {c}) \cup {d}
        /\ UNCHANGED <<asking, handler, pending, told, stash, tasks>>
    BY <1>12 DEF SubmitCloses
  <2>2. d.req = c.req
    BY <1>w, BeatTypes
  <2> HIDE DEF d
  <2>3. /\ \A b \in calls' : \E e \in calls : b.req = e.req
        /\ \A e \in calls : e.req = asking => \E b \in calls' : b.req = asking
        /\ \A b \in calls' : b \in calls \/ Closed(window).up = "none" \/ Closed(window).closing
    BY <1>c, <2>1, <2>2
  <2> QED BY <1>10, <2>1, <2>3
<1>13. ASSUME NEW c \in calls, form_cancel(c) \/ SubmitResolves(c) PROVE (OneAtATime /\ Windows /\ Stage)'
  <2>1. /\ \E reply \in {"text", "cancelled"} : resolve(c.req, reply) /\ (reply = "text" => window.up = "none")
        /\ calls' = calls \ {c} /\ UNCHANGED <<asking, handler, stash, tasks>>
        /\ window' = Closed(window)
    <3>1. CASE form_cancel(c)
      BY <3>1 DEF form_cancel
    <3>2. CASE SubmitResolves(c)
      <4>1. window.up = "none"
        BY <3>2 DEF SubmitResolves, BeatOver, Windows
      <4> QED BY <1>c, <3>2, <4>1 DEF SubmitResolves
    <3> QED BY <1>13, <3>1, <3>2
  <2>2. PICK reply \in {"text", "cancelled"} : resolve(c.req, reply) /\ (reply = "text" => window.up = "none")
    BY <2>1
  <2>3. c.req \in RequestOrNone /\ ~Opening(asking)
    BY <1>w DEF PageCalls, Opening
  <2>4. CASE c.req \in pending
    <3>1. asking = c.req /\ asking \in Requests /\ told[asking] = "none"
      BY <1>h, <2>4 DEF OneAtATime
    <3>2. handler[asking] = "waiting" /\ Shown(asking)
      BY <1>n, <2>3, <3>1, Phases DEF Closing
    <3>3. pending' = pending \ {asking} /\ told' = [told EXCEPT ![asking] = reply]
      BY <2>2, <2>4, <3>1, <3>2 DEF resolve
    <3>4. \A q \in Requests : told'[q] = IF q = asking THEN reply ELSE told[q]
      BY <1>h, <3>3
    <3>5. OneAtATime'
      BY <1>c, <2>1, <3>1, <3>2, <3>3, <3>4 DEF OneAtATime
    <3>6. Windows'
      <4>1. \A q \in Requests : told'[q] = "text" => window'.shows # q
        BY <1>c, <1>n, <2>1, <2>2, <3>4 DEF Windows
      <4>2. CASE window.up = "none"
        BY <1>c, <1>n, <2>1, <4>1, <4>2 DEF Windows
      <4>3. CASE window.up # "none"
        <5>1. window'.up # "none" /\ window'.closing /\ window'.up # "loading"
          BY <1>c, <2>1, <3>2, <4>3 DEF Shown
        <5> QED BY <4>1, <5>1 DEF Windows
      <4> QED BY <4>2, <4>3
    <3>7. (Shown(asking))'
      BY <1>c, <2>1, <3>1, <3>2, <3>4 DEF Shown
    <3> QED BY <1>n, <1>s, <2>1, <3>1, <3>2, <3>5, <3>6, <3>7
  <2>5. CASE c.req \notin pending
    <3>1. UNCHANGED <<pending, told>>
      BY <2>2, <2>5 DEF resolve
    <3>2. ASSUME NEW e \in calls, e.req = asking, asking \in Requests, told[asking] = "none"
          PROVE  \E b \in calls' : b.req = asking
      BY <2>1, <2>5, <3>2 DEF OneAtATime
    <3>3. OneAtATime'
      BY <1>c, <2>1, <3>1 DEF OneAtATime
    <3>4. ASSUME Closing(asking) PROVE (Closing(asking))'
      BY <1>c, <2>1, <3>1, <3>4 DEF Closing
    <3>5. ASSUME asking \in Requests, Shown(asking) PROVE (Shown(asking))'
      BY <1>c, <2>1, <3>1, <3>2, <3>5 DEF Shown
    <3>6. asking = None => Idle'
      BY <1>c, <2>1 DEF Stage, Idle
    <3>7. Windows'
      <4>1. CASE window.up = "none"
        BY <1>c, <1>n, <2>1, <3>1, <4>1 DEF Windows
      <4>2. CASE window.up # "none"
        <5>1. window'.up # "none" /\ window'.closing /\ window'.shows = window.shows
          BY <1>c, <2>1, <4>2
        <5>2. window'.up # "loading"
          <6>1. CASE asking = None
            BY <1>c, <2>1, <6>1 DEF Stage, Idle
          <6>2. CASE asking # None
            BY <1>c, <2>1, <2>3, <6>2, Phases DEF Closing, Shown
          <6> QED BY <6>1, <6>2
        <5> QED BY <3>1, <5>1, <5>2 DEF Windows
      <4> QED BY <4>1, <4>2
    <3> QED BY <1>s, <2>1, <2>3, <3>3, <3>4, <3>5, <3>6, <3>7
  <2> QED BY <2>4, <2>5
<1> QED BY <1>1, <1>2, <1>3, <1>4, <1>5, <1>6, <1>7, <1>8, <1>9, <1>11, <1>12, <1>13 DEF FormNext

-----------------------------------------------------------------------------
(***************************************************************************)
(* The theorems.                                                           *)
(***************************************************************************)
\* At the start there is no form and nothing is asked.
LEMMA FormIndInit == FormInit => FormInd
<1> SUFFICES ASSUME FormInit PROVE FormInd
  OBVIOUS
<1>1. FormTypeOK
  <2>1. window \in WindowStates /\ calls \subseteq PageCalls
    BY Basics DEF FormInit
  <2>2. kills \in 0..MaxKills /\ tasks \in Seq(Requests)
    BY FormConstants DEF FormInit
  <2>3. asking \in RequestOrNone /\ stash \in RequestOrNone
    BY Basics DEF FormInit
  <2>4. /\ handler \in [Requests -> {"none", "polling", "waiting", "done"}]
        /\ told \in [Requests -> {"none", "text", "cancelled"}]
        /\ pending \subseteq Requests /\ prompt \in BOOLEAN
    BY DEF FormInit
  <2> QED BY <2>1, <2>2, <2>3, <2>4 DEF FormTypeOK, WindowStates, PageCalls
<1>2. OneAtATime
  <2>1. \A r \in Requests : handler[r] = "none" /\ told[r] = "none" /\ r \notin pending
    BY DEF FormInit
  <2>2. asking = None /\ window.shows = None /\ None \notin Requests
    BY Basics DEF FormInit, NoWindow
  <2> QED BY <2>1, <2>2 DEF OneAtATime
<1>3. Windows
  BY Basics, PageTypes DEF FormInit, Windows
<1>4. Stage
  BY PageTypes, Basics DEF FormInit, Stage, Idle
<1> QED BY <1>1, <1>2, <1>3, <1>4 DEF FormInd

\* Every step keeps the invariant, prompt behaviours staying prompt.
LEMMA FormIndStep == FormInd /\ [FormNext]_formVars => FormInd'
<1> SUFFICES ASSUME FormInd, [FormNext]_formVars PROVE FormInd'
  OBVIOUS
<1>1. prompt' = prompt
  BY DEF FormNext, formVars, AskForm, Polled, Answer, Timeout, EngineRestarts, OpenSurface, Destroy, Load, form_cancel,
         SubmitCloses, SubmitResolves, Submit, Cancel, UserCloses
<1> QED BY <1>1, FormTypeStep, PromptStep DEF FormInd

\* The invariant holds throughout.
LEMMA IndInvariant == FormSpec => []FormInd
BY FormIndInit, FormIndStep, PTL DEF FormSpec

\* However forms, timeouts and late commands follow each other: when things are prompt, a
\* handler that waits can be answered, and the form that can be filled in is its own.
THEOREM FormsSound == FormSpec => []FormSound
<1>1. FormInd => FormSound
  <2> SUFFICES ASSUME FormInd PROVE FormSound
    OBVIOUS
  <2>1. FormTypeOK
    BY DEF FormInd
  <2>2. Answerable
    <3> SUFFICES ASSUME prompt, NEW r \in Requests, MayExpire(r)
                 PROVE  /\ r \in pending
                        /\ \/ stash = r /\ (tasks /= <<>> \/ window.up = "loading")
                           \/ window.shows = r /\ ~window.resolved
                           \/ \E c \in calls : c.req = r
      BY DEF Answerable
    <3>1. handler[r] = "waiting" /\ told[r] = "none"
      BY DEF MayExpire
    <3>2. r \in pending
      BY <3>1 DEF FormInd, OneAtATime
    <3>3. Opening(r) \/ Shown(r)
      BY <3>1 DEF FormInd, Stage
    <3> QED BY <3>1, <3>2, <3>3 DEF Opening, Shown
  <2>3. FreshForm
    <3> SUFFICES ASSUME prompt, asking /= None, handler[asking] = "waiting", window.up = "ready"
                 PROVE  window.shows = asking
      BY DEF FreshForm
    <3>1. asking \in Requests
      BY <2>1, Basics DEF FormTypeOK
    <3> QED BY <3>1 DEF FormInd, Stage, Opening, Shown
  <2> QED BY <2>1, <2>2, <2>3 DEF FormSound
<1> QED BY <1>1, IndInvariant, PTL

\* What the engine injects never lands in the form: the form is gone when the text is read.
THEOREM FormIsGone == FormSpec => GoneBeforeAnswer
<1>1. FormInd /\ [FormNext]_formVars
        => [\A r \in Requests :
              prompt /\ asking = r /\ asking' = None /\ handler'[r] = "done" /\ told[r] = "text" =>
                window.shows /= r]_formVars
  BY DEF FormInd, Windows
<1> QED BY <1>1, IndInvariant, PTL DEF FormSpec, GoneBeforeAnswer

(***************************************************************************)
(* CLIPBOARD HISTORY: for any contents, sizes and caps, and every          *)
(* interleaving of the watcher, picks, the user, errors and crashes.       *)
(***************************************************************************)
\* What the watcher and a pick hold came from the clipboard after something was copied, and
\* entries wait to be dropped only while they are dropped.
Held ==
  /\ count > 0 => board.what \in Contents
  /\ w.at # "asleep" => count > 0
  /\ w.at = "asleep" => w = Asleep
  /\ w.at = "record" => w.got.what \in Contents
  /\ w.at \in {"file", "row"} <=> w.doomed # <<>>
  /\ pick.at # "none" => pick.what \in Contents

Pictures == {i \in DOMAIN row : row[i].what \in Images}

\* The file of the entry that is being pruned is gone, unless it could not be removed.
Filed == FilesMatch /\ files \cap Half \subseteq torn

Condemned == {w.doomed[k] : k \in DOMAIN w.doomed}

\* What is not condemned is within both caps, once the scan has been made.
Capped == ~loose /\ w.at # "scan" => WithinBoth(Unpinned \ Condemned)

ClipInd == ClipTypeOK /\ Held /\ NoDuplicate /\ Filed /\ Capped

-----------------------------------------------------------------------------
\* A set of numbers has a smallest one.
LEMMA Smallest ==
  ASSUME NEW T, T \subseteq Nat, T # {} PROVE \E x \in T : \A y \in T : x <= y
<1> DEFINE S == {0..x : x \in T}
<1>1. IsWellFoundedOn(StrictSubsetOrdering(Nat), FiniteSubsetsOf(Nat))
  BY FS_StrictSubsetOrderingWellFounded
<1>2. S # {}
  OBVIOUS
<1>3. S \subseteq FiniteSubsetsOf(Nat)
  <2> SUFFICES ASSUME NEW x \in T PROVE 0..x \in FiniteSubsetsOf(Nat)
    OBVIOUS
  <2>1. IsFiniteSet(0..x) /\ 0..x \in SUBSET Nat
    BY FS_Interval
  <2> QED BY <2>1 DEF FiniteSubsetsOf
<1>4. PICK s \in S : \A r \in S : ~(<<r, s>> \in StrictSubsetOrdering(Nat))
  <2> HIDE DEF S
  <2> QED BY <1>1, <1>2, <1>3, WFMin
<1>5. PICK x \in T : s = 0..x
  OBVIOUS
<1>6. ASSUME NEW y \in T, ~(x <= y) PROVE FALSE
  <2>1. 0..y \in S
    OBVIOUS
  <2>2. 0..y \subseteq 0..x /\ x \in 0..x /\ x \notin 0..y /\ 0..x \subseteq Nat
    BY <1>6
  <2>3. <<0..y, s>> \in StrictSubsetOrdering(Nat)
    <3>1. 0..y # s /\ 0..y \subseteq s /\ 0..y \in SUBSET Nat /\ s \in SUBSET Nat
      BY <2>2, <1>5
    <3> HIDE DEF S
    <3> QED BY <3>1 DEF StrictSubsetOrdering
  <2> QED BY <1>4, <2>1, <2>3
<1> QED BY <1>6

\* What lists members of a set is a sequence of them.
LEMMA ListIsSeq == ASSUME NEW S, NEW n \in Nat, NEW q \in [1..n -> S] PROVE q \in Seq(S) /\ DOMAIN q = 1..n
<1>1. [1..n -> S] \in {[1..m -> S] : m \in Nat}
  OBVIOUS
<1> QED BY <1>1, SeqDef

\* The units that entries take, if r is the table.
Units(ids, r) == {u \in ids \X (1..3) : u[2] <= Size(r[u[1]].what)}
Fits(ids, r) == Cardinality(ids) <= MaxItems /\ Cardinality(Units(ids, r)) <= MaxBytes

\* What is within both caps fits, in the table as it is.
LEMMA WithinIsFits == ASSUME NEW ids PROVE WithinBoth(ids) <=> Fits(ids, row)
BY DEF WithinBoth, Bytes, Fits, Units

\* Fewer entries with the same contents fit as well.
LEMMA FewerFit ==
  ASSUME NEW A, NEW B, NEW r, NEW s, A \subseteq B, IsFiniteSet(B), Fits(B, r),
         \A i \in A : s[i].what = r[i].what
  PROVE  Fits(A, s)
<1>1. IsFiniteSet(B \X (1..3))
  <2>1. IsFiniteSet(1..3)
    BY FS_Interval, 1 \in Int, 3 \in Int
  <2> QED BY <2>1, FS_Product
<1>2. IsFiniteSet(Units(B, r)) /\ Units(A, s) \subseteq Units(B, r)
  BY <1>1, FS_Subset DEF Units
<1>3. Cardinality(Units(A, s)) <= Cardinality(Units(B, r)) /\ Cardinality(A) <= Cardinality(B)
  BY <1>2, FS_Subset
<1>4. /\ Cardinality(Units(A, s)) \in Nat /\ Cardinality(Units(B, r)) \in Nat
      /\ Cardinality(A) \in Nat /\ Cardinality(B) \in Nat
  BY <1>2, FS_Subset, FS_CardinalityType
<1> QED BY <1>3, <1>4, ClipConstants DEF Fits

\* No entries fit always.
LEMMA NoneFit == ASSUME NEW r PROVE Fits({}, r)
<1>1. Units({}, r) = {}
  BY DEF Units
<1> QED BY <1>1, FS_EmptySet, ClipConstants DEF Fits

\* There are finitely many entries.
LEMMA RowsFinite == ASSUME ClipTypeOK PROVE IsFiniteSet(DOMAIN row) /\ IsFiniteSet(Unpinned)
<1>1. IsFiniteSet(1..clock)
  <2>1. 1 \in Int /\ clock \in Int
    BY DEF ClipTypeOK
  <2> QED BY <2>1, FS_Interval
<1> QED BY <1>1, FS_Subset DEF ClipTypeOK, Unpinned

\* What the scan spares is within both caps: all of it is in the running total at its oldest
\* entry, which was spared.
LEMMA SparedFit == ASSUME ClipTypeOK PROVE Fits(Unpinned \ Doomed, row)
<1> DEFINE K == Unpinned \ Doomed
           T == {row[i].at : i \in K}
<1>1. CASE K = {}
  BY <1>1, NoneFit
<1>2. CASE K # {}
  <2>1. T \subseteq Nat /\ T # {}
    BY <1>2 DEF ClipTypeOK, Unpinned
  <2>2. PICK x \in T : \A y \in T : x <= y
    BY <2>1, Smallest
  <2>3. PICK i \in K : x = row[i].at
    BY <2>2
  <2>4. WithinBoth(Running(i)) /\ K \subseteq Running(i)
    BY <2>1, <2>2, <2>3 DEF Doomed, Running, Prunable
  <2>5. IsFiniteSet(Running(i))
    BY RowsFinite, FS_Subset DEF Running, Prunable
  <2> QED BY <2>4, <2>5, FewerFit, WithinIsFits
<1> QED BY <1>1, <1>2

-----------------------------------------------------------------------------
\* The types
LEMMA TypeInit == ClipInit => ClipTypeOK
<1> SUFFICES ASSUME ClipInit PROVE ClipTypeOK
  OBVIOUS
<1>1. DOMAIN row = {} /\ row \in [DOMAIN row -> [what : Contents, at : 1..clock, pinned : BOOLEAN]]
  BY DEF ClipInit
<1>2. w \in [at : {"asleep"}, got : Boards, doomed : Seq(1..clock)]
  BY DEF ClipInit, Asleep, Nothing, Boards, Apps
<1>3. pick \in [at : {"none"}, id : 0..clock, what : Contents \cup {"nothing"}]
  BY DEF ClipInit, NoPick
<1>4. board \in Boards /\ front \in Apps /\ count \in 0..MaxCopies /\ acts \in 0..MaxActs
  BY ClipConstants DEF ClipInit, Nothing, Boards, Apps
<1>5. /\ files \subseteq 1..clock /\ clock \in Nat /\ torn \subseteq 1..clock /\ blind \subseteq 1..clock
      /\ seen \in 0..count /\ ignore \in 0..count /\ {noted, wanted} \subseteq 0..count
  BY DEF ClipInit
<1> QED BY <1>1, <1>2, <1>3, <1>4, <1>5 DEF ClipInit, ClipTypeOK

\* The watcher asleep is of its type.
LEMMA AsleepType == ASSUME ClipTypeOK PROVE Asleep \in [at : {"asleep"}, got : Boards, doomed : Seq(1..clock)]
BY DEF Asleep, Nothing, Boards, Apps

\* A clock that has moved on leaves what was typed by it typed.
LEMMA LaterClock ==
  ASSUME ClipTypeOK, clock' = clock + 1
  PROVE  /\ clock' \in Nat /\ 1..clock \subseteq 1..clock' /\ 0..clock \subseteq 0..clock'
         /\ Seq(1..clock) \subseteq Seq(1..clock') /\ clock' \in 1..clock'
         /\ row \in [DOMAIN row -> [what : Contents, at : 1..clock', pinned : BOOLEAN]]
<1>1. clock \in Nat
  BY DEF ClipTypeOK
<1>2. clock' \in Nat /\ 1..clock \subseteq 1..clock' /\ 0..clock \subseteq 0..clock' /\ clock' \in 1..clock'
  BY <1>1
<1>3. Seq(1..clock) \subseteq Seq(1..clock')
  BY <1>2, SeqMonotonic
<1>4. row \in [DOMAIN row -> [what : Contents, at : 1..clock', pinned : BOOLEAN]]
  <2>1. row \in [DOMAIN row -> [what : Contents, at : 1..clock, pinned : BOOLEAN]]
    BY DEF ClipTypeOK
  <2>2. [what : Contents, at : 1..clock, pinned : BOOLEAN] \subseteq [what : Contents, at : 1..clock', pinned : BOOLEAN]
    BY <1>2
  <2> QED BY <2>1, <2>2
<1> QED BY <1>2, <1>3, <1>4

\* A new entry and its file are of their types.
LEMMA StoreTypes ==
  ASSUME ClipTypeOK, Held, w.at = "record", StoreNew
  PROVE  /\ clock' = clock + 1 /\ clock' \in Nat /\ 1..clock \subseteq 1..clock' /\ 0..clock \subseteq 0..clock'
         /\ Seq(1..clock) \subseteq Seq(1..clock') /\ clock + 1 \in 1..clock'
         /\ row' \in [DOMAIN row' -> [what : Contents, at : 1..clock', pinned : BOOLEAN]]
         /\ DOMAIN row' \subseteq 1..clock' /\ files' \subseteq 1..clock'
<1> DEFINE new == [what |-> w.got.what, at |-> clock + 1, pinned |-> FALSE]
<1>1. /\ clock' = clock + 1
      /\ row' = [i \in DOMAIN row \cup {clock + 1} |-> IF i = clock + 1 THEN new ELSE row[i]]
  BY DEF StoreNew
<1>2. new \in [what : Contents, at : 1..clock', pinned : BOOLEAN]
  BY <1>1, LaterClock DEF Held
<1>3. row' \in [DOMAIN row' -> [what : Contents, at : 1..clock', pinned : BOOLEAN]]
      /\ DOMAIN row' = DOMAIN row \cup {clock + 1}
  BY <1>1, <1>2, LaterClock
<1>4. DOMAIN row \subseteq 1..clock /\ files \subseteq 1..clock
  BY DEF ClipTypeOK
<1>5. files' \subseteq 1..clock' /\ DOMAIN row' \subseteq 1..clock'
  BY <1>1, <1>3, <1>4, LaterClock DEF StoreNew
<1> QED BY <1>1, <1>3, <1>5, LaterClock

\* What a new entry changes.
LEMMA StoreAdds ==
  ASSUME ClipTypeOK, StoreNew
  PROVE  /\ DOMAIN row' = DOMAIN row \cup {clock + 1} /\ clock + 1 \notin DOMAIN row
         /\ clock + 1 \notin blind /\ clock + 1 \notin files /\ clock + 1 \notin torn
         /\ row'[clock + 1].what = w.got.what /\ \A i \in DOMAIN row : row'[i] = row[i]
         /\ files' = files \cup (IF w.got.what \in Images THEN {clock + 1} ELSE {})
<1>1. /\ DOMAIN row \subseteq 1..clock /\ clock \in Nat /\ blind \subseteq 1..clock
      /\ files \subseteq 1..clock /\ torn \subseteq 1..clock
  BY DEF ClipTypeOK
<1>2. clock + 1 \notin 1..clock
  BY <1>1
<1>3. DOMAIN row' = DOMAIN row \cup {clock + 1}
  BY DEF StoreNew
<1>4. row'[clock + 1].what = w.got.what /\ \A i \in DOMAIN row : row'[i] = row[i]
  BY <1>1, <1>2, <1>3 DEF StoreNew
<1>5. files' = files \cup (IF w.got.what \in Images THEN {clock + 1} ELSE {})
  BY DEF StoreNew
<1> QED BY <1>1, <1>2, <1>3, <1>4, <1>5

\* The watcher keeps the types.
LEMMA WatcherTypes == ASSUME ClipTypeOK, Held, Watcher PROVE ClipTypeOK'
<1> USE AsleepType DEF Sleep, Go, boardVars, history
<1>1. CASE Poll
  <2>1. seen' \in 0..count' /\ count \in Int
    BY <1>1 DEF Poll, ClipTypeOK
  <2>2. w' \in [at : {"asleep", "settings"}, got : Boards, doomed : Seq(1..clock)]
    BY <1>1 DEF Poll, ClipTypeOK
  <2> QED BY <1>1, <2>1, <2>2 DEF Poll, ClipTypeOK
<1>2. CASE ReadSettings
  BY <1>2 DEF ReadSettings, ClipTypeOK
<1>3. CASE CheckConcealed
  BY <1>3 DEF CheckConcealed, ClipTypeOK
<1>4. CASE CheckSource
  BY <1>4 DEF CheckSource, ClipTypeOK
<1>5. CASE ReadClipboard
  <2>1. {noted', wanted'} \subseteq 0..count' /\ count \in Int
    BY <1>5 DEF ReadClipboard, ClipTypeOK
  <2>2. w' \in [at : {"record"}, got : Boards, doomed : Seq(1..clock)]
    BY <1>5 DEF ReadClipboard, ClipTypeOK
  <2> QED BY <1>5, <2>1, <2>2 DEF ReadClipboard, ClipTypeOK
<1>6. CASE Promote
  <2>1. PICK i \in DOMAIN row : row' = [row EXCEPT ![i].at = clock + 1] /\ clock' = clock + 1
    BY <1>6 DEF Promote, Holders
  <2>2. row' \in [DOMAIN row -> [what : Contents, at : 1..clock', pinned : BOOLEAN]] /\ DOMAIN row' = DOMAIN row
    BY <2>1, LaterClock
  <2>3. /\ DOMAIN row \subseteq 1..clock /\ files \subseteq 1..clock /\ torn \subseteq 1..clock
        /\ blind \subseteq 1..clock /\ w' = Asleep
    BY <1>6 DEF Promote, ClipTypeOK
  <2> QED BY <1>6, <2>1, <2>2, <2>3, LaterClock DEF Promote, ClipTypeOK
<1>7. CASE Insert
  <2>1. StoreNew /\ w.at = "record" /\ UNCHANGED <<boardVars, on, seen, ignore, pick, history, acts, turns>>
    BY <1>7 DEF Insert
  <2>2. torn' \subseteq 1..clock' /\ blind' \subseteq 1..clock'
    BY <2>1, StoreTypes DEF ClipTypeOK
  <2>3. w' \in [at : {"scan"}, got : Boards, doomed : Seq(1..clock')]
    BY <1>7, <2>1, StoreTypes DEF Insert, ClipTypeOK
  <2> QED BY <2>1, <2>2, <2>3, StoreTypes DEF ClipTypeOK
<1>8. CASE Scan
  <2>1. PICK q \in NewestFirst(Doomed) : Prune(q)
    BY <1>8 DEF Scan
  <2>2. IsFiniteSet(Doomed) /\ Doomed \subseteq 1..clock
    BY RowsFinite, FS_Subset DEF Doomed, Prunable, Unpinned, ClipTypeOK
  <2>3. q \in Seq(1..clock)
    <3>1. q \in [1..Cardinality(Doomed) -> Doomed] /\ Cardinality(Doomed) \in Nat
      BY <2>1, <2>2, FS_CardinalityType DEF NewestFirst
    <3>2. q \in [1..Cardinality(Doomed) -> 1..clock]
      BY <2>2, <3>1
    <3> QED BY <3>1, <3>2, ListIsSeq
  <2> QED BY <1>8, <2>1, <2>3 DEF Scan, Prune, ClipTypeOK
<1>9. CASE PruneFile
  BY <1>9 DEF PruneFile, DropFile, ClipTypeOK
<1>10. CASE PruneRow
  <2>1. w.doomed \in Seq(1..clock) /\ w.doomed # <<>>
    BY <1>10 DEF PruneRow, Held, ClipTypeOK
  <2>2. Tail(w.doomed) \in Seq(1..clock)
    BY <2>1, HeadTailProperties
  <2>3. row' \in [DOMAIN row' -> [what : Contents, at : 1..clock, pinned : BOOLEAN]] /\ DOMAIN row' \subseteq 1..clock
    BY <1>10 DEF PruneRow, Without, ClipTypeOK
  <2>4. w' \in [at : {"asleep", "file"}, got : Boards, doomed : Seq(1..clock)]
    BY <1>10, <2>2 DEF PruneRow, Prune, ClipTypeOK
  <2> QED BY <1>10, <2>3, <2>4 DEF PruneRow, ClipTypeOK
<1> QED BY <1>1, <1>2, <1>3, <1>4, <1>5, <1>6, <1>7, <1>8, <1>9, <1>10 DEF Watcher

\* What the user does, here and in other applications
UserStep ==
  \/ \E c \in Contents, marked \in BOOLEAN : Copy(c, marked)
  \/ Switch \/ Toggle \/ ClearClips \/ DropFails(DOMAIN row)
  \/ \E i \in DOMAIN row : Delete(i) \/ DropFails({i}) \/ UseGet(i)
  \/ \E i \in DOMAIN row, p \in BOOLEAN : SetPinned(i, p)
Fails == InsertBlind \/ RecordFails \/ ScanFails \/ PruneFileKept \/ PruneRowFails
Dies == Crash \/ CrashStoring \/ CrashDeleting

\* Who takes a step.
LEMMA NextIs == ClipNext <=> Watcher \/ UserStep \/ Picking \/ Fails \/ Dies
BY DEF ClipNext, UserStep, Fails, Dies

\* One more change of the clipboard.
LEMMA WrittenTypes ==
  ASSUME ClipTypeOK, NEW c \in Contents, NEW m \in BOOLEAN, NEW a \in Apps, Write(c, m, a)
  PROVE  /\ board' \in Boards /\ count' \in 0..MaxCopies /\ count' = count + 1 /\ 0..count \subseteq 0..count'
         /\ count' \in 0..count' /\ board'.what = c
BY ClipConstants DEF ClipTypeOK, Write, Boards

\* An act of the user is counted.
LEMMA ActTypes == ASSUME ClipTypeOK, acts < MaxActs, acts' = acts + 1 PROVE acts' \in 0..MaxActs
BY ClipConstants DEF ClipTypeOK

\* The user keeps the types.
LEMMA UserTypes == ASSUME ClipTypeOK, UserStep PROVE ClipTypeOK'
<1> USE DEF boardVars, history
<1>1. ASSUME NEW c \in Contents, NEW marked \in BOOLEAN, Copy(c, marked) PROVE ClipTypeOK'
  <2>1. front \in Apps
    BY DEF ClipTypeOK
  <2>2. {seen', ignore', noted', wanted'} \subseteq 0..count'
    BY <1>1, <2>1, WrittenTypes DEF Copy, ClipTypeOK
  <2> QED BY <1>1, <2>1, <2>2, WrittenTypes DEF Copy, ClipTypeOK
<1>2. CASE Switch
  <2>1. {noted', wanted'} \subseteq 0..count' /\ acts' \in 0..MaxActs
    BY <1>2, ActTypes DEF Switch, Act, Counted, ClipTypeOK
  <2> QED BY <1>2, <2>1 DEF Switch, ClipTypeOK
<1>3. CASE Toggle
  <2>1. {noted', wanted'} \subseteq 0..count' /\ acts' \in 0..MaxActs
    BY <1>3, ActTypes DEF Toggle, Act, Counted, ClipTypeOK
  <2> QED BY <1>3, <2>1 DEF Toggle, ClipTypeOK
<1>4. CASE ClearClips
  <2>1. DOMAIN row' = {} /\ row' \in [DOMAIN row' -> [what : Contents, at : 1..clock, pinned : BOOLEAN]]
    BY <1>4 DEF ClearClips
  <2>2. acts' \in 0..MaxActs
    BY <1>4, ActTypes DEF ClearClips, Act, Counted
  <2>3. DOMAIN row' \subseteq 1..clock /\ files' \subseteq 1..clock
    BY <1>4, <2>1 DEF ClearClips, ClipTypeOK
  <2> QED BY <1>4, <2>1, <2>2, <2>3 DEF ClearClips, ClipTypeOK
<1>5. ASSUME NEW i \in DOMAIN row, Delete(i) PROVE ClipTypeOK'
  <2>1. acts' \in 0..MaxActs
    BY <1>5, ActTypes DEF Delete, Act, Counted
  <2> QED BY <1>5, <2>1 DEF Delete, Without, ClipTypeOK
<1>6. ASSUME NEW i \in DOMAIN row, UseGet(i) PROVE ClipTypeOK'
  <2>1. acts' \in 0..MaxActs
    BY <1>6, ActTypes DEF UseGet, Act, Counted
  <2> QED BY <1>6, <2>1 DEF UseGet, ClipTypeOK
<1>7. ASSUME NEW i \in DOMAIN row, NEW p \in BOOLEAN, SetPinned(i, p) PROVE ClipTypeOK'
  <2>1. acts' \in 0..MaxActs
    BY <1>7, ActTypes DEF SetPinned, Act, Counted
  <2>2. row' \in [DOMAIN row -> [what : Contents, at : 1..clock, pinned : BOOLEAN]]
    BY <1>7 DEF SetPinned, ClipTypeOK
  <2> QED BY <1>7, <2>1, <2>2 DEF SetPinned, ClipTypeOK
<1>8. ASSUME NEW ids, DropFails(ids) PROVE ClipTypeOK'
  <2>1. acts' \in 0..MaxActs
    BY <1>8, ActTypes DEF DropFails, Act, Counted
  <2>2. PICK gone \in SUBSET (files \cap ids), dropped \in {{}, ids} :
          /\ files' = files \ gone /\ row' = [i \in DOMAIN row \ dropped |-> row[i]]
          /\ torn' = torn \cup (IF dropped = ids THEN (files \cap ids) \ gone ELSE gone)
    BY <1>8 DEF DropFails
  <2>3. torn' \subseteq 1..clock /\ files' \subseteq 1..clock
    BY <2>2 DEF ClipTypeOK
  <2>4. row' \in [DOMAIN row' -> [what : Contents, at : 1..clock, pinned : BOOLEAN]] /\ DOMAIN row' \subseteq 1..clock
    BY <2>2 DEF ClipTypeOK
  <2> QED BY <1>8, <2>1, <2>3, <2>4 DEF DropFails, ClipTypeOK
<1> QED BY <1>1, <1>2, <1>3, <1>4, <1>5, <1>6, <1>7, <1>8 DEF UserStep

\* Errors keep the types.
LEMMA FailTypes == ASSUME ClipTypeOK, Held, Fails PROVE ClipTypeOK'
<1> USE AsleepType DEF Sleep, Go, boardVars, history
<1>1. CASE InsertBlind
  <2>1. StoreNew /\ w.at = "record" /\ acts' \in 0..MaxActs
    BY <1>1, ActTypes DEF InsertBlind, Counted
  <2>2. torn' \subseteq 1..clock' /\ blind' \subseteq 1..clock'
    BY <1>1, <2>1, StoreTypes DEF InsertBlind, ClipTypeOK
  <2>3. w' \in [at : {"scan"}, got : Boards, doomed : Seq(1..clock')]
    BY <1>1, <2>1, StoreTypes DEF InsertBlind, ClipTypeOK
  <2> QED BY <1>1, <2>1, <2>2, <2>3, StoreTypes DEF InsertBlind, ClipTypeOK
<1>2. CASE RecordFails
  <2>1. acts' \in 0..MaxActs
    BY <1>2, ActTypes DEF RecordFails, Counted
  <2>2. PICK left \in {{}} \cup {{clock + 1} : c \in {w.got.what} \cap Images} :
          /\ files' = files \cup left /\ torn' = torn \cup left /\ clock' = clock + Cardinality(left)
    BY <1>2 DEF RecordFails
  <2>3. CASE left = {}
    <3>1. clock' = clock /\ files' = files /\ torn' = torn
      BY <2>2, <2>3, FS_EmptySet DEF ClipTypeOK
    <3> QED BY <1>2, <2>1, <3>1 DEF RecordFails, ClipTypeOK
  <2>4. CASE left = {clock + 1}
    <3>1. clock' = clock + 1
      BY <2>2, <2>4, FS_Singleton
    <3>2. /\ files' \subseteq 1..clock' /\ torn' \subseteq 1..clock' /\ blind' \subseteq 1..clock'
          /\ DOMAIN row' \subseteq 1..clock'
      BY <1>2, <2>2, <2>4, <3>1, LaterClock DEF RecordFails, ClipTypeOK
    <3>3. w' \in [at : {"asleep"}, got : Boards, doomed : Seq(1..clock')]
      BY <1>2, <3>1, LaterClock DEF RecordFails
    <3>4. row' \in [DOMAIN row' -> [what : Contents, at : 1..clock', pinned : BOOLEAN]] /\ clock' \in Nat
      BY <1>2, <3>1, LaterClock DEF RecordFails
    <3>5. pick' \in [at : {"none", "got", "written", "ignored"}, id : 0..clock', what : Contents \cup {"nothing"}]
      BY <1>2, <3>1, LaterClock DEF RecordFails, ClipTypeOK
    <3> QED BY <1>2, <2>1, <3>2, <3>3, <3>4, <3>5 DEF RecordFails, ClipTypeOK
  <2> QED BY <2>2, <2>3, <2>4
<1>3. CASE ScanFails
  <2>1. acts' \in 0..MaxActs
    BY <1>3, ActTypes DEF ScanFails, CutShort, Counted
  <2> QED BY <1>3, <2>1 DEF ScanFails, CutShort, ClipTypeOK
<1>4. CASE PruneFileKept
  <2>1. acts' \in 0..MaxActs
    BY <1>4, ActTypes DEF PruneFileKept, Counted
  <2>2. torn' \subseteq 1..clock
    BY <1>4 DEF PruneFileKept, ClipTypeOK
  <2> QED BY <1>4, <2>1, <2>2 DEF PruneFileKept, ClipTypeOK
<1>5. CASE PruneRowFails
  <2>1. acts' \in 0..MaxActs
    BY <1>5, ActTypes DEF PruneRowFails, CutShort, Counted
  <2>2. w.doomed \in Seq(1..clock) /\ w.doomed # <<>>
    BY <1>5 DEF PruneRowFails, Held, ClipTypeOK
  <2>3. torn' \subseteq 1..clock
    BY <1>5, <2>2, HeadTailProperties DEF PruneRowFails, Half, ClipTypeOK
  <2> QED BY <1>5, <2>1, <2>3 DEF PruneRowFails, CutShort, ClipTypeOK
<1> QED BY <1>1, <1>2, <1>3, <1>4, <1>5 DEF Fails

\* A pick keeps the types.
LEMMA PickTypes == ASSUME ClipTypeOK, Held, Picking PROVE ClipTypeOK'
<1> USE DEF boardVars, history
<1>1. CASE UseWrite
  <2>1. pick.what \in Contents /\ "plain" \in Apps
    BY <1>1 DEF UseWrite, Held, Apps
  <2>2. {seen', ignore', noted', wanted'} \subseteq 0..count'
    BY <1>1, <2>1, WrittenTypes DEF UseWrite, ClipTypeOK
  <2> QED BY <1>1, <2>1, <2>2, WrittenTypes DEF UseWrite, ClipTypeOK
<1>2. CASE UseGone
  BY <1>2 DEF UseGone, NoPick, ClipTypeOK
<1>3. CASE IgnoreOwnWrite
  <2>1. ignore' \in 0..count' /\ count' = count
    BY <1>3 DEF IgnoreOwnWrite, OwnChange, ClipTypeOK
  <2> QED BY <1>3, <2>1 DEF IgnoreOwnWrite, ClipTypeOK
<1>4. CASE Touch
  <2>1. clock' = clock + 1
    BY <1>4 DEF Touch
  <2>2. row' \in [DOMAIN row -> [what : Contents, at : 1..clock', pinned : BOOLEAN]] /\ DOMAIN row' = DOMAIN row
    BY <1>4, <2>1, LaterClock DEF Touch
  <2>3. DOMAIN row \subseteq 1..clock /\ files \subseteq 1..clock /\ torn \subseteq 1..clock
    BY <1>4 DEF Touch, ClipTypeOK
  <2>4. w' \in [at : {"asleep", "settings", "concealed", "source", "read", "record", "scan", "file", "row"},
                 got : Boards, doomed : Seq(1..clock')]
    BY <1>4, <2>1, LaterClock DEF Touch, ClipTypeOK
  <2>5. pick' \in [at : {"none"}, id : 0..clock', what : Contents \cup {"nothing"}]
    BY <1>4, <2>1, LaterClock DEF Touch, NoPick
  <2> QED BY <1>4, <2>1, <2>2, <2>3, <2>4, <2>5, LaterClock DEF Touch, ClipTypeOK
<1> QED BY <1>1, <1>2, <1>3, <1>4 DEF Picking

\* Starting again keeps the types, whatever the process died over.
LEMMA RestartTypes ==
  ASSUME ClipTypeOK, Held, NEW gone, gone \subseteq 1..clock', StartAgain(gone), clock' \in {clock, clock + 1}, files' \subseteq 1..clock'
  PROVE  ClipTypeOK'
<1>1. clock' \in Nat /\ 1..clock \subseteq 1..clock' /\ 0 \in 0..clock'
  BY LaterClock DEF ClipTypeOK
<1>2. row' \in [DOMAIN row' -> [what : Contents, at : 1..clock', pinned : BOOLEAN]]
  BY LaterClock DEF ClipTypeOK, StartAgain
<1>3. w' \in [at : {"asleep"}, got : Boards, doomed : Seq(1..clock')]
  BY DEF StartAgain, Asleep, Nothing, Boards, Apps
<1>4. pick' \in [at : {"none"}, id : 0..clock', what : Contents \cup {"nothing"}]
  BY <1>1 DEF StartAgain, NoPick
<1>5. {seen', ignore', noted', wanted'} \subseteq 0..count' /\ acts' \in 0..MaxActs
  BY ActTypes DEF StartAgain, Counted, boardVars, ClipTypeOK
<1>6. torn' \subseteq 1..clock' /\ DOMAIN row' \subseteq 1..clock' /\ blind' \subseteq 1..clock'
  <2>1. Half \subseteq 1..clock
    BY DEF Half, Held, ClipTypeOK
  <2> QED BY <1>1, <2>1 DEF StartAgain, ClipTypeOK
<1> QED BY <1>1, <1>2, <1>3, <1>4, <1>5, <1>6 DEF StartAgain, boardVars, ClipTypeOK

\* The death of the process keeps the types.
LEMMA DieTypes == ASSUME ClipTypeOK, Held, Dies PROVE ClipTypeOK'
<1>1. clock \in Nat /\ files \subseteq 1..clock /\ DOMAIN row \subseteq 1..clock /\ w.doomed \in Seq(1..clock)
  BY DEF ClipTypeOK
<1>2. CASE Crash
  BY <1>1, <1>2, RestartTypes DEF Crash
<1>3. CASE CrashStoring
  <2>1. clock' = clock + 1 /\ {clock + 1} \subseteq 1..clock' /\ files' \subseteq 1..clock'
    BY <1>1, <1>3 DEF CrashStoring
  <2> QED BY <1>3, <2>1, RestartTypes DEF CrashStoring
<1>4. CASE CrashDeleting
  BY <1>1, <1>4, RestartTypes DEF CrashDeleting
<1> QED BY <1>2, <1>3, <1>4 DEF Dies

\* Every step keeps the types.
LEMMA ClipTypeStep == ASSUME ClipTypeOK, Held, [ClipNext]_clipVars PROVE ClipTypeOK'
<1>1. CASE UNCHANGED clipVars
  BY <1>1 DEF clipVars, boardVars, history, ClipTypeOK
<1> QED BY <1>1, NextIs, WatcherTypes, UserTypes, PickTypes, FailTypes, DieTypes

-----------------------------------------------------------------------------
\* What is held
LEMMA PruneHeld ==
  ASSUME ClipTypeOK, Held, NEW q, Prune(q), board' = board, count' = count, pick' = pick, count > 0
  PROVE  Held'
<1>1. w = [at |-> w.at, got |-> w.got, doomed |-> w.doomed]
  BY DEF ClipTypeOK
<1>2. CASE q = <<>>
  BY <1>2 DEF Prune, Sleep, Asleep, Held
<1>3. CASE q # <<>>
  <2>1. w' = [at |-> "file", got |-> w.got, doomed |-> q]
    BY <1>1, <1>3 DEF Prune
  <2> QED BY <1>3, <2>1 DEF Held
<1> QED BY <1>2, <1>3

\* Every step keeps what the watcher and a pick hold.
LEMMA HeldStep == ASSUME ClipTypeOK, Held, [ClipNext]_clipVars PROVE Held'
<1>0. /\ count \in Nat /\ seen \in 0..count /\ board \in Boards
      /\ w \in [at : {"asleep", "settings", "concealed", "source", "read", "record", "scan", "file", "row"},
                 got : Boards, doomed : Seq(1..clock)]
      /\ pick \in [at : {"none", "got", "written", "ignored"}, id : 0..clock, what : Contents \cup {"nothing"}]
  BY DEF ClipTypeOK
<1>1. CASE UNCHANGED clipVars
  BY <1>1 DEF clipVars, boardVars, history, Held
<1>2. CASE Watcher
  <2> USE DEF Sleep, Go, boardVars, history, Asleep, Nothing
  <2>1. CASE Poll
    BY <1>0, <2>1 DEF Poll, Held
  <2>2. CASE ReadSettings
    BY <1>0, <2>2 DEF ReadSettings, Held
  <2>3. CASE CheckConcealed
    BY <1>0, <2>3 DEF CheckConcealed, Held
  <2>4. CASE CheckSource
    BY <1>0, <2>4 DEF CheckSource, Held
  <2>5. CASE ReadClipboard
    BY <1>0, <2>5 DEF ReadClipboard, Held
  <2>6. CASE Promote
    BY <1>0, <2>6 DEF Promote, Held
  <2>7. CASE Insert
    BY <1>0, <2>7 DEF Insert, StoreNew, Held
  <2>8. CASE Scan
    <3>1. PICK q \in NewestFirst(Doomed) : Prune(q)
      BY <2>8 DEF Scan
    <3>2. board' = board /\ count' = count /\ pick' = pick /\ count > 0
      BY <2>8 DEF Scan, Held
    <3> QED BY <3>1, <3>2, PruneHeld
  <2>9. CASE PruneFile
    BY <1>0, <2>9 DEF PruneFile, Held
  <2>10. CASE PruneRow
    BY <1>0, <2>10, PruneHeld DEF PruneRow, Held
  <2> QED BY <1>2, <2>1, <2>2, <2>3, <2>4, <2>5, <2>6, <2>7, <2>8, <2>9, <2>10 DEF Watcher
<1>3. CASE UserStep
  <2>1. ASSUME NEW c \in Contents, NEW marked \in BOOLEAN, Copy(c, marked) PROVE Held'
    BY <1>0, <2>1 DEF Copy, Write, Held
  <2>2. CASE Switch \/ Toggle \/ ClearClips
    BY <2>2 DEF Switch, Toggle, ClearClips, boardVars, Held
  <2>3. ASSUME NEW i \in DOMAIN row, Delete(i) \/ \E p \in BOOLEAN : SetPinned(i, p) PROVE Held'
    BY <2>3 DEF Delete, SetPinned, boardVars, Held
  <2>5. ASSUME NEW ids, DropFails(ids) PROVE Held'
    BY <2>5 DEF DropFails, boardVars, Held
  <2>4. ASSUME NEW i \in DOMAIN row, UseGet(i) PROVE Held'
    BY <2>4 DEF UseGet, boardVars, Held, ClipTypeOK
  <2> QED BY <1>3, <2>1, <2>2, <2>3, <2>4, <2>5 DEF UserStep
<1>4. CASE Picking
  BY <1>0, <1>4 DEF Picking, UseWrite, UseGone, IgnoreOwnWrite, Touch, Write, NoPick, boardVars, Held
<1>5. CASE Dies
  BY <1>5 DEF Dies, Crash, CrashStoring, CrashDeleting, StartAgain, Asleep, NoPick, boardVars, Held
<1>6. CASE Fails
  <2> USE DEF Sleep, Go, boardVars, Asleep, Nothing
  <2>1. CASE InsertBlind
    BY <1>0, <2>1 DEF InsertBlind, StoreNew, Held
  <2>2. CASE RecordFails
    BY <1>0, <2>2 DEF RecordFails, Held
  <2>3. CASE ScanFails \/ PruneRowFails
    BY <1>0, <2>3 DEF ScanFails, PruneRowFails, CutShort, Held
  <2>4. CASE PruneFileKept
    BY <1>0, <2>4 DEF PruneFileKept, Held
  <2> QED BY <1>6, <2>1, <2>2, <2>3, <2>4 DEF Fails
<1> QED BY <1>1, <1>2, <1>3, <1>4, <1>5, <1>6, NextIs

-----------------------------------------------------------------------------
\* One entry per content: only Insert adds one when the look found none.
LEMMA OneEach == ASSUME ClipTypeOK, Held, NoDuplicate, [ClipNext]_clipVars PROVE NoDuplicate'
<1>0. DOMAIN row \subseteq 1..clock /\ clock \in Nat /\ row \in [DOMAIN row -> [what : Contents, at : 1..clock, pinned : BOOLEAN]]
  BY DEF ClipTypeOK
<1> DEFINE Same == /\ DOMAIN row' \subseteq DOMAIN row /\ blind' = blind
                   /\ \A i \in DOMAIN row' : row'[i].what = row[i].what
<1>1. CASE Same
  BY <1>1 DEF NoDuplicate
<1>2. CASE Insert
  <2>1. StoreNew /\ blind' = blind /\ \A i \in DOMAIN row : row[i].what # w.got.what
    BY <1>2 DEF Insert, Holders, history
  <2> QED BY <2>1, StoreAdds DEF NoDuplicate
<1>3. CASE InsertBlind
  <2>1. StoreNew /\ blind' = blind \cup {clock + 1}
    BY <1>3 DEF InsertBlind
  <2>2. DOMAIN row' \ blind' = DOMAIN row \ blind
    BY <2>1, StoreAdds
  <2> QED BY <2>1, <2>2, StoreAdds DEF NoDuplicate
<1>4. ASSUME [ClipNext]_clipVars, ~Insert, ~InsertBlind PROVE Same
  <2>1. CASE UNCHANGED <<row, blind>>
    BY <2>1
  <2>2. CASE Promote
    BY <1>0, <2>2 DEF Promote, Holders
  <2>3. CASE PruneRow
    BY <1>0, <2>3 DEF PruneRow, Without, history
  <2>4. CASE ClearClips
    BY <2>4 DEF ClearClips, history
  <2>5. ASSUME NEW i \in DOMAIN row, Delete(i) PROVE Same
    BY <1>0, <2>5 DEF Delete, Without, history
  <2>6. ASSUME NEW i \in DOMAIN row, NEW p \in BOOLEAN, SetPinned(i, p) PROVE Same
    BY <1>0, <2>6 DEF SetPinned
  <2>7. CASE Touch
    BY <1>0, <2>7 DEF Touch, history
  <2>12. ASSUME NEW ids, DropFails(ids) PROVE Same
    <3>1. blind' = blind /\ \E dropped : row' = [i \in DOMAIN row \ dropped |-> row[i]]
      BY <2>12 DEF DropFails
    <3> QED BY <1>0, <3>1
  <2>8. CASE UserStep
    <3> HIDE DEF Same
    <3> QED BY <2>1, <2>4, <2>5, <2>6, <2>8, <2>12 DEF UserStep, Copy, Switch, Toggle, UseGet, history
  <2>9. CASE Watcher
    BY <1>4, <2>1, <2>2, <2>3, <2>9 DEF Watcher, Poll, ReadSettings, CheckConcealed, CheckSource, ReadClipboard, Scan, PruneFile, history
  <2>10. CASE Picking
    BY <2>1, <2>7, <2>10 DEF Picking, UseWrite, UseGone, IgnoreOwnWrite, history
  <2>11. CASE Dies
    BY <2>1, <2>11 DEF Dies, Crash, CrashStoring, CrashDeleting, StartAgain
  <2>13. CASE Fails
    BY <1>4, <2>1, <2>13 DEF Fails, RecordFails, ScanFails, PruneFileKept, PruneRowFails, CutShort
  <2> HIDE DEF Same
  <2> QED BY <1>4, <2>1, <2>8, <2>9, <2>10, <2>11, <2>13, NextIs DEF clipVars, history
<1> HIDE DEF Same
<1> QED BY <1>1, <1>2, <1>3, <1>4

-----------------------------------------------------------------------------
\* What several steps leave alone
WatcherStates == {"asleep", "settings", "concealed", "source", "read", "record", "scan", "file", "row"}

\* Until it records, the watcher only looks.
LEMMA Looks ==
  ASSUME ClipTypeOK, Held, Poll \/ ReadSettings \/ CheckConcealed \/ CheckSource \/ ReadClipboard
  PROVE  /\ w.at \notin {"scan", "file", "row"} /\ w'.at \notin {"scan", "file", "row"}
         /\ w.doomed = <<>> /\ w'.doomed = <<>>
         /\ row' = row /\ files' = files /\ torn' = torn /\ loose' = loose
<1>0. w \in [at : WatcherStates, got : Boards, doomed : Seq(1..clock)]
  BY DEF ClipTypeOK, WatcherStates
<1> USE DEF Sleep, Go, Asleep, history, Held
<1>1. CASE Poll
  BY <1>0, <1>1 DEF Poll
<1>2. CASE ReadSettings
  BY <1>0, <1>2 DEF ReadSettings
<1>3. CASE CheckConcealed
  BY <1>0, <1>3 DEF CheckConcealed
<1>4. CASE CheckSource
  BY <1>0, <1>4 DEF CheckSource
<1>5. CASE ReadClipboard
  BY <1>0, <1>5 DEF ReadClipboard
<1> QED BY <1>1, <1>2, <1>3, <1>4, <1>5

\* Where the watcher is when there is something to prune, and when there is nothing.
LEMMA PruneFields ==
  ASSUME ClipTypeOK, NEW q, Prune(q) PROVE w'.doomed = q /\ w'.at = (IF q = <<>> THEN "asleep" ELSE "file")
<1>1. w \in [at : WatcherStates, got : Boards, doomed : Seq(1..clock)]
  BY DEF ClipTypeOK, WatcherStates
<1>2. CASE q = <<>>
  BY <1>2 DEF Prune, Sleep, Asleep
<1>3. CASE q # <<>>
  BY <1>1, <1>3 DEF Prune
<1> QED BY <1>2, <1>3

\* A pick moves its entry at most.
LEMMA PickMoves ==
  ASSUME ClipTypeOK, Picking
  PROVE  /\ w' = w /\ loose' = loose /\ files' = files /\ torn' = torn /\ DOMAIN row' = DOMAIN row
         /\ \A i \in DOMAIN row : row'[i].what = row[i].what /\ row'[i].pinned = row[i].pinned
<1>0. row \in [DOMAIN row -> [what : Contents, at : 1..clock, pinned : BOOLEAN]]
  BY DEF ClipTypeOK
<1>1. CASE UseWrite \/ UseGone \/ IgnoreOwnWrite
  BY <1>1 DEF UseWrite, UseGone, IgnoreOwnWrite, history
<1>2. CASE Touch
  BY <1>0, <1>2 DEF Touch, history
<1> QED BY <1>1, <1>2 DEF Picking

\* The death of the process leaves the rows; a pruning that it cut short is owed.
LEMMA DeathLeaves ==
  ASSUME Dies
  PROVE  /\ row' = row /\ w' = Asleep /\ loose' = (loose \/ w.at \in {"scan", "file", "row"})
<1>1. CASE Crash
  BY <1>1 DEF Crash, StartAgain
<1>2. CASE CrashStoring
  BY <1>2 DEF CrashStoring, StartAgain
<1>3. CASE CrashDeleting
  BY <1>3 DEF CrashDeleting, StartAgain
<1> QED BY <1>1, <1>2, <1>3 DEF Dies

-----------------------------------------------------------------------------
\* The files

\* What moves neither files nor pictures keeps them matched.
LEMMA SameFiles ==
  ASSUME Filed, Half' = Half, files' = files, torn' = torn, Pictures' = Pictures PROVE Filed'
BY DEF Filed, FilesMatch, Pictures

\* What changes no content leaves the pictures.
LEMMA SameRows ==
  ASSUME DOMAIN row' = DOMAIN row, \A i \in DOMAIN row : row'[i].what = row[i].what PROVE Pictures' = Pictures
BY DEF Pictures

\* A picture is stored with its file.
LEMMA FiledByStore ==
  ASSUME ClipTypeOK, Filed, StoreNew, w.at # "row", w'.at # "row", torn' = torn PROVE Filed'
<1>1. Half = {} /\ Half' = {}
  BY DEF Half
<1>2. Pictures' = Pictures \cup (IF w.got.what \in Images THEN {clock + 1} ELSE {})
  BY StoreAdds DEF Pictures
<1>3. files' = files \cup (IF w.got.what \in Images THEN {clock + 1} ELSE {})
  BY StoreAdds
<1> QED BY <1>1, <1>2, <1>3 DEF Filed, FilesMatch, Pictures

\* The watcher stores files with their rows, and drops a file before its row.
LEMMA FiledByWatcher == ASSUME ClipTypeOK, Held, Filed, Watcher PROVE Filed'
<1>0. /\ w = [at |-> w.at, got |-> w.got, doomed |-> w.doomed] /\ DOMAIN row \subseteq 1..clock /\ files \subseteq 1..clock
      /\ torn \subseteq 1..clock /\ clock \in Nat /\ row \in [DOMAIN row -> [what : Contents, at : 1..clock, pinned : BOOLEAN]]
  BY DEF ClipTypeOK
<1>1. CASE Poll \/ ReadSettings \/ CheckConcealed \/ CheckSource \/ ReadClipboard
  BY <1>1, Looks, SameFiles DEF Half, Pictures
<1>2. CASE Promote
  <2>1. w.at # "row" /\ w'.at # "row" /\ files' = files /\ torn' = torn
    BY <1>2 DEF Promote, Sleep, Asleep
  <2>2. DOMAIN row' = DOMAIN row /\ \A i \in DOMAIN row : row'[i].what = row[i].what
    BY <1>0, <1>2 DEF Promote, Holders
  <2> QED BY <2>1, <2>2, SameFiles, SameRows DEF Half
<1>3. CASE Insert
  <2>1. w.at # "row" /\ w'.at # "row" /\ torn' = torn /\ StoreNew
    BY <1>0, <1>3 DEF Insert, Go, history
  <2> QED BY <2>1, FiledByStore
<1>4. CASE Scan
  <2>1. PICK q : Prune(q)
    BY <1>4 DEF Scan
  <2>2. w.at # "row" /\ w'.at # "row" /\ files' = files /\ torn' = torn /\ row' = row
    BY <1>4, <2>1, PruneFields DEF Scan
  <2> QED BY <2>2, SameFiles DEF Half, Pictures
<1>5. CASE PruneFile
  <2>1. Half = {} /\ Half' = {Head(w.doomed)} /\ files' = files \ {Head(w.doomed)} /\ torn' = torn /\ row' = row
    BY <1>0, <1>5 DEF PruneFile, DropFile, Go, Half, history
  <2> QED BY <2>1 DEF Filed, FilesMatch
<1>6. CASE PruneRow
  <2>1. Half = {Head(w.doomed)} /\ Half' = {} /\ files' = files /\ torn' = torn /\ row' = Without(Head(w.doomed))
    BY <1>6, PruneFields DEF PruneRow, Half, history
  <2>2. Pictures' = Pictures \ {Head(w.doomed)}
    BY <2>1 DEF Without, Pictures
  <2> QED BY <2>1, <2>2 DEF Filed, FilesMatch, Pictures
<1> QED BY <1>1, <1>2, <1>3, <1>4, <1>5, <1>6 DEF Watcher

\* The user deletes files with their rows.
LEMMA FiledByUser == ASSUME ClipTypeOK, Held, Filed, UserStep PROVE Filed'
<1>0. DOMAIN row \subseteq 1..clock /\ row \in [DOMAIN row -> [what : Contents, at : 1..clock, pinned : BOOLEAN]]
  BY DEF ClipTypeOK
<1>6. Half' = Half
  BY DEF UserStep, Copy, Switch, Toggle, ClearClips, Delete, DropFails, UseGet, SetPinned, Half, history
<1>7. ASSUME NEW ids, DropFails(ids) PROVE Filed'
  <2>1. PICK gone \in SUBSET (files \cap ids), dropped \in {{}, ids} :
          /\ files' = files \ gone /\ row' = [i \in DOMAIN row \ dropped |-> row[i]]
          /\ torn' = torn \cup (IF dropped = ids THEN (files \cap ids) \ gone ELSE gone)
    BY <1>7 DEF DropFails
  <2>2. Pictures' = Pictures \ dropped
    BY <2>1 DEF Pictures
  <2>3. CASE dropped = ids
    BY <1>6, <2>1, <2>2, <2>3 DEF Filed, FilesMatch, Pictures
  <2>4. CASE dropped = {} /\ dropped # ids
    BY <1>6, <2>1, <2>2, <2>4 DEF Filed, FilesMatch, Pictures
  <2> QED BY <2>1, <2>3, <2>4
<1> SUFFICES ASSUME \A ids : ~DropFails(ids) PROVE Filed'
  BY <1>7
<1>1. Half' = Half /\ torn' = torn
  BY <1>6 DEF UserStep, Copy, Switch, Toggle, ClearClips, Delete, UseGet, SetPinned, history
<1>2. CASE files' = files /\ row' = row
  BY <1>1, <1>2, SameFiles DEF Pictures
<1>3. CASE ClearClips
  <2>1. Pictures' = {} /\ files' = files \ DOMAIN row
    BY <1>3 DEF ClearClips, Pictures
  <2> QED BY <1>1, <2>1 DEF Filed, FilesMatch, Pictures
<1>4. ASSUME NEW i \in DOMAIN row, Delete(i) PROVE Filed'
  <2>1. Pictures' = Pictures \ {i} /\ files' = files \ {i}
    BY <1>4 DEF Delete, Without, Pictures
  <2> QED BY <1>1, <2>1 DEF Filed, FilesMatch, Pictures
<1>5. ASSUME NEW i \in DOMAIN row, NEW p \in BOOLEAN, SetPinned(i, p) PROVE Filed'
  <2>1. DOMAIN row' = DOMAIN row /\ (\A j \in DOMAIN row : row'[j].what = row[j].what) /\ files' = files
    BY <1>0, <1>5 DEF SetPinned
  <2> QED BY <1>1, <2>1, SameFiles, SameRows
<1> QED BY <1>2, <1>3, <1>4, <1>5 DEF UserStep, Copy, Switch, Toggle, UseGet

\* A pick leaves files and contents alone.
LEMMA FiledByPick == ASSUME ClipTypeOK, Held, Filed, Picking PROVE Filed'
<1>1. Half' = Half
  BY PickMoves DEF Half
<1> QED BY <1>1, PickMoves, SameFiles, SameRows

\* Whatever the process dies over is counted as torn, the entry being pruned included.
LEMMA FiledByDeath == ASSUME ClipTypeOK, Held, Filed, Dies PROVE Filed'
<1>1. row' = row /\ Half' = {}
  BY DeathLeaves DEF Half, Asleep
<1>2. CASE Crash
  BY <1>1, <1>2 DEF Crash, StartAgain, Filed, FilesMatch
<1>3. CASE CrashStoring
  BY <1>1, <1>3 DEF CrashStoring, StartAgain, Filed, FilesMatch
<1>4. CASE CrashDeleting
  BY <1>1, <1>4 DEF CrashDeleting, StartAgain, Filed, FilesMatch
<1> QED BY <1>2, <1>3, <1>4 DEF Dies

\* Whatever an error leaves behind is counted as torn.
LEMMA FiledByFailure == ASSUME ClipTypeOK, Held, Filed, Fails PROVE Filed'
<1>0. w = [at |-> w.at, got |-> w.got, doomed |-> w.doomed]
  BY DEF ClipTypeOK
<1>1. CASE InsertBlind
  <2>1. w.at # "row" /\ w'.at # "row" /\ torn' = torn /\ StoreNew
    BY <1>0, <1>1 DEF InsertBlind, Go
  <2> QED BY <2>1, FiledByStore
<1>2. CASE RecordFails
  <2>1. PICK left : files' = files \cup left /\ torn' = torn \cup left
    BY <1>2 DEF RecordFails
  <2>2. Half = {} /\ Half' = {} /\ row' = row
    BY <1>2 DEF RecordFails, Half, Sleep, Asleep
  <2> QED BY <2>1, <2>2 DEF Filed, FilesMatch
<1>3. CASE ScanFails
  <2>1. Half = {} /\ Half' = {} /\ row' = row /\ files' = files /\ torn' = torn
    BY <1>3 DEF ScanFails, CutShort, Half, Sleep, Asleep
  <2> QED BY <2>1 DEF Filed, FilesMatch
<1>4. CASE PruneFileKept
  <2>1. Half = {} /\ torn' = torn \cup {Head(w.doomed)} /\ row' = row /\ files' = files
    BY <1>4 DEF PruneFileKept, Half
  <2>2. Half' = {Head(w.doomed)}
    BY <1>0, <1>4 DEF PruneFileKept, Go, Half
  <2> QED BY <2>1, <2>2 DEF Filed, FilesMatch
<1>5. CASE PruneRowFails
  <2>1. Half' = {} /\ torn' = torn \cup Half /\ row' = row /\ files' = files
    BY <1>5 DEF PruneRowFails, CutShort, Half, Sleep, Asleep
  <2> QED BY <2>1 DEF Filed, FilesMatch
<1> QED BY <1>1, <1>2, <1>3, <1>4, <1>5 DEF Fails

\* Every step keeps the files matched.
LEMMA FiledStep == ASSUME ClipTypeOK, Held, Filed, [ClipNext]_clipVars PROVE Filed'
<1>1. CASE UNCHANGED clipVars
  BY <1>1 DEF clipVars, history, Filed, FilesMatch, Half
<1> QED BY <1>1, NextIs, FiledByWatcher, FiledByUser, FiledByPick, FiledByFailure, FiledByDeath

-----------------------------------------------------------------------------
\* The caps
Left == Unpinned \ Condemned

\* What Capped says, with the table named ...
LEMMA CappedIsFits == Capped <=> (~loose /\ w.at # "scan" => Fits(Left, row))
BY WithinIsFits DEF Capped, Left

\* ... and after a step.
LEMMA CappedIsFitsNext == Capped' <=> (~loose' /\ w'.at # "scan" => Fits(Left', row'))
BY DEF Capped, Left, WithinBoth, Bytes, Fits, Units

\* Fewer entries are left, with the contents that they had.
LEMMA FewerLeft ==
  ASSUME ClipTypeOK, Capped, Left' \subseteq Left, \A i \in Left' : row'[i].what = row[i].what,
         ~loose' /\ w'.at # "scan" => ~loose /\ w.at # "scan"
  PROVE  Capped'
<1> SUFFICES ASSUME ~loose', w'.at # "scan" PROVE Fits(Left', row')
  BY CappedIsFitsNext
<1>1. Fits(Left, row) /\ IsFiniteSet(Left)
  BY CappedIsFits, RowsFinite, FS_Subset DEF Left
<1> DEFINE A == Left'
           s == row'
<1>2. A \subseteq Left /\ \A i \in A : s[i].what = row[i].what
  OBVIOUS
<1> HIDE DEF A, s
<1>3. Fits(A, s)
  BY <1>1, <1>2, FewerFit
<1> QED BY <1>3 DEF A, s

\* The scan condemns all that is over, and pruning drops nothing else.
LEMMA CappedByWatcher == ASSUME ClipTypeOK, Held, Capped, Watcher PROVE Capped'
<1>0. /\ w = [at |-> w.at, got |-> w.got, doomed |-> w.doomed] /\ w.doomed \in Seq(1..clock)
      /\ DOMAIN row \subseteq 1..clock /\ clock \in Nat
      /\ row \in [DOMAIN row -> [what : Contents, at : 1..clock, pinned : BOOLEAN]]
  BY DEF ClipTypeOK
<1>1. CASE Poll \/ ReadSettings \/ CheckConcealed \/ CheckSource \/ ReadClipboard
  <2>1. Left' = Left
    BY <1>1, Looks DEF Left, Unpinned, Condemned
  <2> QED BY <1>1, <2>1, Looks, FewerLeft
<1>2. CASE Promote
  <2>1. w.at # "scan" /\ w'.at # "scan" /\ w'.doomed = <<>> /\ loose' = loose /\ w.doomed = <<>>
    BY <1>2 DEF Promote, Sleep, Asleep, Held
  <2>2. DOMAIN row' = DOMAIN row /\ \A i \in DOMAIN row : row'[i].what = row[i].what /\ row'[i].pinned = row[i].pinned
    BY <1>0, <1>2 DEF Promote, Holders
  <2>3. Left' = Left /\ Left \subseteq DOMAIN row
    BY <2>1, <2>2 DEF Left, Unpinned, Condemned
  <2> QED BY <2>1, <2>2, <2>3, FewerLeft
<1>3. CASE Insert
  <2>1. w'.at = "scan"
    BY <1>0, <1>3 DEF Insert, Go
  <2> QED BY <2>1 DEF Capped
<1>4. CASE Scan
  <2>1. PICK q \in NewestFirst(Doomed) : Prune(q)
    BY <1>4 DEF Scan
  <2>2. w'.doomed = q /\ row' = row
    BY <1>4, <2>1, PruneFields DEF Scan
  <2>3. Condemned' = Doomed
    BY <2>1, <2>2 DEF Condemned, NewestFirst
  <2>4. Left' = Unpinned \ Doomed
    BY <2>2, <2>3 DEF Left, Unpinned
  <2> QED BY <2>2, <2>4, SparedFit, CappedIsFitsNext
<1>5. CASE PruneFile
  <2>1. w.at # "scan" /\ w'.at # "scan" /\ w'.doomed = w.doomed /\ loose' = loose /\ row' = row
    BY <1>0, <1>5 DEF PruneFile, Go, history
  <2>2. Left' = Left
    BY <2>1 DEF Left, Unpinned, Condemned
  <2> QED BY <2>1, <2>2, FewerLeft
<1>6. CASE PruneRow
  <2>1. w.at = "row" /\ w.doomed # <<>> /\ row' = Without(Head(w.doomed)) /\ loose' = loose
    BY <1>6 DEF PruneRow, Held, history
  <2>2. w'.doomed = Tail(w.doomed) /\ w'.at # "scan"
    BY <1>6, PruneFields DEF PruneRow
  <2>3. Condemned = {Head(w.doomed)} \cup Condemned'
    <3>1. /\ DOMAIN w.doomed = 1..Len(w.doomed) /\ DOMAIN Tail(w.doomed) = 1..(Len(w.doomed) - 1) /\ Len(w.doomed) \in Nat \ {0}
          /\ \A k \in 1..(Len(w.doomed) - 1) : Tail(w.doomed)[k] = w.doomed[k + 1]
          /\ Head(w.doomed) = w.doomed[1]
      BY <1>0, <2>1
    <3>2. \A k \in DOMAIN w.doomed \ {1} : k - 1 \in DOMAIN Tail(w.doomed) /\ Tail(w.doomed)[k - 1] = w.doomed[k]
      BY <3>1
    <3>3. \A k \in DOMAIN Tail(w.doomed) : k + 1 \in DOMAIN w.doomed /\ Tail(w.doomed)[k] = w.doomed[k + 1]
      BY <3>1
    <3>4. 1 \in DOMAIN w.doomed
      BY <3>1
    <3>5. \A k \in DOMAIN w.doomed : w.doomed[k] = Head(w.doomed) \/ \E j \in DOMAIN Tail(w.doomed) : w.doomed[k] = Tail(w.doomed)[j]
      <4> SUFFICES ASSUME NEW k \in DOMAIN w.doomed, k # 1 PROVE \E j \in DOMAIN Tail(w.doomed) : w.doomed[k] = Tail(w.doomed)[j]
        BY <3>1
      <4> QED BY <3>2
    <3>6. {Tail(w.doomed)[k] : k \in DOMAIN Tail(w.doomed)} \subseteq {w.doomed[k] : k \in DOMAIN w.doomed}
      BY <3>3
    <3>7. Head(w.doomed) \in {w.doomed[k] : k \in DOMAIN w.doomed}
      BY <3>1, <3>4
    <3> QED BY <2>2, <3>5, <3>6, <3>7 DEF Condemned
  <2>4. Left' = Left /\ Left' \subseteq DOMAIN row' /\ \A i \in Left' : row'[i] = row[i]
    BY <2>1, <2>3 DEF Left, Unpinned, Without
  <2> QED BY <2>1, <2>2, <2>4, FewerLeft
<1> QED BY <1>1, <1>2, <1>3, <1>4, <1>5, <1>6 DEF Watcher

\* The user only takes away entries, but for unpinning one, which is owed to the next scan.
LEMMA CappedByUser == ASSUME ClipTypeOK, Held, Capped, UserStep PROVE Capped'
<1>0. row \in [DOMAIN row -> [what : Contents, at : 1..clock, pinned : BOOLEAN]]
  BY DEF ClipTypeOK
<1>1. w' = w /\ Condemned' = Condemned
  BY DEF UserStep, Copy, Switch, Toggle, ClearClips, Delete, DropFails, UseGet, SetPinned, Condemned
<1>6. ASSUME NEW ids, DropFails(ids) PROVE Capped'
  <2>1. PICK dropped : row' = [i \in DOMAIN row \ dropped |-> row[i]]
    BY <1>6 DEF DropFails
  <2>2. Left' = Left \ dropped /\ loose' = loose /\ \A j \in Left' : row'[j] = row[j]
    BY <1>1, <1>6, <2>1 DEF DropFails, Left, Unpinned
  <2> QED BY <1>1, <2>2, FewerLeft
<1>2. CASE loose' = loose /\ row' = row
  BY <1>1, <1>2, FewerLeft DEF Left, Unpinned
<1>3. CASE ClearClips
  <2>1. Left' = {} /\ loose' = loose
    BY <1>3 DEF ClearClips, Left, Unpinned, history
  <2> QED BY <1>1, <2>1, FewerLeft
<1>4. ASSUME NEW i \in DOMAIN row, Delete(i) PROVE Capped'
  <2>1. Left' = Left \ {i} /\ loose' = loose /\ \A j \in Left' : row'[j] = row[j]
    BY <1>1, <1>4 DEF Delete, Left, Unpinned, Without, history
  <2> QED BY <1>1, <2>1, FewerLeft
<1>5. ASSUME NEW i \in DOMAIN row, NEW p \in BOOLEAN, SetPinned(i, p) PROVE Capped'
  <2>1. CASE ~p
    BY <1>5, <2>1 DEF SetPinned, Capped
  <2>2. CASE p
    <3>1. DOMAIN row' = DOMAIN row /\ row'[i].pinned = p
          /\ \A j \in DOMAIN row : row'[j].what = row[j].what /\ (j # i => row'[j] = row[j])
      BY <1>0, <1>5 DEF SetPinned
    <3>3. ~loose' => ~loose
      BY <1>5 DEF SetPinned
    <3>2. Left' \subseteq Left /\ Left' \subseteq DOMAIN row
      BY <1>1, <2>2, <3>1 DEF Left, Unpinned
    <3> QED BY <1>1, <3>1, <3>2, <3>3, FewerLeft
  <2> QED BY <2>1, <2>2
<1> QED BY <1>2, <1>3, <1>4, <1>5, <1>6 DEF UserStep, Copy, Switch, Toggle, UseGet, history

\* A pruning that an error cuts short is owed; a blind entry goes to the scan.
LEMMA CappedByFailure == ASSUME ClipTypeOK, Held, Capped, Fails PROVE Capped'
<1>0. w = [at |-> w.at, got |-> w.got, doomed |-> w.doomed]
  BY DEF ClipTypeOK
<1>1. CASE InsertBlind
  <2>1. w'.at = "scan"
    BY <1>0, <1>1 DEF InsertBlind, Go
  <2> QED BY <2>1 DEF Capped
<1>2. CASE RecordFails
  <2>1. w.at = "record" /\ w'.at # "scan" /\ w'.doomed = <<>> /\ w.doomed = <<>> /\ loose' = loose /\ row' = row
    BY <1>2 DEF RecordFails, Sleep, Asleep, Held
  <2>2. Left' = Left
    BY <2>1 DEF Left, Unpinned, Condemned
  <2> QED BY <2>1, <2>2, FewerLeft
<1>3. CASE ScanFails \/ PruneRowFails
  BY <1>3 DEF ScanFails, PruneRowFails, CutShort, Capped
<1>4. CASE PruneFileKept
  <2>1. w.at # "scan" /\ w'.at # "scan" /\ w'.doomed = w.doomed /\ loose' = loose /\ row' = row
    BY <1>0, <1>4 DEF PruneFileKept, Go
  <2>2. Left' = Left
    BY <2>1 DEF Left, Unpinned, Condemned
  <2> QED BY <2>1, <2>2, FewerLeft
<1> QED BY <1>1, <1>2, <1>3, <1>4 DEF Fails

\* Every step keeps what is left within the caps.
LEMMA CappedStep == ASSUME ClipTypeOK, Held, Capped, [ClipNext]_clipVars PROVE Capped'
<1>0. row \in [DOMAIN row -> [what : Contents, at : 1..clock, pinned : BOOLEAN]]
  BY DEF ClipTypeOK
<1>1. CASE UNCHANGED clipVars
  BY <1>1, FewerLeft DEF clipVars, history, Left, Unpinned, Condemned
<1>2. CASE Picking
  <2>1. Left' = Left /\ Left \subseteq DOMAIN row
    BY <1>2, PickMoves DEF Left, Unpinned, Condemned
  <2> QED BY <1>2, <2>1, PickMoves, FewerLeft
<1>3. CASE Dies
  <2>1. row' = row /\ w'.at = "asleep" /\ w'.doomed = <<>> /\ loose' = (loose \/ w.at \in {"scan", "file", "row"})
    BY <1>3, DeathLeaves DEF Asleep
  <2>2. CASE loose'
    BY <2>2 DEF Capped
  <2>3. CASE ~loose'
    <3>1. w.doomed = <<>> /\ w.at # "scan" /\ ~loose
      BY <2>1, <2>3 DEF Held
    <3>2. Left' = Left
      BY <2>1, <3>1 DEF Left, Unpinned, Condemned
    <3> QED BY <2>1, <3>1, <3>2, FewerLeft
  <2> QED BY <2>2, <2>3
<1> QED BY <1>1, <1>2, <1>3, NextIs, CappedByWatcher, CappedByUser, CappedByFailure

-----------------------------------------------------------------------------
\* The invariant holds at first, ...
LEMMA ClipIndInit == ClipInit => ClipInd
<1> SUFFICES ASSUME ClipInit PROVE ClipInd
  OBVIOUS
<1>1. Held
  BY DEF ClipInit, Held, Nothing, Asleep, NoPick
<1>2. NoDuplicate
  BY DEF ClipInit, NoDuplicate
<1>3. Filed
  BY DEF ClipInit, Filed, FilesMatch, Half, Asleep
<1>4. Left = {}
  BY DEF ClipInit, Left, Unpinned
<1>5. Capped
  BY <1>4, NoneFit, CappedIsFits
<1> QED BY <1>1, <1>2, <1>3, <1>5, TypeInit DEF ClipInd

\* ... every step keeps it, ...
LEMMA ClipIndStep == ClipInd /\ [ClipNext]_clipVars => ClipInd'
BY ClipTypeStep, HeldStep, OneEach, FiledStep, CappedStep DEF ClipInd

\* ... and it says that the history is sound.
LEMMA IndSound == ClipInd => ClipSound
<1> SUFFICES ASSUME ClipInd PROVE ClipSound
  OBVIOUS
<1>1. WithinCaps
  <2> SUFFICES ASSUME w = Asleep, ~loose PROVE WithinBoth(Unpinned)
    BY DEF WithinCaps
  <2>1. w.at # "scan" /\ Condemned = {}
    BY DEF Asleep, Condemned
  <2> QED BY <2>1 DEF ClipInd, Capped
<1> QED BY <1>1 DEF ClipInd, ClipSound, Filed

\* The clipboard history holds each content once, is within both caps when the watcher is
\* done, and its files are those of its pictures (record(), enforce_retention()), whatever
\* statement fails or is the last one, but for what such a failure or crash itself leaves:
\* the file or row of the entry in hand, a pruning cut short, a copy stored unseen.
THEOREM ClipsSound == ClipSpec => []ClipSound
<1>1. ClipSpec => []ClipInd
  BY ClipIndInit, ClipIndStep, PTL DEF ClipSpec
<1> QED BY <1>1, IndSound, PTL
===============================================================================
