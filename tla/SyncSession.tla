---------------------------- MODULE SyncSession ----------------------------
(***************************************************************************)
(* The signed-in session of the app (src-tauri/src/sync.rs and             *)
(* crates/sync-client/src/auth.rs): the refresh token in the keychain, the *)
(* ID tokens the engines cache, the engine in SyncState, its loop, and the *)
(* commands that build, rebuild and end them.  The identity provider       *)
(* rotates refresh tokens: using one retires it and issues the next.       *)
(* Commands that are not async run on the main thread, one at a time; the  *)
(* interactive sign-in rebuilds the engine on a worker.                    *)
(***************************************************************************)
EXTENDS Integers, FiniteSets

CONSTANTS
  Engines,    \* bound: engines that can be built, as numbers from 1
  Commands,   \* commands that borrow the engine's credential (sync_team_members, ...)
  MaxTokens,  \* bound: refresh tokens the identity provider issues
  MaxUses,    \* bound: saves, sign-ins, sign-outs and refreshes by commands
  MaxFaults   \* bound: requests that fail on the network

ASSUME SessionConstants ==
  /\ Engines \subseteq Nat \ {0} /\ "loop" \notin Commands
  /\ MaxTokens \in Nat \ {0} /\ MaxUses \in Nat /\ MaxFaults \in Nat

VARIABLES
  keychain,  \* KEY_REFRESH_TOKEN: the number of the stored token, 0 when there is none
  enabled,   \* the saved configuration validates
  slot,      \* SyncState.engine, 0 for None
  task,      \* SyncState.task, by the engine whose loop it is, 0 for None
  made,      \* engines built so far
  running,   \* the engines whose loop is alive
  sess,      \* the engines that cache an ID token that has not expired
  stat,      \* stat[e]: the state in e's SyncStatus
  call,      \* call[c]: the refresh that c is in
  stray,     \* refresh tokens sent in requests whose caller was aborted
  rb,        \* rb[p]: how far the command on thread p has got
  issued,    \* (identity provider) tokens issued so far
  valid,     \* (identity provider) the tokens it accepts
  revoked,   \* (identity provider) it has ended the session
  out,       \* (history) the user has signed out and not signed in since
  used, faults,
  calm       \* whether this behaviour is calm: the user acts neither while a refresh is on its
             \* way nor while another command rebuilds the engine, two refreshes do not overlap,
             \* and no request fails on the network.  Nothing in the code sees to it.

engineVars == <<slot, task, made, running>>
idpVars == <<issued, valid, revoked>>
vars == <<keychain, enabled, engineVars, sess, stat, call, stray, rb, idpVars, out, used, faults, calm>>

Callers == ({"loop"} \cup Commands) \X Engines
Threads == {"main", "worker"}
NoCall == [at |-> "idle", tok |-> 0, got |-> 0]
NoWork == [at |-> "idle", eng |-> 0, fresh |-> FALSE]
States == {"idle", "syncing", "signedOut", "error"}

TypeOK ==
  /\ keychain \in 0..MaxTokens /\ issued \in 0..MaxTokens
  /\ valid \subseteq 1..issued /\ stray \subseteq 1..issued
  /\ enabled \in BOOLEAN /\ revoked \in BOOLEAN /\ out \in BOOLEAN
  /\ {slot, task} \subseteq {0} \cup 1..made /\ made \in {0} \cup Engines
  /\ running \subseteq 1..made /\ sess \subseteq 1..made
  /\ stat \in [Engines -> States]
  /\ call \in [Callers -> [at : {"idle", "asked", "answered"}, tok : 0..issued, got : 0..issued]]
  /\ rb \in [Threads -> [at : {"idle", "stop", "clear", "start", "install", "keep", "outStop", "outDrop"},
                         eng : 0..made, fresh : BOOLEAN]]
  /\ used \in 0..MaxUses /\ faults \in 0..MaxFaults /\ calm \in BOOLEAN

\* The app starts: init rebuilds the engine from a session of an earlier run, if there is one.
Init ==
  /\ keychain \in {0, 1} /\ issued = 1 /\ valid = {1} /\ revoked = FALSE
  /\ enabled = TRUE
  /\ slot = 0 /\ task = 0 /\ made = 0 /\ running = {} /\ sess = {}
  /\ stat = [e \in Engines |-> "idle"]
  /\ call = [c \in Callers |-> NoCall] /\ stray = {}
  /\ rb = [p \in Threads |-> IF p = "main" THEN [NoWork EXCEPT !.at = "stop"] ELSE NoWork]
  /\ out = (keychain = 0) /\ used = 0 /\ faults = 0 /\ calm \in BOOLEAN

\* SyncState::status.
status == IF slot # 0 THEN stat[slot] ELSE IF enabled THEN "signedOut" ELSE "disabled"

Settled == \A p \in Threads : rb[p] = NoWork
Quiet == \A c \in Callers : call[c] = NoCall
MayAct(p) == rb[p] = NoWork /\ used < MaxUses /\ (calm => Settled)
At(p, s) == rb[p].at = s
Goto(p, s) == rb' = [rb EXCEPT ![p].at = s]
Done(p) == rb' = [rb EXCEPT ![p] = NoWork]

\* A status is set by the loop, not by a command.
Report(c, s) == stat' = IF c[1] = "loop" THEN [stat EXCEPT ![c[2]] = s] ELSE stat

---------------------------------------------------------------------------
(* OidcAuth::bearer and refresh, for the loop's cycle and for a command.   *)

\* The loop is at the top of a cycle; a command has just cloned the engine in the slot.
MayCall(c) ==
  /\ call[c] = NoCall
  /\ IF c[1] = "loop" THEN c[2] \in running ELSE slot = c[2]

\* A session that has not expired answers; the rest of the cycle succeeds.
UseSession(c) ==
  /\ MayCall(c) /\ c[1] = "loop" /\ c[2] \in sess
  /\ Report(c, "idle")
  /\ UNCHANGED <<keychain, enabled, engineVars, sess, call, stray, rb, idpVars, out,
                 used, faults, calm>>

NothingStored(c) ==
  /\ MayCall(c) /\ c[2] \notin sess /\ keychain = 0
  /\ Report(c, "signedOut")
  /\ UNCHANGED <<keychain, enabled, engineVars, sess, call, stray, rb, idpVars, out,
                 used, faults, calm>>

\* (mutant) The refresh token is read once, when the app starts, and kept.
PresentedFirst(c) == 1

\* keychain_get
Presented(c) == keychain

Ask(c) ==
  /\ MayCall(c) /\ c[2] \notin sess /\ keychain # 0 /\ (calm => Quiet)
  /\ c[1] # "loop" => used < MaxUses
  /\ used' = IF c[1] = "loop" THEN used ELSE used + 1
  /\ call' = [call EXCEPT ![c] = [at |-> "asked", tok |-> Presented(c), got |-> 0]]
  /\ Report(c, "syncing")
  /\ UNCHANGED <<keychain, enabled, engineVars, sess, stray, rb, idpVars, out, faults,
                 calm>>

Rotate(tok) ==
  /\ issued < MaxTokens
  /\ issued' = issued + 1
  /\ valid' = (valid \ {tok}) \cup {issued + 1}
  /\ UNCHANGED <<revoked, calm>>

\* The identity provider takes the refresh token and answers with the next one.
Exchange(c) ==
  /\ call[c].at = "asked" /\ call[c].tok \in valid
  /\ Rotate(call[c].tok)
  /\ call' = [call EXCEPT ![c].at = "answered", ![c].got = issued + 1]
  /\ UNCHANGED <<keychain, enabled, engineVars, sess, stat, stray, rb, out, used, faults,
                 calm>>

Persist(c) == keychain' = call[c].got

Store(c) ==
  /\ call[c].at = "answered"
  /\ Persist(c)
  /\ sess' = sess \cup {c[2]}
  /\ call' = [call EXCEPT ![c] = NoCall]
  /\ UNCHANGED <<enabled, engineVars, stat, stray, rb, idpVars, out, used, faults, calm>>

\* (mutant) Any failure of the exchange is a network error, to be retried.
EndedAsError(c) == Report(c, "error") /\ call' = [call EXCEPT ![c] = NoCall]

\* Whatever error the exchange ends with, the call ends as SignedOut.
Ended(c) == Report(c, "signedOut") /\ call' = [call EXCEPT ![c] = NoCall]

Refuse(c) ==
  /\ call[c].at = "asked" /\ call[c].tok \notin valid
  /\ Ended(c)
  /\ UNCHANGED <<keychain, enabled, engineVars, sess, stray, rb, idpVars, out, used,
                 faults, calm>>

\* The request, or its answer, is lost; discovery may fail before it, which is an error.
Fail(c) ==
  /\ ~calm /\ call[c].at # "idle" /\ faults < MaxFaults
  /\ faults' = faults + 1
  /\ \/ Ended(c)
     \/ call[c].at = "asked" /\ EndedAsError(c)
  /\ UNCHANGED <<keychain, enabled, engineVars, sess, stray, rb, idpVars, out, used, calm>>

\* A request whose caller is gone reaches the identity provider all the same.
ExchangeStray(t) ==
  /\ t \in stray \cap valid
  /\ Rotate(t) /\ stray' = stray \ {t}
  /\ UNCHANGED <<keychain, enabled, engineVars, sess, stat, call, rb, out, used, faults,
                 calm>>

Expire(e) ==
  /\ e \in sess
  /\ sess' = sess \ {e}
  /\ UNCHANGED <<keychain, enabled, engineVars, stat, call, stray, rb, idpVars, out,
                 used, faults, calm>>

\* An administrator ends the session at the identity provider.
Revoke ==
  /\ valid # {} /\ valid' = {} /\ revoked' = TRUE
  /\ UNCHANGED <<keychain, enabled, engineVars, sess, stat, call, stray, rb, issued, out,
                 used, faults, calm>>

---------------------------------------------------------------------------
(* Stopping the loop.  The abort takes effect where the loop waits: a      *)
(* request on its way has been sent, an answer that has come is dropped,   *)
(* unless the loop is already running on with it.                          *)

AbortTask ==
  LET c == <<"loop", task>> IN
  /\ task' = 0 /\ running' = running \ {task}
  /\ IF task = 0 \/ call[c].at = "idle" THEN UNCHANGED <<call, stray>>
     ELSE \/ /\ call[c].at = "asked"
             /\ stray' = stray \cup {call[c].tok}
             /\ call' = [call EXCEPT ![c] = NoCall]
          \/ call[c].at = "answered" /\ UNCHANGED <<call, stray>>
          \/ call[c].at = "answered" /\ call' = [call EXCEPT ![c] = NoCall] /\ UNCHANGED stray

---------------------------------------------------------------------------
(* rebuild, on thread p, lock by lock.                                     *)

Stop(p) ==
  /\ At(p, "stop") /\ (calm => Quiet)
  /\ AbortTask /\ Goto(p, "clear")
  /\ UNCHANGED <<keychain, enabled, slot, made, sess, stat, idpVars, out, used, faults,
                 calm>>

Clear(p) ==
  /\ At(p, "clear") /\ slot' = 0 /\ Goto(p, "start")
  /\ UNCHANGED <<keychain, enabled, task, made, running, sess, stat, call, stray,
                 idpVars, out, used, faults, calm>>

\* The configuration validates and there is a credential: the sign-in's own, or a stored one.
Usable(p) == enabled /\ (rb[p].fresh \/ keychain # 0)

GiveUp(p) ==
  /\ At(p, "start") /\ ~Usable(p) /\ Done(p)
  /\ UNCHANGED <<keychain, enabled, engineVars, sess, stat, call, stray, idpVars, out,
                 used, faults, calm>>

Build(p) ==
  /\ At(p, "start") /\ Usable(p) /\ made + 1 \in Engines
  /\ made' = made + 1
  /\ running' = running \cup {made + 1}
  /\ sess' = IF rb[p].fresh THEN sess \cup {made + 1} ELSE sess
  /\ rb' = [rb EXCEPT ![p].at = "install", ![p].eng = made + 1]
  /\ UNCHANGED <<keychain, enabled, slot, task, stat, call, stray, idpVars, out, used,
                 faults, calm>>

Install(p) ==
  /\ At(p, "install") /\ slot' = rb[p].eng /\ Goto(p, "keep")
  /\ UNCHANGED <<keychain, enabled, task, made, running, sess, stat, call, stray,
                 idpVars, out, used, faults, calm>>

Keep(p) ==
  /\ At(p, "keep") /\ task' = rb[p].eng /\ Done(p)
  /\ UNCHANGED <<keychain, enabled, slot, made, running, sess, stat, call, stray,
                 idpVars, out, used, faults, calm>>

---------------------------------------------------------------------------
(* The commands.                                                           *)

SaveConfig(on) ==
  /\ MayAct("main") /\ used' = used + 1
  /\ enabled' = on /\ Goto("main", "stop")
  /\ UNCHANGED <<keychain, engineVars, sess, stat, call, stray, idpVars, out, faults, calm>>

\* The browser flow has come back: the code is exchanged, the token stored, the engine rebuilt.
SignIn ==
  /\ enabled /\ MayAct("worker") /\ (calm => Quiet) /\ issued < MaxTokens
  /\ used' = used + 1
  /\ issued' = issued + 1 /\ valid' = valid \cup {issued + 1} /\ revoked' = FALSE
  /\ keychain' = issued + 1 /\ out' = FALSE
  /\ rb' = [rb EXCEPT !["worker"] = [at |-> "stop", eng |-> 0, fresh |-> TRUE]]
  /\ UNCHANGED <<enabled, engineVars, sess, stat, call, stray, faults, calm>>

SignOut ==
  /\ MayAct("main") /\ used' = used + 1 /\ Goto("main", "outStop")
  /\ UNCHANGED <<keychain, enabled, engineVars, sess, stat, call, stray, idpVars, out,
                 faults, calm>>

SignOutStop ==
  /\ At("main", "outStop") /\ (calm => Quiet)
  /\ AbortTask /\ Goto("main", "outDrop")
  /\ UNCHANGED <<keychain, enabled, slot, made, sess, stat, idpVars, out, used, faults,
                 calm>>

\* (mutant) With an engine in the slot, only its session is dropped.
DropNoSecrets == keychain' = IF slot = 0 THEN 0 ELSE keychain

DropSecrets == keychain' = 0

\* The engine's session and the secrets go; without an engine, the secrets.
SignOutDrop ==
  /\ At("main", "outDrop") /\ (calm => Quiet)
  /\ DropSecrets /\ out' = TRUE
  /\ slot' = 0 /\ sess' = sess \ {slot}
  /\ stat' = IF slot = 0 THEN stat ELSE [stat EXCEPT ![slot] = "signedOut"]
  /\ Done("main")
  /\ UNCHANGED <<enabled, task, made, running, call, stray, idpVars, used, faults, calm>>

Next ==
  \/ \E c \in Callers :
       \/ UseSession(c) \/ NothingStored(c) \/ Ask(c) \/ Exchange(c)
       \/ Store(c) \/ Refuse(c) \/ Fail(c)
  \/ \E t \in stray : ExchangeStray(t)
  \/ \E e \in Engines : Expire(e)
  \/ Revoke
  \/ \E p \in Threads : Stop(p) \/ Clear(p) \/ GiveUp(p) \/ Build(p) \/ Install(p) \/ Keep(p)
  \/ \E on \in BOOLEAN : SaveConfig(on)
  \/ SignIn \/ SignOut \/ SignOutStop \/ SignOutDrop

Spec == Init /\ [][Next]_vars

\* Time passes, the loop ticks, requests are answered and a command that has begun ends.
Fairness ==
  /\ \A e \in Engines : WF_vars(UseSession(<<"loop", e>>) \/ NothingStored(<<"loop", e>>) \/ Ask(<<"loop", e>>))
  /\ \A c \in Callers : WF_vars(Exchange(c) \/ Store(c) \/ Refuse(c))
  /\ \A e \in Engines : WF_vars(Expire(e))
  /\ \A p \in Threads :
       WF_vars(Stop(p) \/ Clear(p) \/ GiveUp(p) \/ Build(p) \/ Install(p) \/ Keep(p))
  /\ WF_vars(SignOutStop \/ SignOutDrop)

FairSpec == Spec /\ Fairness

---------------------------------------------------------------------------
(* Properties.                                                             *)

\* sync_sign_out drops the keychain's secrets and the engine: in a calm behaviour no refresh
\* and no rebuild brings a token, an engine or a loop back until the next sign-in.
SignOutSticks == calm /\ out => keychain = 0 /\ (Settled => slot = 0 /\ running = {})

\* "Nothing is lost" by stopping a loop in mid-cycle: with no request on its way, the stored
\* refresh token is one the identity provider accepts.
SessionSurvives == (Quiet /\ keychain # 0 /\ ~revoked) => keychain \in valid

\* When no command is at work in a calm behaviour, the loop that runs is that of the engine in
\* the slot, and the handle that would stop it is the one that was kept.
OneLoop == calm /\ Settled => /\ running = {task} \ {0}
                              /\ slot = task

\* In a calm behaviour "signed out" is shown only of a session that has really ended, never of
\* one the identity provider would still renew.
StatusTruth ==
  (calm /\ Settled /\ Quiet /\ slot # 0 /\ keychain # 0 /\ stat[slot] = "signedOut")
     => keychain \notin valid

\* The type invariant, with what the two handles of SyncState stand for and what is shown.
Sound == TypeOK /\ OneLoop /\ StatusTruth

\* A session that was revoked is shown as signed out in the end, without the user's doing,
\* whatever races and fails.
RevocationShows == revoked ~> (status \in {"signedOut", "disabled"} \/ ~revoked)

=============================================================================
