-------------------------- MODULE SyncSessionProofs --------------------------
(***************************************************************************)
(* Theorems about SyncSession, for any number of engines, commands, tokens *)
(* and faults, and every interleaving of commands, loops and requests.     *)
(***************************************************************************)
EXTENDS SyncSession, TLAPS

(***************************************************************************)
(* The inductive invariant.                                                *)
(***************************************************************************)
\* Every engine that is referred to has been built, what is presented to the identity
\* provider was issued by it, and an engine not yet built shows nothing.
Booked ==
  /\ 1..made \subseteq Engines /\ keychain <= issued
  /\ \A c \in Callers : call[c] # NoCall => c[2] \in 1..made /\ call[c].at # "idle"
  /\ \A c \in Callers : call[c].at = "asked" => call[c].tok # 0
  /\ \A p \in Threads : rb[p] # NoWork => rb[p].at # "idle"
  /\ \A e \in Engines : e > made => stat[e] = "idle"

\* In a calm behaviour one command at a time is at work and one refresh on its way, and
\* the refresh presents the stored token.
OneByOne ==
  /\ stray = {}
  /\ \A p, q \in Threads : rb[p] # NoWork /\ rb[q] # NoWork => p = q
  /\ \A c, d \in Callers : call[c] # NoCall /\ call[d] # NoCall => c = d
  /\ \A c \in Callers : call[c] # NoCall => keychain # 0
  /\ \A c \in Callers : call[c].at = "asked" => call[c].tok = keychain

\* What the two handles stand for while a command is at work: the loop that runs is the
\* task's, until it is stopped, and then that of the engine being installed.
Handles ==
  /\ Settled => running = {task} \ {0} /\ slot = task
  /\ \A p \in Threads :
       /\ rb[p].at \in {"stop", "outStop"} => running = {task} \ {0}
       /\ rb[p].at \in {"clear", "outDrop", "start"} => task = 0 /\ running = {}
       /\ rb[p].at \in {"start", "install"} => slot = 0
       /\ rb[p].at \in {"install", "keep"} =>
            task = 0 /\ rb[p].eng \in 1..made /\ running = {rb[p].eng}
       /\ rb[p].at = "keep" => slot = rb[p].eng

\* An engine that shows "signed out" has no token, or one that nobody will renew.
Honest(e) ==
  stat[e] = "signedOut" =>
    \/ keychain = 0
    \/ keychain \notin valid /\ \A c \in Callers : call[c].at # "answered"

Truth ==
  /\ Settled /\ slot # 0 => Honest(slot)
  /\ \A p \in Threads : rb[p].at \in {"install", "keep"} => Honest(rb[p].eng)

\* Once signed out there is nothing to build an engine from.
SignedOut ==
  out => /\ keychain = 0 /\ (Settled => slot = 0)
         /\ \A p \in Threads : ~rb[p].fresh /\ rb[p].at \notin {"install", "keep"}

Ind == TypeOK /\ Booked /\ (calm => OneByOne /\ Handles /\ Truth /\ SignedOut)

-----------------------------------------------------------------------------
(***************************************************************************)
(* Types.                                                                  *)
(***************************************************************************)
\* The calls and the commands of TypeOK, with n tokens issued or engines built.
CallStates(n) == [at : {"idle", "asked", "answered"}, tok : 0..n, got : 0..n]
WorkStates(n) ==
  [at : {"idle", "stop", "clear", "start", "install", "keep", "outStop", "outDrop"},
   eng : 0..n, fresh : BOOLEAN]

\* Numbers, and callers by their parts.
LEMMA Basics ==
  /\ Engines \subseteq Nat \ {0} /\ MaxTokens \in Nat \ {0} /\ MaxUses \in Nat /\ MaxFaults \in Nat
  /\ \A c \in Callers : c[2] \in Engines
  /\ \A e \in Engines : <<"loop", e>> \in Callers /\ <<"loop", e>>[2] = e
  /\ NoCall.at = "idle" /\ NoWork.at = "idle" /\ NoWork.fresh = FALSE /\ NoWork.eng = 0
  /\ \A n \in Nat : NoCall \in CallStates(n) /\ NoWork \in WorkStates(n)
BY SessionConstants DEF Callers, NoCall, NoWork, CallStates, WorkStates

\* What was typed stays so when tokens are issued and engines built.
LEMMA Wider ==
  ASSUME NEW m \in Nat, NEW n \in Nat, m <= n
  PROVE  CallStates(m) \subseteq CallStates(n) /\ WorkStates(m) \subseteq WorkStates(n)
         /\ 1..m \subseteq 1..n
<1>1. 0..m \subseteq 0..n /\ 1..m \subseteq 1..n
  OBVIOUS
<1> QED BY <1>1 DEF CallStates, WorkStates

\* The types, part by part.
LEMMA Types ==
  ASSUME TypeOK
  PROVE  /\ keychain \in Nat /\ issued \in Nat /\ made \in Nat /\ slot \in 0..made /\ task \in 0..made
         /\ keychain \in 0..MaxTokens /\ issued \in 0..MaxTokens
         /\ valid \subseteq 1..issued /\ stray \subseteq 1..issued
         /\ running \subseteq 1..made /\ sess \subseteq 1..made
         /\ stat \in [Engines -> States]
         /\ call \in [Callers -> CallStates(issued)]
         /\ rb \in [Threads -> WorkStates(made)]
         /\ \A c \in Callers : /\ call[c].at \in {"idle", "asked", "answered"}
                               /\ call[c].tok \in 0..issued /\ call[c].got \in 0..issued
         /\ \A p \in Threads : rb[p] \in WorkStates(made) /\ rb[p].eng \in 0..made
<1>1. made \in Nat /\ slot \in 0..made /\ task \in 0..made /\ keychain \in Nat /\ issued \in Nat
  BY Basics DEF TypeOK
<1>2. call \in [Callers -> CallStates(issued)] /\ rb \in [Threads -> WorkStates(made)]
  BY DEF TypeOK, CallStates, WorkStates
<1>3. \A c \in Callers : /\ call[c].at \in {"idle", "asked", "answered"}
                         /\ call[c].tok \in 0..issued /\ call[c].got \in 0..issued
  BY <1>2 DEF CallStates
<1>4. \A p \in Threads : rb[p] \in WorkStates(made) /\ rb[p].eng \in 0..made
  BY <1>2 DEF WorkStates
<1> QED BY <1>1, <1>2, <1>3, <1>4 DEF TypeOK

\* A report changes what the loop's own engine shows, and nothing else.
LEMMA Reports ==
  ASSUME TypeOK, NEW c \in Callers, NEW s \in States, Report(c, s)
  PROVE  /\ stat' \in [Engines -> States]
         /\ \A e \in Engines : stat'[e] = stat[e] \/ (stat'[e] = s /\ e = c[2])
BY DEF Report, TypeOK

\* Stopping the loop ends its task and its call, whose request may be on its way.
LEMMA Aborts ==
  ASSUME TypeOK, Booked, AbortTask
  PROVE  /\ task' = 0 /\ running' = running \ {task}
         /\ call' \in [Callers -> CallStates(issued)]
         /\ \A c \in Callers : call'[c] = call[c] \/ call'[c] = NoCall
         /\ stray' \subseteq 1..issued
         /\ Quiet => UNCHANGED <<call, stray>>
<1> DEFINE c == <<"loop", task>>
<1>1. task' = 0 /\ running' = running \ {task}
  BY DEF AbortTask
<1>2. \/ UNCHANGED <<call, stray>>
      \/ /\ task # 0 /\ call[c].at # "idle"
         /\ \/ /\ call[c].at = "asked"
               /\ stray' = stray \cup {call[c].tok}
               /\ call' = [call EXCEPT ![c] = NoCall]
            \/ call' = [call EXCEPT ![c] = NoCall] /\ UNCHANGED stray
  BY DEF AbortTask
<1>3. CASE UNCHANGED <<call, stray>>
  BY <1>1, <1>3, Types
<1>4. CASE /\ task # 0 /\ call[c].at # "idle"
           /\ \/ /\ call[c].at = "asked"
                 /\ stray' = stray \cup {call[c].tok}
                 /\ call' = [call EXCEPT ![c] = NoCall]
              \/ call' = [call EXCEPT ![c] = NoCall] /\ UNCHANGED stray
  <2>1. c \in Callers
    BY <1>4, Types, Basics DEF Booked
  <2>2. ~Quiet
    BY <1>4, <2>1, Basics DEF Quiet
  <2>3. call[c].at = "asked" => call[c].tok \in 1..issued
    BY <2>1, Types DEF Booked
  <2>4. stray' \subseteq 1..issued
    BY <1>4, <2>3, Types
  <2> HIDE DEF c
  <2>5. call' = [call EXCEPT ![c] = NoCall]
    BY <1>4
  <2>6. call \in [Callers -> CallStates(issued)] /\ NoCall \in CallStates(issued)
    BY Types, Basics
  <2>7. call' \in [Callers -> CallStates(issued)]
    BY <2>5, <2>6
  <2>8. \A d \in Callers : call'[d] = call[d] \/ call'[d] = NoCall
    BY <2>5, <2>6
  <2> QED BY <1>1, <2>2, <2>4, <2>7, <2>8
<1> QED BY <1>2, <1>3, <1>4

\* What a command that takes its next step becomes.
LEMMA Goes ==
  ASSUME TypeOK, NEW p \in Threads,
         NEW s \in {"stop", "clear", "start", "install", "keep", "outStop", "outDrop"}, Goto(p, s)
  PROVE  /\ rb' \in [Threads -> WorkStates(made)]
         /\ rb'[p].at = s /\ rb'[p].eng = rb[p].eng /\ rb'[p].fresh = rb[p].fresh
         /\ \A q \in Threads : q # p => rb'[q] = rb[q]
<1>1. rb \in [Threads -> WorkStates(made)]
  BY Types
<1>2. rb' = [rb EXCEPT ![p] = [rb[p] EXCEPT !.at = s]]
  BY DEF Goto
<1> DEFINE w == [rb[p] EXCEPT !.at = s]
<1>3. w \in WorkStates(made) /\ w.at = s /\ w.eng = rb[p].eng /\ w.fresh = rb[p].fresh
  BY <1>1 DEF WorkStates
<1> HIDE DEF w
<1>4. rb' = [rb EXCEPT ![p] = w]
  BY <1>2 DEF w
<1> QED BY <1>1, <1>3, <1>4

\* And one that is done.
LEMMA Ends ==
  ASSUME TypeOK, NEW p \in Threads, Done(p)
  PROVE  /\ rb' \in [Threads -> WorkStates(made)]
         /\ rb'[p] = NoWork /\ \A q \in Threads : q # p => rb'[q] = rb[q]
<1>1. rb \in [Threads -> WorkStates(made)] /\ NoWork \in WorkStates(made)
  BY Types, Basics
<1> QED BY <1>1 DEF Done

\* What a typed state is put together from.
LEMMA Assembled ==
  ASSUME keychain' \in 0..MaxTokens, issued' \in 0..MaxTokens, valid' \subseteq 1..issued',
         stray' \subseteq 1..issued', enabled' \in BOOLEAN, revoked' \in BOOLEAN, out' \in BOOLEAN,
         slot' \in 0..made', task' \in 0..made', made' \in {0} \cup Engines,
         running' \subseteq 1..made', sess' \subseteq 1..made', stat' \in [Engines -> States],
         call' \in [Callers -> CallStates(issued')], rb' \in [Threads -> WorkStates(made')],
         used' \in 0..MaxUses, faults' \in 0..MaxFaults, calm' \in BOOLEAN
  PROVE  TypeOK'
<1>1. made' \in Nat
  BY SessionConstants
<1>2. {slot', task'} \subseteq {0} \cup 1..made'
  BY <1>1
<1> QED BY <1>2 DEF TypeOK, CallStates, WorkStates

\* A step of the loop or of a command that borrows its credential, up to the request.
LEMMA CallSteps ==
  ASSUME TypeOK, Booked, NEW c \in Callers, UseSession(c) \/ NothingStored(c) \/ Ask(c)
  PROVE  TypeOK' /\ Booked'
<1>1. PICK s \in States : Report(c, s)
  BY DEF UseSession, NothingStored, Ask, States
<1>2. /\ stat' \in [Engines -> States]
      /\ \A e \in Engines : stat'[e] = stat[e] \/ (stat'[e] = s /\ e = c[2])
  BY <1>1, Reports
<1>3. c[2] \in 1..made
  BY Types, Basics DEF UseSession, NothingStored, Ask, MayCall, Booked
<1>4. \/ call' = call
      \/ /\ call' = [call EXCEPT ![c] = [at |-> "asked", tok |-> keychain, got |-> 0]]
         /\ keychain # 0
  BY DEF UseSession, NothingStored, Ask, Presented
<1> DEFINE k == [at |-> "asked", tok |-> keychain, got |-> 0]
<1>5. k \in CallStates(issued) /\ k.at = "asked" /\ k.tok = keychain
  BY Types DEF Booked, CallStates
<1> HIDE DEF k
<1>6. /\ call' \in [Callers -> CallStates(issued)]
      /\ \A d \in Callers : call'[d] = call[d] \/ (d = c /\ call'[d] = k /\ keychain # 0)
  BY <1>4, <1>5, Types DEF k
<1>7. used' \in 0..MaxUses
  BY Basics DEF UseSession, NothingStored, Ask, TypeOK
<1>8. UNCHANGED <<keychain, enabled, engineVars, sess, stray, rb, idpVars, out, faults, calm>>
  BY DEF UseSession, NothingStored, Ask
<1>9. TypeOK'
  BY <1>2, <1>6, <1>7, <1>8, Types, Assembled DEF TypeOK, engineVars, idpVars
<1>10. \A e \in Engines : e > made => stat'[e] = "idle"
  BY <1>2, <1>3, Types, Basics DEF Booked
<1>11. Booked'
  BY <1>3, <1>5, <1>6, <1>8, <1>10 DEF Booked, engineVars, idpVars
<1> QED BY <1>9, <1>11

\* What follows the request, for good or ill.
LEMMA AnswerSteps ==
  ASSUME TypeOK, Booked, NEW c \in Callers, Exchange(c) \/ Store(c) \/ Refuse(c) \/ Fail(c)
  PROVE  TypeOK' /\ Booked'
<1>0. /\ issued \in Nat /\ keychain \in Nat /\ keychain <= issued
      /\ call[c] # NoCall /\ c[2] \in 1..made
      /\ call \in [Callers -> CallStates(issued)]
  BY Types, Basics DEF Booked, Exchange, Store, Refuse, Fail
<1>1. CASE Exchange(c)
  <2> DEFINE k == [call[c] EXCEPT !.at = "answered", !.got = issued + 1]
  <2>1. /\ issued' = issued + 1 /\ issued' \in 0..MaxTokens
        /\ valid' = (valid \ {call[c].tok}) \cup {issued + 1}
        /\ call' = [call EXCEPT ![c] = k]
        /\ UNCHANGED <<keychain, enabled, engineVars, sess, stat, stray, rb, out, used, faults, revoked, calm>>
    <3>1. call' = [call EXCEPT ![c] = k]
      BY <1>1, <1>0 DEF Exchange
    <3>2. issued' = issued + 1 /\ issued' \in 0..MaxTokens
      BY <1>1, <1>0, SessionConstants DEF Exchange, Rotate
    <3> HIDE DEF k
    <3> QED BY <1>1, <3>1, <3>2 DEF Exchange, Rotate
  <2>2. CallStates(issued) \subseteq CallStates(issued') /\ 1..issued \subseteq 1..issued'
    BY <1>0, <2>1, Wider
  <2>3. k \in CallStates(issued') /\ k.at = "answered"
    <3>1. call[c] \in CallStates(issued') /\ issued' \in Nat /\ issued + 1 \in 0..issued'
      BY <1>0, <2>1, <2>2
    <3> QED BY <3>1 DEF CallStates
  <2> HIDE DEF k
  <2>4. /\ call' \in [Callers -> CallStates(issued')]
        /\ \A d \in Callers : call'[d] = IF d = c THEN k ELSE call[d]
    BY <1>0, <2>1, <2>2, <2>3
  <2>5. valid' \subseteq 1..issued' /\ stray' \subseteq 1..issued'
    BY <1>0, <2>1, <2>2, Types
  <2>6. TypeOK'
    BY <2>1, <2>4, <2>5, Types, Assembled DEF TypeOK, engineVars
  <2>7. Booked'
    BY <1>0, <2>1, <2>3, <2>4 DEF Booked, engineVars
  <2> QED BY <2>6, <2>7
<1>2. ASSUME Store(c) \/ Refuse(c) \/ Fail(c) PROVE TypeOK' /\ Booked'
  <2>1. call' = [call EXCEPT ![c] = NoCall]
    BY <1>2 DEF Store, Refuse, Fail, Ended, EndedAsError
  <2>2. /\ call' \in [Callers -> CallStates(issued)]
        /\ \A d \in Callers : call'[d] = IF d = c THEN NoCall ELSE call[d]
    BY <1>0, <2>1, Basics
  <2>3. keychain' \in 0..MaxTokens /\ keychain' <= issued
    <3>1. CASE Store(c)
      <4>1. call[c].got \in 0..issued /\ keychain' = call[c].got
        BY <3>1, Types DEF Store, Persist
      <4> QED BY <1>0, <4>1, Types, Basics
    <3>2. CASE Refuse(c) \/ Fail(c)
      BY <3>2, <1>0, Types DEF Refuse, Fail
    <3> QED BY <1>2, <3>1, <3>2
  <2>4. sess' \subseteq 1..made
    BY <1>0, <1>2, Types DEF Store, Refuse, Fail
  <2>5. /\ stat' \in [Engines -> States]
        /\ \A e \in Engines : stat'[e] = stat[e] \/ e = c[2]
    <3>1. CASE UNCHANGED stat
      BY <3>1, Types
    <3>2. CASE Report(c, "signedOut") \/ Report(c, "error")
      BY <3>2, Reports DEF States
    <3> QED BY <1>2, <3>1, <3>2 DEF Store, Refuse, Fail, Ended, EndedAsError
  <2>6. faults' \in 0..MaxFaults
    BY <1>2, Basics DEF Store, Refuse, Fail, TypeOK
  <2>7. UNCHANGED <<enabled, engineVars, stray, rb, idpVars, out, used, calm>>
    BY <1>2 DEF Store, Refuse, Fail
  <2>8. TypeOK'
    BY <2>2, <2>3, <2>4, <2>5, <2>6, <2>7, Types, Assembled DEF TypeOK, engineVars, idpVars
  <2>9. \A e \in Engines : e > made => stat'[e] = "idle"
    BY <1>0, <2>5, Types, Basics DEF Booked
  <2>10. Booked'
    BY <2>2, <2>3, <2>7, <2>9, Basics DEF Booked, engineVars, idpVars
  <2> QED BY <2>8, <2>10
<1> QED BY <1>1, <1>2

\* What happens without the application's doing.
LEMMA OutsideSteps ==
  ASSUME TypeOK, Booked,
         (\E t \in stray : ExchangeStray(t)) \/ (\E e \in Engines : Expire(e)) \/ Revoke
  PROVE  TypeOK' /\ Booked'
<1>0. issued \in Nat /\ keychain \in Nat /\ keychain <= issued
  BY Types DEF Booked
<1>1. ASSUME NEW t \in stray, ExchangeStray(t) PROVE TypeOK' /\ Booked'
  <2>1. /\ issued' = issued + 1 /\ issued' \in 0..MaxTokens
        /\ valid' = (valid \ {t}) \cup {issued + 1} /\ stray' = stray \ {t}
        /\ UNCHANGED <<keychain, enabled, engineVars, sess, stat, call, rb, out, used, faults, revoked, calm>>
    BY <1>1, <1>0, Types, Basics DEF ExchangeStray, Rotate
  <2>2. CallStates(issued) \subseteq CallStates(issued') /\ 1..issued \subseteq 1..issued'
    BY <1>0, <2>1, Wider
  <2>3. call' \in [Callers -> CallStates(issued')]
    BY <2>1, <2>2, Types
  <2>4. valid' \subseteq 1..issued' /\ stray' \subseteq 1..issued'
    BY <1>0, <2>1, <2>2, Types
  <2>5. TypeOK'
    BY <2>1, <2>3, <2>4, Types, Assembled DEF TypeOK, engineVars
  <2>6. Booked'
    BY <1>0, <2>1 DEF Booked, engineVars
  <2> QED BY <2>5, <2>6
<1>2. ASSUME (\E e \in Engines : Expire(e)) \/ Revoke PROVE TypeOK' /\ Booked'
  <2>1. /\ sess' \subseteq 1..made /\ valid' \subseteq 1..issued /\ revoked' \in BOOLEAN
        /\ UNCHANGED <<keychain, enabled, engineVars, stat, call, stray, rb, issued, out, used, faults, calm>>
    BY <1>2, Types DEF Expire, Revoke, TypeOK, idpVars
  <2>2. TypeOK'
    BY <2>1, Types, Assembled DEF TypeOK, engineVars
  <2>3. Booked'
    BY <2>1 DEF Booked, engineVars
  <2> QED BY <2>2, <2>3
<1> QED BY <1>1, <1>2

\* A command's step between two locks.
LEMMA WorkSteps ==
  ASSUME TypeOK, Booked, NEW p \in Threads,
         Stop(p) \/ Clear(p) \/ GiveUp(p) \/ Install(p) \/ Keep(p)
  PROVE  TypeOK' /\ Booked'
<1>1. CASE Stop(p)
  <2>1. /\ call' \in [Callers -> CallStates(issued)] /\ stray' \subseteq 1..issued
        /\ \A c \in Callers : call'[c] = call[c] \/ call'[c] = NoCall
        /\ task' = 0 /\ running' \subseteq 1..made
    BY <1>1, Aborts, Types DEF Stop
  <2>2. /\ rb' \in [Threads -> WorkStates(made)] /\ rb'[p].at = "clear"
        /\ \A q \in Threads : q # p => rb'[q] = rb[q]
    BY <1>1, Goes DEF Stop
  <2>3. UNCHANGED <<keychain, enabled, slot, made, sess, stat, idpVars, out, used, faults, calm>>
    BY <1>1 DEF Stop
  <2>4. TypeOK'
    BY <2>1, <2>2, <2>3, Types, Assembled DEF TypeOK, idpVars
  <2>5. Booked'
    BY <2>1, <2>2, <2>3, Basics DEF Booked, idpVars
  <2> QED BY <2>4, <2>5
<1>2. ASSUME Clear(p) \/ GiveUp(p) \/ Install(p) \/ Keep(p) PROVE TypeOK' /\ Booked'
  <2>1. /\ rb' \in [Threads -> WorkStates(made)]
        /\ rb'[p] = NoWork \/ rb'[p].at # "idle"
        /\ \A q \in Threads : q # p => rb'[q] = rb[q]
    BY <1>2, Goes, Ends DEF Clear, GiveUp, Install, Keep
  <2>2. slot' \in 0..made /\ task' \in 0..made
    BY <1>2, Types DEF Clear, GiveUp, Install, Keep, engineVars
  <2>3. UNCHANGED <<keychain, enabled, made, running, sess, stat, call, stray, idpVars, out, used,
                    faults, calm>>
    BY <1>2 DEF Clear, GiveUp, Install, Keep, engineVars
  <2>4. TypeOK'
    BY <2>1, <2>2, <2>3, Types, Assembled DEF TypeOK, idpVars
  <2>5. Booked'
    BY <2>1, <2>3 DEF Booked, idpVars
  <2> QED BY <2>4, <2>5
<1> QED BY <1>1, <1>2

\* A command that builds the next engine.
LEMMA BuildStep ==
  ASSUME TypeOK, Booked, NEW p \in Threads, Build(p)
  PROVE  /\ TypeOK' /\ Booked'
         /\ made' = made + 1 /\ made' \in Engines
         /\ rb'[p].at = "install" /\ rb'[p].eng = made' /\ rb'[p].fresh = rb[p].fresh
         /\ \A q \in Threads : q # p => rb'[q] = rb[q]
<1> DEFINE w == [rb[p] EXCEPT !.at = "install", !.eng = made + 1]
<1>1. /\ made \in Nat /\ made' = made + 1 /\ made' \in Engines /\ made' \in Nat
      /\ running' = running \cup {made + 1} /\ sess' \subseteq sess \cup {made + 1}
      /\ UNCHANGED <<keychain, enabled, slot, task, stat, call, stray, idpVars, out, used, faults, calm>>
  BY Types DEF Build
<1>2. WorkStates(made) \subseteq WorkStates(made') /\ 1..made \subseteq 1..made'
  BY <1>1, Wider
<1>3. rb[p] \in WorkStates(made') /\ made + 1 \in 0..made'
  BY <1>1, <1>2, Types
<1>4. w \in WorkStates(made') /\ w.at = "install" /\ w.eng = made' /\ w.fresh = rb[p].fresh
  BY <1>1, <1>3 DEF WorkStates
<1>5. rb' = [rb EXCEPT ![p] = w]
  BY DEF Build
<1> HIDE DEF w
<1>8. rb' \in [Threads -> WorkStates(made')] /\ \A q \in Threads : rb'[q] = IF q = p THEN w ELSE rb[q]
  BY <1>2, <1>4, <1>5, Types
<1>9. /\ slot' \in 0..made' /\ task' \in 0..made'
      /\ running' \subseteq 1..made' /\ sess' \subseteq 1..made'
  BY <1>1, <1>2, Types
<1>10. TypeOK'
  BY <1>1, <1>8, <1>9, Types, Assembled DEF TypeOK, idpVars
<1>11. 1..made' \subseteq Engines
  BY <1>1 DEF Booked
<1>12. \A e \in Engines : e > made' => stat'[e] = "idle"
  BY <1>1, Basics DEF Booked
<1>13. \A c \in Callers : call'[c] # NoCall => c[2] \in 1..made'
  BY <1>1, <1>2 DEF Booked
<1>14. Booked'
  BY <1>1, <1>4, <1>8, <1>11, <1>12, <1>13 DEF Booked, idpVars
<1> QED BY <1>1, <1>4, <1>8, <1>10, <1>14

\* What the user asks for.
LEMMA UserSteps ==
  ASSUME TypeOK, Booked,
         (\E on \in BOOLEAN : SaveConfig(on)) \/ SignIn \/ SignOut \/ SignOutStop \/ SignOutDrop
  PROVE  TypeOK' /\ Booked'
<1>0. "main" \in Threads /\ "worker" \in Threads
  BY DEF Threads
<1>1. CASE (\E on \in BOOLEAN : SaveConfig(on)) \/ SignOut
  <2>1. PICK s \in {"stop", "outStop"} : Goto("main", s)
    BY <1>1 DEF SaveConfig, SignOut
  <2>2. /\ rb' \in [Threads -> WorkStates(made)] /\ rb'["main"].at # "idle"
        /\ \A q \in Threads : q # "main" => rb'[q] = rb[q]
    BY <1>0, <2>1, Goes
  <2>3. used' \in 0..MaxUses /\ enabled' \in BOOLEAN
    BY <1>1, Basics DEF SaveConfig, SignOut, MayAct, TypeOK
  <2>4. UNCHANGED <<keychain, engineVars, sess, stat, call, stray, idpVars, out, faults, calm>>
    BY <1>1 DEF SaveConfig, SignOut
  <2>5. TypeOK'
    BY <2>2, <2>3, <2>4, Types, Assembled DEF TypeOK, engineVars, idpVars
  <2>6. Booked'
    BY <2>2, <2>4 DEF Booked, engineVars, idpVars
  <2> QED BY <2>5, <2>6
<1>2. CASE SignIn
  <2> DEFINE w == [at |-> "stop", eng |-> 0, fresh |-> TRUE]
  <2>1. /\ issued \in Nat /\ issued' = issued + 1 /\ issued' \in 0..MaxTokens
        /\ keychain' = issued' /\ valid' = valid \cup {issued'}
        /\ rb' = [rb EXCEPT !["worker"] = w]
        /\ UNCHANGED <<enabled, engineVars, sess, stat, call, stray, faults, calm>>
    BY <1>2, Types, SessionConstants DEF SignIn
  <2>2. w \in WorkStates(made) /\ w.at # "idle"
    BY Types DEF WorkStates
  <2> HIDE DEF w
  <2>3. rb' \in [Threads -> WorkStates(made)] /\ \A q \in Threads : rb'[q] = IF q = "worker" THEN w ELSE rb[q]
    BY <1>0, <2>1, <2>2, Types
  <2>4. CallStates(issued) \subseteq CallStates(issued') /\ 1..issued \subseteq 1..issued'
    BY <2>1, Wider
  <2>5. /\ call' \in [Callers -> CallStates(issued')]
        /\ valid' \subseteq 1..issued' /\ stray' \subseteq 1..issued'
    BY <2>1, <2>4, Types
  <2>6. used' \in 0..MaxUses /\ out' \in BOOLEAN /\ revoked' \in BOOLEAN
    <3>1. used \in 0..MaxUses /\ used < MaxUses /\ used' = used + 1
      BY <1>2 DEF SignIn, MayAct, TypeOK
    <3>2. used' \in 0..MaxUses
      BY <3>1, SessionConstants
    <3> QED BY <1>2, <3>2 DEF SignIn
  <2>7. TypeOK'
    BY <2>1, <2>3, <2>5, <2>6, Types, Assembled DEF TypeOK, engineVars
  <2>8. Booked'
    BY <2>1, <2>2, <2>3 DEF Booked, engineVars
  <2> QED BY <2>7, <2>8
<1>3. CASE SignOutStop
  <2>1. /\ call' \in [Callers -> CallStates(issued)] /\ stray' \subseteq 1..issued
        /\ \A c \in Callers : call'[c] = call[c] \/ call'[c] = NoCall
        /\ task' = 0 /\ running' \subseteq 1..made
    BY <1>3, Aborts, Types DEF SignOutStop
  <2>2. /\ rb' \in [Threads -> WorkStates(made)] /\ rb'["main"].at = "outDrop"
        /\ \A q \in Threads : q # "main" => rb'[q] = rb[q]
    BY <1>0, <1>3, Goes DEF SignOutStop
  <2>3. UNCHANGED <<keychain, enabled, slot, made, sess, stat, idpVars, out, used, faults, calm>>
    BY <1>3 DEF SignOutStop
  <2>4. TypeOK'
    BY <2>1, <2>2, <2>3, Types, Assembled DEF TypeOK, idpVars
  <2>5. Booked'
    BY <2>1, <2>2, <2>3, Basics DEF Booked, idpVars
  <2> QED BY <2>4, <2>5
<1>4. CASE SignOutDrop
  <2>1. /\ rb' \in [Threads -> WorkStates(made)] /\ rb'["main"] = NoWork
        /\ \A q \in Threads : q # "main" => rb'[q] = rb[q]
    BY <1>0, <1>4, Ends DEF SignOutDrop
  <2>2. /\ keychain' = 0 /\ out' = TRUE /\ slot' = 0 /\ sess' = sess \ {slot}
        /\ stat' = IF slot = 0 THEN stat ELSE [stat EXCEPT ![slot] = "signedOut"]
        /\ UNCHANGED <<enabled, task, made, running, call, stray, idpVars, used, faults, calm>>
    BY <1>4 DEF SignOutDrop, DropSecrets
  <2>3. stat' \in [Engines -> States] /\ \A e \in Engines : e > made => stat'[e] = "idle"
    BY <2>2, Types, Basics DEF Booked, States
  <2>4. TypeOK'
    <3>1. keychain' \in 0..MaxTokens /\ out' \in BOOLEAN /\ slot' \in 0..made' /\ sess' \subseteq 1..made'
      BY <2>2, Types, SessionConstants
    <3>2. enabled' \in BOOLEAN /\ used' \in 0..MaxUses /\ faults' \in 0..MaxFaults /\ calm' \in BOOLEAN
          /\ made' \in {0} \cup Engines
      BY <2>2 DEF TypeOK
    <3>3. /\ issued' \in 0..MaxTokens /\ valid' \subseteq 1..issued' /\ stray' \subseteq 1..issued'
          /\ revoked' \in BOOLEAN /\ task' \in 0..made' /\ running' \subseteq 1..made'
          /\ call' \in [Callers -> CallStates(issued')]
      BY <2>2, Types DEF idpVars, TypeOK
    <3>4. rb' \in [Threads -> WorkStates(made')]
      BY <2>1, <2>2
    <3> QED BY <2>3, <3>1, <3>2, <3>3, <3>4, Assembled
  <2>5. Booked'
    BY <2>1, <2>2, <2>3, Types, SessionConstants DEF Booked, idpVars
  <2> QED BY <2>4, <2>5
<1> QED BY <1>1, <1>2, <1>3, <1>4

\* Every step keeps the books.
LEMMA BookStep == ASSUME TypeOK, Booked, [Next]_vars PROVE TypeOK' /\ Booked'
<1>1. CASE UNCHANGED vars
  BY <1>1 DEF vars, engineVars, idpVars, TypeOK, Booked
<1>2. CASE Next
  BY <1>2, CallSteps, AnswerSteps, OutsideSteps, WorkSteps, BuildStep, UserSteps DEF Next
<1> QED BY <1>1, <1>2

-----------------------------------------------------------------------------
(***************************************************************************)
(* The other parts of the invariant, in a calm behaviour.                  *)
(***************************************************************************)
\* What a calm behaviour says of its one refresh and its one command.
LEMMA Alone ==
  ASSUME TypeOK, Booked, OneByOne
  PROVE  /\ \A c \in Callers : call[c] = NoCall <=> call[c].at = "idle"
         /\ \A p \in Threads : rb[p] = NoWork <=> rb[p].at = "idle"
         /\ \A p \in Threads : rb[p].at # "idle" =>
              ~Settled /\ \A q \in Threads : q # p => rb[q] = NoWork
         /\ \A c \in Callers : call[c].at # "idle" => \A d \in Callers : d # c => call[d] = NoCall
BY Basics DEF Booked, OneByOne, Settled

\* A calm refresh and what its end shows.
LEMMA CalmCalls ==
  ASSUME TypeOK, Booked, calm, OneByOne, Handles, Truth, SignedOut, NEW c \in Callers,
         UseSession(c) \/ NothingStored(c) \/ Ask(c) \/ Exchange(c) \/ Store(c) \/ Refuse(c) \/ Fail(c)
  PROVE  (OneByOne /\ Handles /\ Truth /\ SignedOut)'
<1>0. UNCHANGED <<slot, task, made, running, stray, rb, out>>
  BY DEF UseSession, NothingStored, Ask, Exchange, Store, Refuse, Fail, engineVars
<1>c. call \in [Callers -> CallStates(issued)]
  BY Types
<1>1. Handles'
  BY <1>0 DEF Handles, Settled
<1>2. ASSUME keychain' = keychain \/ ~out PROVE SignedOut'
  BY <1>0, <1>2 DEF SignedOut, Settled
<1>3. ASSUME \A e \in 1..made : Honest(e) => Honest(e)' PROVE Truth'
  <2>1. Settled /\ slot # 0 => slot \in 1..made
    BY Types
  <2>2. \A p \in Threads : rb[p].at \in {"install", "keep"} => rb[p].eng \in 1..made
    BY DEF Handles
  <2>3. ASSUME Settled', slot' # 0 PROVE Honest(slot)'
    <3>1. slot \in 1..made /\ Honest(slot)
      BY <1>0, <2>1, <2>3 DEF Settled, Truth
    <3> QED BY <1>0, <1>3, <3>1 DEF Honest
  <2>4. ASSUME NEW p \in Threads, rb'[p].at \in {"install", "keep"} PROVE Honest(rb[p].eng)'
    <3>1. rb[p].eng \in 1..made /\ Honest(rb[p].eng)
      BY <1>0, <2>2, <2>4 DEF Truth
    <3> QED BY <1>0, <1>3, <3>1 DEF Honest
  <2> QED BY <2>3, <2>4 DEF Truth
<1>4. CASE UseSession(c) \/ NothingStored(c)
  <2>1. UNCHANGED <<keychain, call, valid>>
    BY <1>4 DEF UseSession, NothingStored, idpVars
  <2>2. PICK s \in States : Report(c, s) /\ (s = "signedOut" => keychain = 0)
    BY <1>4 DEF UseSession, NothingStored, States
  <2>3. \A e \in Engines : stat'[e] = stat[e] \/ stat'[e] = s
    BY <2>2, Reports
  <2>4. \A e \in 1..made : Honest(e) => Honest(e)'
    BY <2>1, <2>2, <2>3 DEF Honest, Booked
  <2>5. OneByOne'
    BY <1>0, <2>1 DEF OneByOne
  <2> QED BY <1>1, <1>2, <1>3, <2>1, <2>4, <2>5
<1>5. CASE Ask(c)
  <2> DEFINE k == [at |-> "asked", tok |-> keychain, got |-> 0]
  <2>1. /\ \A d \in Callers : call[d] = NoCall
        /\ call' = [call EXCEPT ![c] = k] /\ keychain # 0
        /\ UNCHANGED <<keychain, valid>>
    BY <1>5 DEF Ask, Quiet, Presented, idpVars
  <2>2. k.at = "asked" /\ k.tok = keychain
    OBVIOUS
  <2> HIDE DEF k
  <2>3. \A d \in Callers : call'[d] = IF d = c THEN k ELSE NoCall
    BY <1>c, <2>1
  <2>4. \A e \in Engines : stat'[e] = stat[e] \/ stat'[e] = "syncing"
    <3>1. Report(c, "syncing") /\ "syncing" \in States
      BY <1>5 DEF Ask, States
    <3> QED BY <3>1, Reports
  <2>5. \A e \in 1..made : Honest(e) => Honest(e)'
    BY <2>1, <2>2, <2>3, <2>4, Basics DEF Honest, Booked
  <2>6. OneByOne'
    BY <1>0, <2>1, <2>2, <2>3, Basics DEF OneByOne
  <2> QED BY <1>1, <1>2, <1>3, <2>1, <2>5, <2>6
\* From here on the call is on its way, and the only one.
<1>6. ASSUME call[c].at # "idle"
      PROVE  keychain # 0 /\ ~out /\ \A d \in Callers : d # c => call[d] = NoCall
  BY <1>6, Alone DEF OneByOne, SignedOut
<1>7. CASE Exchange(c)
  <2>1. /\ call[c].at = "asked" /\ call[c].tok = keychain /\ keychain \in valid
        /\ UNCHANGED <<keychain, stat>>
    BY <1>7 DEF Exchange, OneByOne
  <2>2. call'[c].at = "answered" /\ \A d \in Callers : d # c => call'[d] = call[d]
    <3> DEFINE k == [call[c] EXCEPT !.at = "answered", !.got = issued + 1]
    <3>1. call' = [call EXCEPT ![c] = k]
      BY <1>c, <1>7 DEF Exchange
    <3>2. k.at = "answered"
      BY <1>c DEF CallStates
    <3> HIDE DEF k
    <3> QED BY <1>c, <3>1, <3>2
  <2>3. \A e \in 1..made : Honest(e) => Honest(e)'
    BY <1>6, <2>1 DEF Honest
  <2>4. OneByOne'
    BY <1>0, <1>6, <2>1, <2>2, Basics DEF OneByOne
  <2> QED BY <1>1, <1>2, <1>3, <2>1, <2>3, <2>4
<1>8. ASSUME call'= [call EXCEPT ![c] = NoCall], call[c].at # "idle"
      PROVE  OneByOne' /\ \A d \in Callers : call'[d] = NoCall
  <2>1. \A d \in Callers : call'[d] = NoCall
    BY <1>6, <1>8, <1>c
  <2> QED BY <1>0, <2>1, Basics DEF OneByOne
<1>9. CASE Store(c)
  <2>1. call[c].at = "answered" /\ call' = [call EXCEPT ![c] = NoCall] /\ stat' = stat
    BY <1>9 DEF Store
  <2>2. \A e \in 1..made : Honest(e) => Honest(e)'
    BY <1>6, <2>1 DEF Honest
  <2> QED BY <1>1, <1>2, <1>3, <1>6, <1>8, <2>1, <2>2
<1>10. CASE Refuse(c)
  <2>1. /\ call[c].at = "asked" /\ call[c].tok = keychain /\ keychain \notin valid
        /\ call' = [call EXCEPT ![c] = NoCall]
        /\ UNCHANGED <<keychain, valid>>
    BY <1>10 DEF Refuse, Ended, OneByOne, idpVars
  <2>2. \A e \in 1..made : Honest(e)'
    BY <1>8, <2>1, Basics DEF Honest
  <2> QED BY <1>1, <1>2, <1>3, <1>8, <2>1, <2>2
<1>11. CASE Fail(c)
  BY <1>11 DEF Fail
<1> QED BY <1>4, <1>5, <1>7, <1>9, <1>10, <1>11

\* What happens outside the application disturbs nothing in a calm behaviour.
LEMMA CalmOutside ==
  ASSUME TypeOK, Booked, calm, OneByOne, Handles, Truth, SignedOut,
         (\E t \in stray : ExchangeStray(t)) \/ (\E e \in Engines : Expire(e)) \/ Revoke
  PROVE  (OneByOne /\ Handles /\ Truth /\ SignedOut)'
<1>1. /\ UNCHANGED <<keychain, slot, task, running, made, stat, call, stray, rb, out>>
      /\ valid' \subseteq valid
  BY DEF OneByOne, Expire, Revoke, engineVars, idpVars
<1>2. OneByOne' /\ Handles' /\ SignedOut'
  BY <1>1 DEF OneByOne, Handles, SignedOut, Settled
<1>3. \A e : Honest(e) => Honest(e)'
  BY <1>1 DEF Honest
<1>4. Truth'
  BY <1>1, <1>3 DEF Truth, Settled, Honest
<1> QED BY <1>2, <1>4

\* A command stops the loop, clears the slot, builds an engine and installs it.
LEMMA CalmWork ==
  ASSUME TypeOK, Booked, calm, OneByOne, Handles, Truth, SignedOut, NEW p \in Threads,
         Stop(p) \/ Clear(p) \/ GiveUp(p) \/ Build(p) \/ Install(p) \/ Keep(p)
  PROVE  (OneByOne /\ Handles /\ Truth /\ SignedOut)'
<1>0. /\ rb[p].at # "idle" /\ ~Settled /\ \A q \in Threads : q # p => rb[q] = NoWork
  <2>1. rb[p].at # "idle"
    BY DEF Stop, Clear, GiveUp, Build, Install, Keep, At
  <2> QED BY <2>1, Alone
<1>1. UNCHANGED <<keychain, call, stray, out, valid>>
  BY Aborts DEF Stop, Clear, GiveUp, Build, Install, Keep, engineVars, idpVars
<1>2. OneByOne'
  <2>1. \A q \in Threads : q # p => rb'[q] = NoWork
    BY <1>0, Goes, Ends, BuildStep DEF Stop, Clear, GiveUp, Build, Install, Keep
  <2> QED BY <1>1, <2>1 DEF OneByOne
<1>n. NoWork.at = "idle" /\ NoWork.fresh = FALSE
  BY Basics
\* Commands whose work goes on.
<1>g. ASSUME rb'[p].at # "idle", \A q \in Threads : q # p => rb'[q] = NoWork
      PROVE  ~Settled'
  BY <1>g, <1>n DEF Settled
<1>3. CASE Stop(p)
  <2>1. /\ rb'[p].at = "clear" /\ rb'[p].fresh = rb[p].fresh
        /\ \A q \in Threads : q # p => rb'[q] = NoWork
    BY <1>0, <1>3, Goes DEF Stop
  <2>2. task' = 0 /\ running' = running \ {task} /\ running = {task} \ {0}
    BY <1>3, Aborts DEF Stop, At, Handles
  <2>3. Handles' /\ Truth'
    BY <1>g, <1>n, <2>1, <2>2 DEF Handles, Truth
  <2>4. SignedOut'
    BY <1>1, <1>g, <1>n, <2>1 DEF SignedOut
  <2> QED BY <1>2, <2>3, <2>4
<1>4. CASE Clear(p)
  <2>1. /\ rb'[p].at = "start" /\ rb'[p].fresh = rb[p].fresh
        /\ \A q \in Threads : q # p => rb'[q] = NoWork
    BY <1>0, <1>4, Goes DEF Clear
  <2>2. slot' = 0 /\ task' = 0 /\ running' = {}
    BY <1>4 DEF Clear, At, Handles
  <2>3. Handles' /\ Truth'
    BY <1>g, <1>n, <2>1, <2>2 DEF Handles, Truth
  <2>4. SignedOut'
    BY <1>1, <1>g, <1>n, <2>1 DEF SignedOut
  <2> QED BY <1>2, <2>3, <2>4
<1>5. CASE GiveUp(p)
  <2>1. \A q \in Threads : rb'[q] = NoWork
    BY <1>0, <1>5, Ends DEF GiveUp
  <2>2. slot' = 0 /\ task' = 0 /\ running' = {}
    BY <1>5 DEF GiveUp, At, Handles, engineVars
  <2>3. Handles' /\ Truth'
    BY <1>n, <2>1, <2>2 DEF Handles, Truth
  <2>4. SignedOut'
    BY <1>1, <1>n, <2>1, <2>2 DEF SignedOut
  <2> QED BY <1>2, <2>3, <2>4
<1>6. CASE Build(p)
  <2>1. /\ made' = made + 1 /\ made' \in Engines
        /\ rb'[p].at = "install" /\ rb'[p].eng = made'
        /\ \A q \in Threads : q # p => rb'[q] = NoWork
    BY <1>0, <1>6, BuildStep
  <2>2. slot' = 0 /\ task' = 0 /\ running' = {made'} /\ stat' = stat
    BY <1>6 DEF Build, At, Handles
  <2>3. made' > made /\ made' \in 1..made' /\ made' # 0
    BY <2>1, Types
  <2>4. Handles'
    BY <1>g, <1>n, <2>1, <2>2, <2>3 DEF Handles
  <2>5. stat'[made'] = "idle"
    BY <2>1, <2>2, <2>3 DEF Booked
  <2>6. Truth'
    BY <1>g, <1>n, <2>1, <2>5 DEF Truth, Honest
  <2>7. ~out'
    BY <1>1, <1>6 DEF Build, Usable, SignedOut
  <2> QED BY <1>2, <2>4, <2>6, <2>7 DEF SignedOut
<1>7. CASE Install(p)
  <2>1. /\ rb[p].at = "install" /\ rb'[p].at = "keep" /\ rb'[p].eng = rb[p].eng
        /\ \A q \in Threads : q # p => rb'[q] = NoWork
    BY <1>0, <1>7, Goes DEF Install, At
  <2>2. /\ slot' = rb[p].eng /\ task' = 0 /\ rb[p].eng \in 1..made /\ running' = {rb[p].eng}
        /\ made' = made /\ stat' = stat /\ Honest(rb[p].eng) /\ ~out
    BY <1>7, <2>1 DEF Install, Handles, Truth, SignedOut
  <2>3. Handles'
    BY <1>g, <1>n, <2>1, <2>2 DEF Handles
  <2>4. Truth'
    BY <1>1, <1>g, <1>n, <2>1, <2>2 DEF Truth, Honest
  <2> QED BY <1>1, <1>2, <2>2, <2>3, <2>4 DEF SignedOut
<1>8. CASE Keep(p)
  <2>1. rb[p].at = "keep" /\ \A q \in Threads : rb'[q] = NoWork
    BY <1>0, <1>8, Ends DEF Keep, At
  <2>2. /\ slot' = rb[p].eng /\ task' = rb[p].eng /\ rb[p].eng \in 1..made /\ running' = {rb[p].eng}
        /\ stat' = stat /\ Honest(rb[p].eng) /\ ~out
    BY <1>8, <2>1 DEF Keep, Handles, Truth, SignedOut
  <2>3. rb[p].eng # 0
    BY <2>2, Types
  <2>4. Handles'
    BY <1>n, <2>1, <2>2, <2>3 DEF Handles
  <2>5. Truth'
    BY <1>1, <1>n, <2>1, <2>2 DEF Truth, Honest
  <2> QED BY <1>1, <1>2, <2>2, <2>4, <2>5 DEF SignedOut
<1> QED BY <1>3, <1>4, <1>5, <1>6, <1>7, <1>8

\* The user begins a command, and a sign-out runs to its end.
LEMMA CalmUser ==
  ASSUME TypeOK, Booked, calm, OneByOne, Handles, Truth, SignedOut,
         (\E on \in BOOLEAN : SaveConfig(on)) \/ SignIn \/ SignOut \/ SignOutStop \/ SignOutDrop
  PROVE  (OneByOne /\ Handles /\ Truth /\ SignedOut)'
<1>n. NoWork.at = "idle" /\ NoWork.fresh = FALSE /\ "main" \in Threads /\ "worker" \in Threads
  BY Basics DEF Threads
<1>1. CASE (\E on \in BOOLEAN : SaveConfig(on)) \/ SignOut
  <2>1. PICK s \in {"stop", "outStop"} : Goto("main", s)
    BY <1>1 DEF SaveConfig, SignOut
  <2>2. Settled /\ UNCHANGED <<keychain, engineVars, stat, call, stray, idpVars, out>>
    BY <1>1 DEF SaveConfig, SignOut, MayAct
  <2>3. \A q \in Threads : rb[q] = NoWork
    BY <2>2 DEF Settled
  <2>4. /\ rb'["main"].at = s /\ ~rb'["main"].fresh
        /\ \A q \in Threads : q # "main" => rb'[q] = NoWork
    BY <1>n, <2>1, <2>3, Goes
  <2>5. ~Settled'
    BY <1>n, <2>1, <2>4 DEF Settled
  <2>6. OneByOne'
    BY <2>2, <2>4 DEF OneByOne
  <2>7. Handles' /\ Truth'
    BY <1>n, <2>1, <2>2, <2>4, <2>5 DEF Handles, Truth, engineVars
  <2>8. SignedOut'
    BY <1>n, <2>1, <2>2, <2>4, <2>5 DEF SignedOut
  <2> QED BY <2>6, <2>7, <2>8
<1>2. CASE SignIn
  <2>1. /\ Settled /\ Quiet /\ ~out'
        /\ rb' = [rb EXCEPT !["worker"] = [at |-> "stop", eng |-> 0, fresh |-> TRUE]]
        /\ UNCHANGED <<engineVars, call, stray>>
    BY <1>2, Types DEF SignIn, MayAct, TypeOK
  <2>2. rb'["worker"].at = "stop" /\ \A q \in Threads : q # "worker" => rb'[q] = NoWork
    BY <1>n, <2>1, Types DEF Settled
  <2>3. ~Settled'
    BY <1>n, <2>2 DEF Settled
  <2>4. OneByOne'
    BY <2>1, <2>2, Basics DEF OneByOne, Quiet
  <2>5. Handles' /\ Truth'
    BY <1>n, <2>1, <2>2, <2>3 DEF Handles, Truth, engineVars
  <2> QED BY <2>1, <2>4, <2>5 DEF SignedOut
<1>3. CASE SignOutStop
  <2>1. rb["main"].at = "outStop" /\ \A q \in Threads : q # "main" => rb[q] = NoWork
    BY <1>n, <1>3, Alone DEF SignOutStop, At
  <2>2. /\ rb'["main"].at = "outDrop" /\ rb'["main"].fresh = rb["main"].fresh
        /\ \A q \in Threads : q # "main" => rb'[q] = NoWork
    BY <1>n, <1>3, <2>1, Goes DEF SignOutStop
  <2>3. UNCHANGED <<keychain, call, stray, out>>
    BY <1>3, Aborts DEF SignOutStop
  <2>4. task' = 0 /\ running' = {}
    BY <1>n, <1>3, <2>1, Aborts DEF SignOutStop, Handles
  <2>5. ~Settled'
    BY <1>n, <2>2 DEF Settled
  <2>6. OneByOne'
    BY <2>2, <2>3 DEF OneByOne
  <2>7. Handles' /\ Truth'
    BY <1>n, <2>2, <2>4, <2>5 DEF Handles, Truth
  <2>8. SignedOut'
    BY <1>n, <2>2, <2>3, <2>5 DEF SignedOut
  <2> QED BY <2>6, <2>7, <2>8
<1>4. CASE SignOutDrop
  <2>1. rb["main"].at = "outDrop" /\ \A q \in Threads : q # "main" => rb[q] = NoWork
    BY <1>n, <1>4, Alone DEF SignOutDrop, At
  <2>2. \A q \in Threads : rb'[q] = NoWork
    BY <1>n, <1>4, <2>1, Ends DEF SignOutDrop
  <2>3. /\ keychain' = 0 /\ slot' = 0 /\ task' = 0 /\ running' = {} /\ Quiet
        /\ UNCHANGED <<call, stray>>
    BY <1>n, <1>4, <2>1 DEF SignOutDrop, DropSecrets, Handles
  <2>4. OneByOne'
    BY <2>2, <2>3, Basics DEF OneByOne, Quiet
  <2>5. Handles' /\ Truth' /\ SignedOut'
    BY <1>n, <2>2, <2>3 DEF Handles, Truth, SignedOut
  <2> QED BY <2>4, <2>5
<1> QED BY <1>1, <1>2, <1>3, <1>4

-----------------------------------------------------------------------------
(***************************************************************************)
(* The theorems.                                                           *)
(***************************************************************************)
\* The app starts with a command at work, which stops, clears and builds.
LEMMA IndInit == Init => Ind
<1> SUFFICES ASSUME Init PROVE Ind
  OBVIOUS
<1>n. NoWork.at = "idle" /\ NoWork.fresh = FALSE /\ "main" \in Threads /\ "worker" \in Threads
  BY Basics DEF Threads
<1>1. /\ rb["main"].at = "stop" /\ rb["main"].fresh = FALSE /\ rb["main"].eng = 0
      /\ \A q \in Threads : q # "main" => rb[q] = NoWork
  BY <1>n DEF Init, NoWork
<1>2. \A c \in Callers : call[c] = NoCall
  BY DEF Init
<1>3. TypeOK
  <2>1. rb \in [Threads -> WorkStates(made)]
    <3>1. [NoWork EXCEPT !.at = "stop"] \in WorkStates(0) /\ NoWork \in WorkStates(0)
      <4>1. NoWork \in WorkStates(0)
        BY Basics
      <4> QED BY <4>1 DEF WorkStates
    <3> QED BY <3>1 DEF Init
  <2>2. call \in [Callers -> CallStates(issued)]
    BY Basics DEF Init
  <2>3. stat \in [Engines -> States]
    BY DEF Init, States
  <2>4. /\ keychain \in 0..MaxTokens /\ issued \in 0..MaxTokens /\ valid \subseteq 1..issued
        /\ stray \subseteq 1..issued /\ used \in 0..MaxUses /\ faults \in 0..MaxFaults
    BY SessionConstants DEF Init
  <2>5. /\ enabled \in BOOLEAN /\ revoked \in BOOLEAN /\ out \in BOOLEAN /\ calm \in BOOLEAN
        /\ {slot, task} \subseteq {0} \cup 1..made /\ made \in {0} \cup Engines
        /\ running \subseteq 1..made /\ sess \subseteq 1..made
    BY DEF Init
  <2> QED BY <2>1, <2>2, <2>3, <2>4, <2>5 DEF TypeOK, CallStates, WorkStates
<1>4. Booked
  <2>1. 1..made \subseteq Engines /\ keychain <= issued /\ \A e \in Engines : stat[e] = "idle"
    BY DEF Init
  <2> QED BY <1>1, <1>2, <2>1, Basics DEF Booked
<1>5. OneByOne
  BY <1>1, <1>2, Basics DEF OneByOne, Init
<1>6. ~Settled
  BY <1>n, <1>1 DEF Settled
<1>7. Handles /\ Truth /\ SignedOut
  BY <1>n, <1>1, <1>6 DEF Handles, Truth, SignedOut, Init
<1> QED BY <1>3, <1>4, <1>5, <1>7 DEF Ind

\* Every step keeps the invariant, calm behaviours staying calm.
LEMMA IndStep == Ind /\ [Next]_vars => Ind'
<1> SUFFICES ASSUME Ind, [Next]_vars PROVE Ind'
  OBVIOUS
<1>1. TypeOK' /\ Booked'
  BY BookStep DEF Ind
<1>2. CASE UNCHANGED vars
  BY <1>1, <1>2 DEF Ind, vars, engineVars, idpVars, OneByOne, Handles, Truth, SignedOut, Settled, Honest
<1>3. ASSUME Next, calm' PROVE (OneByOne /\ Handles /\ Truth /\ SignedOut)'
  <2>1. calm
    BY <1>3 DEF Next, UseSession, NothingStored, Ask, Exchange, Store, Refuse, Fail, ExchangeStray,
               Expire, Revoke, Stop, Clear, GiveUp, Build, Install, Keep, SaveConfig, SignIn,
               SignOut, SignOutStop, SignOutDrop
  <2>2. TypeOK /\ Booked /\ OneByOne /\ Handles /\ Truth /\ SignedOut
    BY <2>1 DEF Ind
  <2> QED BY <1>3, <2>1, <2>2, CalmCalls, CalmOutside, CalmWork, CalmUser DEF Next
<1> QED BY <1>1, <1>2, <1>3 DEF Ind

\* The invariant holds throughout.
LEMMA IndInvariant == Spec => []Ind
BY IndInit, IndStep, PTL DEF Spec

\* Whatever the order of commands, refreshes and revocations: in a calm behaviour the loop
\* that runs is that of the engine in the slot, which the kept handle would stop, and only a
\* session that has really ended is shown as signed out.
THEOREM SignedInSound == Spec => []Sound
<1>1. Ind => Sound
  <2> SUFFICES ASSUME Ind PROVE Sound
    OBVIOUS
  <2>1. OneLoop
    BY DEF Ind, OneLoop, Handles
  <2>2. StatusTruth
    BY DEF Ind, StatusTruth, Truth, Honest
  <2> QED BY <2>1, <2>2 DEF Ind, Sound
<1> QED BY <1>1, IndInvariant, PTL

\* After a sign-out in a calm behaviour no token, engine or loop comes back by itself.
THEOREM SignOutIsFinal == Spec => []SignOutSticks
<1>1. Ind => SignOutSticks
  BY DEF Ind, SignOutSticks, SignedOut, Handles
<1> QED BY <1>1, IndInvariant, PTL
=============================================================================
