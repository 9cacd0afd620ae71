----------------------------- MODULE Membership -----------------------------
(***************************************************************************)
(* Who belongs to a team, and as what: role rows, invite tokens and the    *)
(* requests that change them (server/src/rbac.rs, admin.rs, routes.rs).    *)
(* Every request is a sequence of storage calls, each atomic by itself;    *)
(* what a request has read may be stale when it writes.  One team; the     *)
(* members of Claimed have it in their identity provider's claim.          *)
(***************************************************************************)
EXTENDS Integers, FiniteSets

CONSTANTS
  Subs,         \* identities
  Claimed,      \* those that carry the team in their claim
  Settled,      \* bound: the roles that overlapping requests find from the start
  Ops,          \* the requests that are made
  Granted,      \* bound: the roles that set_role and create_invite are asked for
  DefaultRole,  \* DEFAULT_ROLE, from the environment
  Defaults,     \* bound: the roles that put_org() makes the default
  Bootstrap,    \* whether the org's team_creation is "bootstrap"
  MaxRequests,  \* bound: requests made one after the other
  MaxTogether,  \* bound: requests made when they may overlap
  Invites       \* bound: the invites that can be created, as numbers from 1

AllOps == {"touch", "set", "remove", "revoke", "invite", "redeem", "leave"}

\* A role is a number, 0 is none: the order is the code's.
Reader == 1
Writer == 2
Manager == 3
Admin == 4
Owner == 5
Roles == Reader..Owner

ASSUME MembershipConstants ==
  /\ Claimed \subseteq Subs /\ "nobody" \notin Subs /\ Settled \subseteq Roles
  /\ Ops \subseteq AllOps /\ Granted \subseteq Roles
  /\ DefaultRole \in Roles /\ Defaults \subseteq Roles
  /\ Bootstrap \in BOOLEAN
  /\ MaxRequests \in Nat /\ MaxTogether \in 0..MaxRequests /\ Invites \subseteq Nat \ {0}

VARIABLES
  serial,   \* whether one request ends before the next one starts; never changes
  default,  \* default_role of the org's settings, 0 when it is not set
  row,      \* row[s]: the role row of s, 0 when there is none
  invite,   \* invite[i]: the stored token of invite i
  open,     \* the requests that are being handled
  made,     \* requests made so far; they are numbered
  joined,   \* (history) <<request, invite>>: the requests that joined the team with an invite
            \* they are not authenticated with, but for those that were cut short
  outside   \* (history) who was revoked, with no request since that could let them in

vars == <<serial, default, row, invite, open, made, joined, outside>>

NoInvite == [sub |-> "nobody", role |-> 0, live |-> FALSE]

RequestIds == 1..MaxRequests

TypeOK ==
  /\ serial \in BOOLEAN /\ default \in {0} \cup Roles
  /\ row \in [Subs -> {0} \cup Roles]
  /\ invite \in [Invites -> [sub : Subs \cup {"nobody"}, role : {0} \cup Roles, live : BOOLEAN]]
  /\ \A q \in open :
       /\ q.id \in RequestIds /\ q.op \in Ops /\ q.by \in Subs /\ q.target \in Subs
       /\ q.claim \in BOOLEAN /\ q.otherwise \in {0} \cup Roles
       /\ q.role \in {0} \cup Roles /\ q.invite \in {0} \cup Invites
       /\ q.token \in {0} \cup Invites /\ q.caller \in {0} \cup Roles
       /\ q.at \in {"resolve", "bootstrap", "crown", "org", "look", "count", "write", "tokens",
                   "consume"}
  /\ \A p, q \in open : p.id = q.id => p = q
  /\ made \in 0..MaxRequests
  /\ outside \subseteq Subs
  /\ joined \subseteq RequestIds \X Invites

\* One request after the other: from a team nobody has touched yet, or one with an owner.
\* Overlapping requests: from any roles its members may have been given before.
Init ==
  /\ serial \in BOOLEAN /\ default \in {0} \cup Defaults
  /\ IF serial THEN \E owners \in {{}} \cup {{s} : s \in Subs} :
                      row = [s \in Subs |-> IF s \in owners THEN Owner ELSE 0]
               ELSE row \in [Subs -> {0} \cup Settled]
  /\ invite = [i \in Invites |-> NoInvite]
  /\ open = {} /\ made = 0
  /\ joined = {} /\ outside = {}

-----------------------------------------------------------------------------
(***************************************************************************)
(* Pure decisions                                                          *)
(***************************************************************************)
EffectiveDefault == IF default = 0 THEN DefaultRole ELSE default

TokenOf(i) == [token |-> i, claim |-> TRUE, pinned |-> invite[i].role]

\* The identity a request comes with: that of the provider, or of a live invite token.
Identities(s) ==
  {[token |-> 0, claim |-> s \in Claimed, pinned |-> 0]} \cup
  {TokenOf(i) : i \in {j \in Invites : invite[j].live /\ invite[j].sub = s}}

\* resolve_role_with_org(): the role of an identity without a row, 0 is no access
Otherwise(id) ==
  IF ~id.claim THEN 0 ELSE IF id.pinned # 0 THEN id.pinned ELSE EffectiveDefault

Resolve(q) == IF row[q.by] # 0 THEN row[q.by] ELSE q.otherwise

HasOwner == \E s \in Subs : row[s] = Owner

\* (mutant) without the ceiling of an admin
MayAdministerAnyAdmin(caller, current, new) ==
  \/ caller >= Admin
  \/ caller = Manager /\ current <= Writer /\ new <= Writer

MayAdminister(caller, current, new) ==
  \/ caller = Owner
  \/ caller = Admin /\ current <= Manager /\ new <= Manager
  \/ caller = Manager /\ current <= Writer /\ new <= Writer

InviteCeiling(caller) ==
  CASE caller = Owner -> Admin [] caller = Admin -> Manager [] OTHER -> Writer

MinRole(op) == IF op = "touch" THEN Reader ELSE Manager

\* may_administer() takes a target without a row for a reader.
Current(s) == IF row[s] = 0 THEN Reader ELSE row[s]

-----------------------------------------------------------------------------
(***************************************************************************)
(* Requests                                                                *)
(***************************************************************************)
Close(q) == open' = open \ {q}
Goto(q, p) == open' = (open \ {q}) \cup {[q EXCEPT !.at = p]}
Knows(q, c, p) == open' = (open \ {q}) \cup {[q EXCEPT !.caller = c, !.at = p]}

\* Requests that let somebody in after their start.
LetsIn(op, s) == op \in {"set", "invite"} /\ s \in outside

Asked ==
  /\ IF serial THEN made < MaxRequests /\ open = {} ELSE made < MaxTogether
  /\ made' = made + 1

\* The identity and the org's settings are read; redeem_invite() reads the invite first.
Start(op, by) ==
  /\ Asked
  /\ \E id \in Identities(by), target \in Subs, role \in {0} \cup Granted, i \in {0} \cup Invites :
       /\ op \notin {"set", "remove", "revoke", "invite"} => target = by
       /\ op = "set" => role # 0
       /\ op \notin {"set", "invite"} => role = 0
       /\ op = "redeem" => i # 0 /\ invite[i].live     \* token_by_sha(): a code that is valid
       /\ op # "redeem" => i = 0
       /\ open' = open \cup {[id |-> made', op |-> op, by |-> by, claim |-> id.claim,
                              otherwise |-> Otherwise(id), token |-> id.token,
                              target |-> target, invite |-> i, caller |-> 0,
                              role |-> IF op = "redeem" THEN invite[i].role ELSE role,
                              at |-> IF op = "redeem" THEN "org" ELSE "resolve"]}
       /\ outside' = outside \ {s \in {target} : LetsIn(op, s) \/ op = "redeem"}
  /\ UNCHANGED <<row, invite, joined, serial, default>>

\* put_org() by somebody who owns this team or another one
PutOrg ==
  /\ Asked
  /\ default' \in {0} \cup Defaults
  /\ UNCHANGED <<row, invite, open, joined, outside, serial>>

At(q, p) == q.at = p /\ UNCHANGED <<made, serial, default>>
Keep == UNCHANGED <<row, invite, joined, outside>>

Gate(q) == IF q.op = "invite" THEN "write" ELSE "look"

\* The gate of ensure_access(): a role below the minimum is refused, a touch is done.
Pass(q, role) ==
  IF role < MinRole(q.op) \/ q.op = "touch" THEN Close(q) ELSE Knows(q, role, Gate(q))

\* The caller's role is resolved.  leave_team() counts the owners when an owner leaves;
\* everybody else goes through ensure_access().
ResolveRole(q) ==
  /\ At(q, "resolve")
  /\ LET role == Resolve(q) IN
       IF role = 0 THEN Close(q)
       ELSE IF q.op = "leave" THEN Goto(q, IF role = Owner THEN "count" ELSE "write")
       ELSE IF Bootstrap /\ q.claim THEN Knows(q, role, "bootstrap")
       ELSE Pass(q, role)
  /\ Keep

NeedsOwner == ~HasOwner

LookForOwner(q) ==
  /\ At(q, "bootstrap")
  /\ IF NeedsOwner THEN Goto(q, "crown") ELSE Pass(q, q.caller)
  /\ Keep

Crown(q) ==
  /\ At(q, "crown")
  /\ row' = [row EXCEPT ![q.by] = Owner]
  /\ Pass(q, Owner)
  /\ UNCHANGED <<invite, joined, outside>>

\* (mutant) leave_team() refuses when there is no owner row at all
LastOwnerNever == ~HasOwner

LastOwner == Cardinality({s \in Subs : row[s] = Owner}) <= 1

CountOwners(q) ==
  /\ At(q, "count")
  /\ IF LastOwner THEN Close(q) ELSE Goto(q, "write")
  /\ Keep

\* An invite without a role gives the default.
ReadOrg(q) ==
  /\ At(q, "org")
  /\ LET role == IF q.role = 0 THEN EffectiveDefault ELSE q.role IN
       open' = (open \ {q}) \cup {[q EXCEPT !.role = role, !.at = "look"]}
  /\ Keep

IsEnough(q) == row[q.by] >= q.role   \* "never demote"

Joins(q) == joined \cup {<<q.id, q.invite>> : t \in {q.token} \ {q.invite}}

\* The target's row is read: may the caller administer it?  redeem_invite() reads the row
\* of the caller; one that is high enough is not written.
Look(q) ==
  /\ At(q, "look")
  /\ IF q.op = "redeem"
       THEN IF IsEnough(q) THEN Goto(q, "consume") ELSE Goto(q, "write")
       ELSE IF MayAdminister(q.caller, Current(q.target), IF q.op = "set" THEN q.role ELSE Reader)
              THEN Goto(q, IF q.op = "revoke" THEN "tokens" ELSE "write")
              ELSE Close(q)
  /\ joined' = IF q.op = "redeem" /\ IsEnough(q) THEN Joins(q) ELSE joined
  /\ UNCHANGED <<row, invite, outside>>

SetRow(s, r) == row' = [row EXCEPT ![s] = r]

\* create_invite(): no role, or one up to the caller's ceiling
StoreInvite(q) ==
  /\ q.role <= InviteCeiling(q.caller)
  /\ \E i \in Invites :
       /\ invite[i] = NoInvite
       /\ \A j \in Invites : j < i => invite[j] # NoInvite
       /\ invite' = [invite EXCEPT ![i] = [sub |-> q.target, role |-> q.role, live |-> TRUE]]

Refused(q) == q.role > InviteCeiling(q.caller) \/ \A i \in Invites : invite[i] # NoInvite

\* The row is written: set_role, remove_role, the end of revoke_access, the middle of
\* leave_team and of redeem_invite; or the invite is stored.
Write(q) ==
  /\ At(q, "write")
  /\ CASE q.op = "set"    -> SetRow(q.target, q.role) /\ Close(q)
       [] q.op = "remove" -> SetRow(q.target, 0) /\ Close(q)
       [] q.op = "revoke" -> SetRow(q.target, 0) /\ Close(q)
       [] q.op = "leave"  -> SetRow(q.by, 0) /\ Goto(q, "tokens")
       [] q.op = "redeem" -> SetRow(q.by, q.role) /\ Goto(q, "consume")
       [] OTHER           -> UNCHANGED row /\ Close(q)
  /\ IF q.op = "invite" THEN StoreInvite(q) \/ (Refused(q) /\ UNCHANGED invite)
                        ELSE UNCHANGED invite
  /\ joined' = IF q.op = "redeem" THEN Joins(q) ELSE joined
  /\ outside' = IF q.op = "revoke" THEN outside \cup {q.target} ELSE outside

\* (mutant) the tokens are left alone
RevokeNoTokens(s) == s = s /\ UNCHANGED invite

\* Every token of the target is for this one team (create_invite), so it is revoked outright.
RevokeTokens(s) ==
  invite' = [i \in Invites |-> IF invite[i].sub = s THEN [invite[i] EXCEPT !.live = FALSE]
                                                    ELSE invite[i]]

Tokens(q) ==
  /\ At(q, "tokens")
  /\ RevokeTokens(q.target)
  /\ IF q.op = "leave" THEN Close(q) ELSE Goto(q, "write")
  /\ UNCHANGED <<row, joined, outside>>

\* (mutant) the invite stays live
ConsumeNothing(i) == i = i /\ UNCHANGED invite

ConsumeInvite(i) == invite' = [invite EXCEPT ![i].live = FALSE]

\* The invite is used up, unless the request is authenticated with it.
Consume(q) ==
  /\ At(q, "consume")
  /\ IF q.token = q.invite THEN UNCHANGED invite ELSE ConsumeInvite(q.invite)
  /\ Close(q)
  /\ UNCHANGED <<row, joined, outside>>

\* A request ends wherever it stands: a storage call failed or the caller hung up.  Tokens
\* are revoked one by one; an invite that let its bearer join is left live.
Abandon(q) ==
  /\ Close(q)
  /\ \E gone \in SUBSET {i \in Invites : q.at = "tokens" /\ invite[i].sub = q.target} :
       invite' = [i \in Invites |-> IF i \in gone THEN [invite[i] EXCEPT !.live = FALSE]
                                                  ELSE invite[i]]
  /\ joined' = {j \in joined : j[1] # q.id}
  /\ UNCHANGED <<row, outside, made, serial, default>>

-----------------------------------------------------------------------------
Next ==
  \/ \E op \in Ops, by \in Subs : Start(op, by)
  \/ PutOrg
  \/ \E q \in open : ResolveRole(q)
  \/ \E q \in open : LookForOwner(q)
  \/ \E q \in open : Crown(q)
  \/ \E q \in open : CountOwners(q)
  \/ \E q \in open : ReadOrg(q)
  \/ \E q \in open : Look(q)
  \/ \E q \in open : Write(q)
  \/ \E q \in open : Tokens(q)
  \/ \E q \in open : Consume(q)
  \/ \E q \in open : Abandon(q)

Spec == Init /\ [][Next]_vars

-----------------------------------------------------------------------------
(***************************************************************************)
(* Properties                                                              *)
(***************************************************************************)

\* All but OwnershipTraced are about requests that come one after the other; where requests
\* overlap each of them fails.

\* The request that makes a step leaves "open", or goes on with another "at".
Acting == CHOOSE q \in open : q \notin open'

\* A team that has an owner is not left without one by an owner who leaves (leave_team();
\* SYNC-PROTOCOL.md: "so a team can never be stranded").
LeaveStrandsNobody ==
  [][ (serial /\ HasOwner /\ ~HasOwner') => Acting.op # "leave" ]_vars

\* One invite lets one request join (redeem_invite(): "it was minted for one person to join
\* once"), not counting those authenticated with that very invite and those that are cut
\* short between the row and the invite: nothing in the code makes these two one step.
InviteOnce ==
  serial => \A j, k \in joined : j # k => j[2] # k[2]

\* The type invariant, with what an invite of create_invite() is good for.
Sound == TypeOK /\ InviteOnce

\* An owner's row is changed by an owner only - or by the owner who leaves - whatever the
\* caller and the target were when the request looked at them (may_administer()).
ChangedByOwners ==
  \A s \in Subs : (serial /\ row[s] = Owner /\ row'[s] # Owner) =>
        (Acting.caller = Owner \/ Acting.by = s)

\* Ownership is never made up: an owner row is written by bootstrap for somebody with the
\* claim, at the word of a request that found its caller an owner (may_administer(),
\* invite_ceiling(), ensure_access()), or for an invite without a role while the default is
\* to own; no admin gives it, and no invite that names a role.
MadeByOwners ==
  \A s \in Subs : (row'[s] = Owner /\ row[s] # Owner) =>
        \/ Acting.caller = Owner /\ Acting.op = "set"
        \/ Acting.claim /\ Acting.by = s /\ Acting.at = "crown"
        \/ /\ Acting.op = "redeem" /\ Acting.by = s /\ invite[Acting.invite].role = 0
           /\ serial => EffectiveDefault = Owner

\* Nobody loses or comes by ownership in any other way: the two together, of every step.
OwnershipTraced == [][ChangedByOwners /\ MadeByOwners]_vars

\* Whoever was revoked has neither a row nor a live token until a request made after the
\* revocation lets them in (revoke_access()).
RevokedStaysOut ==
  serial => \A s \in outside \ Claimed :
    row[s] = 0 /\ \A i \in Invites : invite[i].sub = s => ~invite[i].live
=============================================================================
