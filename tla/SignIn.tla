------------------------------- MODULE SignIn -------------------------------
(***************************************************************************)
(* Getting into an organisation and staying in: invitations, local login,  *)
(* login through the identity provider with automatic provisioning, change *)
(* of the own password, and the organisation's SSO settings. Each handler  *)
(* runs several statements that commit on their own; a request is at one   *)
(* of them in stmt, and requests interleave between them.                  *)
(*                                                                         *)
(* One organisation. The identity provider and password hashing are        *)
(* external: a password is a value, a claim is the user it belongs to.     *)
(***************************************************************************)
EXTENDS Naturals, FiniteSets

CONSTANTS
    Requests,      \* concurrent requests
    Users, Emails,
    Member,        \* the user that is there at first
    Invites, Passwords, Groups,
    AllowedDomain, \* whether the subject's mail domain is allowed
    AutoProvision, GroupSync,
    MaxRequests, MaxSessions \* bounds

VARIABLES
    invites,  \* invite_tokens
    users, members, teams, teamMembers,
    sessions, \* session keys in api_keys: [id, user, pw]; pw, a history, is how the login passed
    cached,   \* those in the key cache
    sso,      \* org_sso_config: [there, secret]
    stmt, arg,  \* per request: the statement it runs next, and what it knows
    started, issued, \* counters
    origin    \* history: the invitation each user came from

tables == <<invites, users, members, teams, teamMembers, sessions, sso>>
signInVars == <<tables, cached, stmt, arg, started, issued, origin>>

Missing == "none"
Idle == [user |-> Missing, invite |-> Missing, email |-> Missing, role |-> Missing, pw |-> Missing,
         session |-> 0, secret |-> Missing]

\* The organisation has a first user, and a missing value is no invitation.
SignInParameters ==
    Member \in Users /\ Emails # {} /\ Passwords # {} /\ Missing \notin Invites

Live(u) == users[u].status = "live"

(* Cacheable, for a session key. *)
MayHold(u) == u \in Users /\ Live(u) /\ members[u] # Missing

SignInInit ==
    /\ invites = [i \in Invites |-> [email |-> Missing, role |-> Missing, state |-> Missing, expired |-> FALSE]]
    /\ users = [u \in Users |->
          IF u = Member THEN [email |-> CHOOSE e \in Emails : TRUE, pw |-> CHOOSE x \in Passwords : TRUE,
                              ext |-> FALSE, status |-> "live"]
                        ELSE [email |-> Missing, pw |-> Missing, ext |-> FALSE, status |-> Missing]]
    /\ members = [u \in Users |-> IF u = Member THEN "member" ELSE Missing]
    /\ teams = {} /\ teamMembers = {}
    /\ sessions = {} /\ cached = {}
    /\ sso = [there |-> FALSE, secret |-> Missing]
    /\ stmt = [r \in Requests |-> "idle"] /\ arg = [r \in Requests |-> Idle]
    /\ started = 0 /\ issued = 0
    /\ origin = [u \in Users |-> Missing]

StartRequest(r, next, x) ==
    /\ stmt[r] = "idle" /\ started < MaxRequests /\ started' = started + 1
    /\ stmt' = [stmt EXCEPT ![r] = next]
    /\ arg' = [arg EXCEPT ![r] = x]

Goto(r, here, next, x) ==
    /\ stmt[r] = here
    /\ stmt' = [stmt EXCEPT ![r] = next]
    /\ arg' = [arg EXCEPT ![r] = IF next = "idle" THEN Idle ELSE x]
    /\ UNCHANGED started

(***************************************************************************)
(* Invitations. Only system administrators may invite an org_admin; that   *)
(* check is part of Tenants, the role of an invitation is any here.        *)
(***************************************************************************)
RevokeInviteTokensByEmail(r, e, role) ==
    /\ StartRequest(r, "insert invite", [Idle EXCEPT !.email = e, !.role = role])
    /\ invites' = [i \in Invites |-> IF invites[i].email = e /\ invites[i].state = "open"
                                     THEN [invites[i] EXCEPT !.state = "gone"] ELSE invites[i]]
    /\ UNCHANGED <<users, members, teams, teamMembers, sessions, sso, cached, issued, origin>>

(* The index on open invitations makes a concurrent second one fail. *)
CreateInvite(r) ==
    /\ Goto(r, "insert invite", "idle", Idle)
    /\ IF \E i \in Invites : invites[i].email = arg[r].email /\ invites[i].state = "open"
       THEN UNCHANGED invites
       ELSE \E i \in Invites :
              /\ invites[i].state = Missing
              /\ invites' = [invites EXCEPT ![i] =
                    [email |-> arg[r].email, role |-> arg[r].role, state |-> "open", expired |-> FALSE]]
    /\ UNCHANGED <<users, members, teams, teamMembers, sessions, sso, cached, issued, origin>>

(* A DELETE by id: it takes a redeemed invitation's row too. *)
RevokeInvite(i) ==
    /\ invites[i].state \in {"open", "redeemed"}
    /\ invites' = [invites EXCEPT ![i].state = "gone"]
    /\ UNCHANGED <<users, members, teams, teamMembers, sessions, sso, cached, stmt, arg, started,
                   issued, origin>>

ExpireInvite(i) ==
    /\ invites[i].state = "open" /\ ~invites[i].expired
    /\ invites' = [invites EXCEPT ![i].expired = TRUE]
    /\ UNCHANGED <<users, members, teams, teamMembers, sessions, sso, cached, stmt, arg, started,
                   issued, origin>>

(* What PeekInvite answers and RedeemInvite starts from. *)
PeekInvite(i) == invites[i].state = "open" /\ ~invites[i].expired

RedeemInvite(r, i, pw) ==
    /\ PeekInvite(i)
    /\ StartRequest(r, "redeem", [Idle EXCEPT !.invite = i, !.email = invites[i].email,
                                       !.role = invites[i].role, !.pw = pw])
    /\ UNCHANGED <<tables, cached, issued, origin>>

\* Mutant: the row is marked whatever redeemed_at is.
RedeemInviteTokenAgain(r) ==
    /\ Goto(r, "redeem", "invited user", arg[r])
    /\ invites' = [invites EXCEPT ![arg[r].invite].state = "redeemed"]
    /\ UNCHANGED <<users, members, teams, teamMembers, sessions, sso, cached, issued, origin>>

(* UPDATE ... WHERE redeemed_at IS NULL; no row means the request is refused. *)
RedeemInviteToken(r) ==
    LET i == arg[r].invite IN
    /\ stmt[r] = "redeem"
    /\ IF invites[i].state = "open"
       THEN /\ Goto(r, "redeem", "invited user", arg[r])
            /\ invites' = [invites EXCEPT ![i].state = "redeemed"]
       ELSE Goto(r, "redeem", "idle", Idle) /\ UNCHANGED invites
    /\ UNCHANGED <<users, members, teams, teamMembers, sessions, sso, cached, issued, origin>>

EmailFree(e) == \A u \in Users : ~(Live(u) /\ users[u].email = e)

(* ErrConflict when the address has an account: the invitation is burned. *)
CreateInvitedUser(r) ==
    /\ stmt[r] = "invited user"
    /\ IF EmailFree(arg[r].email)
       THEN \E u \in Users :
              /\ users[u].status = Missing
              /\ users' = [users EXCEPT ![u] = [email |-> arg[r].email, pw |-> arg[r].pw,
                                                ext |-> FALSE, status |-> "live"]]
              /\ origin' = [origin EXCEPT ![u] = arg[r].invite]
              /\ Goto(r, "invited user", "invited member", [arg[r] EXCEPT !.user = u])
              /\ UNCHANGED <<invites, members, teams, teamMembers, sessions, sso, cached, issued>>
       ELSE /\ Goto(r, "invited user", "idle", Idle)
            /\ UNCHANGED <<tables, cached, issued, origin>>

CreateInvitedMember(r) ==
    /\ Goto(r, "invited member", "idle", Idle)
    /\ members' \in {members, [members EXCEPT ![arg[r].user] = arg[r].role]}
    /\ UNCHANGED <<invites, users, teams, teamMembers, sessions, sso, cached, issued, origin>>

(***************************************************************************)
(* Local login. The throttle is LoginThrottle.                             *)
(***************************************************************************)
Login(r, u, pw) ==
    /\ Live(u) /\ users[u].pw # Missing /\ users[u].pw = pw
    /\ StartRequest(r, "resolve", [Idle EXCEPT !.user = u, !.pw = pw])
    /\ UNCHANGED <<tables, cached, issued, origin>>

(* A user without an organisation is refused; others go on to the session. *)
ResolveUserRole(r) ==
    /\ Goto(r, "resolve", IF MayHold(arg[r].user) THEN "revoke" ELSE "idle", arg[r])
    /\ UNCHANGED <<tables, cached, issued, origin>>

(* A failure to delete the old sessions does not stop the login. *)
RevokeUserSessions(r) ==
    /\ Goto(r, "revoke", "insert session", arg[r])
    /\ sessions' \in {{s \in sessions : s.user # arg[r].user}, sessions}
    /\ UNCHANGED <<invites, users, members, teams, teamMembers, sso, cached, issued, origin>>

InsertSession(r) ==
    /\ issued < MaxSessions /\ issued' = issued + 1
    /\ Goto(r, "insert session", "load session", [arg[r] EXCEPT !.session = issued'])
    /\ sessions' = sessions \cup {[id |-> issued', user |-> arg[r].user, pw |-> arg[r].pw]}
    /\ UNCHANGED <<invites, users, members, teams, teamMembers, sso, cached, origin>>

(* LoadActiveKey and Cacheable; the session is answered either way. *)
LoadSession(r) ==
    LET there == \E s \in sessions : s.id = arg[r].session IN
    /\ Goto(r, "load session",
            IF there /\ MayHold(arg[r].user) THEN "cache session" ELSE "idle",
            arg[r])
    /\ UNCHANGED <<tables, cached, issued, origin>>

CacheSession(r) ==
    /\ Goto(r, "cache session", "idle", Idle)
    /\ cached' = cached \cup {[id |-> arg[r].session, user |-> arg[r].user, pw |-> arg[r].pw]}
    /\ UNCHANGED <<tables, issued, origin>>

(***************************************************************************)
(* The callback of the identity provider. Its session is opened with pw    *)
(* "sso": no password was compared.                                        *)
(***************************************************************************)
KnownSubject == {u \in Users : Live(u) /\ users[u].ext}

OIDCCallback(r) ==
    /\ AllowedDomain
    /\ IF KnownSubject # {}
       THEN \E u \in KnownSubject : StartRequest(r, "sync", [Idle EXCEPT !.user = u, !.pw = "sso"])
       ELSE AutoProvision /\ StartRequest(r, "provision", [Idle EXCEPT !.pw = "sso"])
    /\ UNCHANGED <<tables, cached, issued, origin>>

(* The external id is unique among live users: a second provisioning that  *)
(* runs at the same time fails.                                            *)
Provision(r) ==
    /\ stmt[r] = "provision"
    /\ IF KnownSubject = {}
       THEN \E u \in Users :
            /\ users[u].status = Missing
            /\ users' = [users EXCEPT ![u] = [email |-> Missing, pw |-> Missing, ext |-> TRUE, status |-> "live"]]
            /\ Goto(r, "provision", "provisioned member", [arg[r] EXCEPT !.user = u])
            /\ UNCHANGED <<invites, members, teams, teamMembers, sessions, sso, cached, issued, origin>>
       ELSE /\ Goto(r, "provision", "idle", Idle)
            /\ UNCHANGED <<tables, cached, issued, origin>>

ProvisionMember(r) ==
    \/ /\ Goto(r, "provisioned member", "sync", arg[r])
       /\ members' = [members EXCEPT ![arg[r].user] = "member"]
       /\ UNCHANGED <<invites, users, teams, teamMembers, sessions, sso, cached, issued, origin>>
    \/ /\ Goto(r, "provisioned member", "rollback", arg[r])
       /\ UNCHANGED <<tables, cached, issued, origin>>

(* Compensation: the user without a membership is deleted again. That this *)
(* statement fails too is left out.                                        *)
RollbackUser(r) ==
    /\ Goto(r, "rollback", "idle", Idle)
    /\ users' = [users EXCEPT ![arg[r].user].status = "deleted"]
    /\ UNCHANGED <<invites, members, teams, teamMembers, sessions, sso, cached, issued, origin>>

(* Groups become teams and memberships; a failure skips the group. *)
SyncGroups(r) ==
    /\ Goto(r, "sync", "resolve", arg[r])
    /\ IF GroupSync /\ members[arg[r].user] # Missing
       THEN \E done \in SUBSET Groups :
              /\ teams' = teams \cup done
              /\ teamMembers' = teamMembers \cup (done \X {arg[r].user})
       ELSE UNCHANGED <<teams, teamMembers>>
    /\ UNCHANGED <<invites, users, members, sessions, sso, cached, issued, origin>>

(***************************************************************************)
(* Change of the own password, from a cached session.                      *)
(***************************************************************************)
ChangeOwnPassword(r, s, pw) ==
    /\ s \in cached
    /\ Live(s.user) /\ users[s.user].pw # Missing /\ ~users[s.user].ext
    /\ StartRequest(r, "change", [Idle EXCEPT !.user = s.user, !.session = s.id, !.pw = pw])
    /\ UNCHANGED <<tables, cached, issued, origin>>

LoggingIn(x, u) ==
    stmt[x] \in {"resolve", "revoke", "insert session", "load session", "cache session"} /\ arg[x].user = u

(* One transaction. The session that asked counts as opened with the new   *)
(* password, logins under way are marked late.                             *)
ChangePasswordAndRevokeOtherSessions(r) ==
    LET u == arg[r].user
        own(s) == IF s.id = arg[r].session THEN [s EXCEPT !.pw = arg[r].pw] ELSE s
    IN
    /\ stmt[r] = "change"
    /\ IF Live(u)
       THEN /\ users' = [users EXCEPT ![u].pw = arg[r].pw]
            /\ sessions' = {own(s) : s \in {x \in sessions : x.user # u \/ x.id = arg[r].session}}
            /\ cached' = {own(s) : s \in cached}
            /\ stmt' = [stmt EXCEPT ![r] = "evict"]
            /\ arg' = [x \in Requests |-> IF LoggingIn(x, u) THEN [arg[x] EXCEPT !.pw = "late"] ELSE arg[x]]
            /\ UNCHANGED started
       ELSE Goto(r, "change", "idle", Idle) /\ UNCHANGED <<users, sessions, cached>>
    /\ UNCHANGED <<invites, members, teams, teamMembers, sso, issued, origin>>

\* Mutant: the keys of the sessions are left in the cache.
EvictNothing(r) == Goto(r, "evict", "idle", Idle) /\ UNCHANGED <<tables, cached, issued, origin>>

EvictOtherSessions(r) ==
    /\ Goto(r, "evict", "idle", Idle)
    /\ cached' = {s \in cached : s.user # arg[r].user \/ s.id = arg[r].session}
    /\ UNCHANGED <<tables, issued, origin>>

(* The periodic reload of the key cache. *)
Refresh ==
    /\ cached' = {s \in sessions : MayHold(s.user)}
    /\ UNCHANGED <<tables, stmt, arg, started, issued, origin>>

(***************************************************************************)
(* The organisation's SSO settings.                                        *)
(***************************************************************************)
(* An empty secret in the request keeps the stored one: a read of its own. *)
resolveSecretEnc(r, secret) ==
    /\ StartRequest(r, "upsert sso", [Idle EXCEPT !.secret = IF secret # Missing THEN secret ELSE sso.secret])
    /\ UNCHANGED <<tables, cached, issued, origin>>

UpsertOrgSSOConfig(r) ==
    /\ Goto(r, "upsert sso", "idle", Idle)
    /\ sso' = [there |-> TRUE, secret |-> arg[r].secret]
    /\ UNCHANGED <<invites, users, members, teams, teamMembers, sessions, cached, issued, origin>>

DeleteOrgSSOConfig ==
    /\ sso.there /\ sso' = [there |-> FALSE, secret |-> Missing]
    /\ UNCHANGED <<invites, users, members, teams, teamMembers, sessions, cached, stmt, arg, started,
                   issued, origin>>

SignInNext ==
    \/ \E r \in Requests, e \in Emails, role \in {"member", "org_admin"} :
          RevokeInviteTokensByEmail(r, e, role)
    \/ \E i \in Invites : RevokeInvite(i) \/ ExpireInvite(i)
    \/ \E r \in Requests, i \in Invites, pw \in Passwords : RedeemInvite(r, i, pw)
    \/ \E r \in Requests, u \in Users, pw \in Passwords : Login(r, u, pw)
    \/ \E r \in Requests, s \in cached, pw \in Passwords : ChangeOwnPassword(r, s, pw)
    \/ \E r \in Requests, secret \in {Missing, "s1"} : resolveSecretEnc(r, secret)
    \/ \E r \in Requests :
          \/ CreateInvite(r) \/ RedeemInviteToken(r) \/ CreateInvitedUser(r) \/ CreateInvitedMember(r)
          \/ ResolveUserRole(r) \/ RevokeUserSessions(r) \/ InsertSession(r) \/ LoadSession(r)
          \/ CacheSession(r) \/ OIDCCallback(r) \/ Provision(r) \/ ProvisionMember(r)
          \/ RollbackUser(r) \/ SyncGroups(r) \/ ChangePasswordAndRevokeOtherSessions(r)
          \/ EvictOtherSessions(r) \/ UpsertOrgSSOConfig(r)
    \/ Refresh \/ DeleteOrgSSOConfig

SignInSpec == SignInInit /\ [][SignInNext]_signInVars

(***************************************************************************)
(* Properties.                                                             *)
(***************************************************************************)
(* An invitation makes at most one account, whatever requests redeem it at *)
(* the same time, and none once RevokeInvite or a newer invitation took it *)
(* away before it was marked redeemed.                                     *)
InviteOnce ==
    /\ \A u, v \in Users : origin[u] # Missing /\ origin[u] = origin[v] => u = v
    /\ \A r \in Requests : stmt[r] = "invited user" =>
          \A u \in Users : origin[u] # arg[r].invite
    /\ \A u \in Users : origin[u] # Missing => invites[origin[u]].state # "open"

(* A user the identity provider's login made has a membership as soon as   *)
(* no callback is still providing it: the compensation leaves no user      *)
(* behind that can neither sign in nor be provisioned again.               *)
Provisioned ==
    \A u \in Users : Live(u) /\ users[u].ext /\ members[u] = Missing =>
        \E r \in Requests : stmt[r] \in {"provisioned member", "rollback"} /\ arg[r].user = u

(* However redemptions and callbacks interleave, RedeemInvite and          *)
(* the SSO callback make no second user of an invitation and leave none    *)
(* without a membership.                                                   *)
OneUserPerInvitation == InviteOnce /\ Provisioned

(* Once a change of password is complete, every session of the user, in    *)
(* the table and in the cache, was opened with the new one, except the one *)
(* that asked for it and those of logins that were under way at the time.  *)
OldPasswordOut ==
    \A s \in sessions \cup cached :
        \/ s.pw \in {users[s.user].pw, "sso", "late"}
        \/ \E r \in Requests : stmt[r] = "evict" /\ arg[r].user = s.user

(* RevokeUserSessions runs at login "so only one session exists"           *)
(* (admin/auth.go). Two logins at the same time both delete before either  *)
(* inserts.                                                                *)
OneSession == \A s, t \in sessions : s.user = t.user => s = t
=============================================================================
