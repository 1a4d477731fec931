----------------------------- MODULE EdgeProofs -----------------------------
(***************************************************************************)
(* Proofs about sign-in, for any users, invitations and concurrent         *)
(* requests, and about the request rate limiter, for any limits and any    *)
(* concurrent calls.                                                       *)
(***************************************************************************)
EXTENDS SignIn, RateLimiter, TLAPS

-----------------------------------------------------------------------------
(* Sign-in.                                                                *)

LoginSteps == {"resolve", "revoke", "insert session", "load session", "cache session"}
ProvisionSteps == {"provision", "provisioned member", "sync"}
InviteSteps == {"insert invite", "redeem", "invited user", "invited member"}

\* The steps of a request that acts for a user, and those that know a session.
UserSteps ==
    LoginSteps \cup {"invited member", "provisioned member", "rollback", "sync", "change", "evict"}
Carrying == {"load session", "cache session", "change", "evict"}

Steps == {"idle", "upsert sso"} \cup UserSteps \cup InviteSteps \cup ProvisionSteps
Roles == {"member", "org_admin"}
Secrets == {Missing, "s1"}
Credentials == Passwords \cup {Missing, "sso", "late"}
Args == [user : Users \cup {Missing}, invite : Invites \cup {Missing}, email : Emails \cup {Missing},
         role : Roles \cup {Missing}, pw : Credentials, session : Nat, secret : Secrets]
InviteRows == [email : Emails \cup {Missing}, role : Roles \cup {Missing},
               state : {Missing, "open", "redeemed", "gone"}, expired : BOOLEAN]
Sessions == [id : Nat, user : Users, pw : Credentials]

SignInTypes ==
    /\ invites \in [Invites -> InviteRows]
    /\ users \in [Users -> [email : Emails \cup {Missing}, pw : Credentials, ext : BOOLEAN,
                            status : {Missing, "live", "deleted"}]]
    /\ members \in [Users -> Roles \cup {Missing}]
    /\ sessions \subseteq Sessions /\ cached \subseteq Sessions
    /\ sso \in [there : BOOLEAN, secret : Secrets]
    /\ stmt \in [Requests -> Steps] /\ arg \in [Requests -> Args]
    /\ issued \in Nat
    /\ origin \in [Users -> Invites \cup {Missing}]

\* An invitation that was sent has a role; once redeemed or taken away it is
\* never open again.
Spent(i) == invites[i].state \in {"redeemed", "gone"}
SentHaveRoles == \A i \in Invites : invites[i].state # Missing => invites[i].role \in Roles

\* The proof a session was opened with still stands.
Stands(u, pw) == pw \in {users[u].pw, "sso", "late"}

\* What holds of a request at step n with argument x.
RequestSound(n, x) ==
    /\ n \in UserSteps => x.user \in Users /\ users[x.user].status # Missing
    /\ n \in InviteSteps => x.role \in Roles
    /\ n \in {"redeem", "invited user"} => x.invite \in Invites
    /\ n = "invited user" => Spent(x.invite) /\ \A u \in Users : origin[u] # x.invite
    /\ n \in LoginSteps => Stands(x.user, x.pw)
    /\ n \in ProvisionSteps => x.pw = "sso"
    /\ n \in Carrying => x.session \in 1 .. issued

RequestsSound == \A r \in Requests : RequestSound(stmt[r], arg[r])

\* No two requests are making a user of the same invitation, and no two users
\* came from one.
InvitesApart ==
    /\ \A r, q \in Requests :
          stmt[r] = "invited user" /\ stmt[q] = "invited user" /\ r # q => arg[r].invite # arg[q].invite
    /\ \A u, v \in Users : origin[u] # Missing /\ origin[u] = origin[v] => u = v
    /\ \A u \in Users : origin[u] # Missing => Spent(origin[u])

\* A session's id belongs to one user, in the table, in the cache and in the
\* hands of a request.
Holds(n, u) ==
    \/ \E s \in sessions \cup cached : s.id = n /\ s.user = u
    \/ \E r \in Requests : stmt[r] \in Carrying /\ arg[r].session = n /\ arg[r].user = u
SessionsBelong ==
    /\ \A n \in 1 .. issued : \A u, v \in Users : Holds(n, u) /\ Holds(n, v) => u = v
    /\ \A s \in sessions \cup cached : s.id \in 1 .. issued /\ users[s.user].status # Missing

\* A cached session that does not stand is one a request is about to evict, and
\* not the one that request keeps.
Evicting(s) ==
    \E r \in Requests : stmt[r] = "evict" /\ arg[r].user = s.user /\ arg[r].session # s.id
PasswordsStand ==
    /\ \A s \in sessions : Stands(s.user, s.pw)
    /\ \A s \in cached : Stands(s.user, s.pw) \/ Evicting(s)

SignInInv ==
    /\ SignInParameters /\ SignInTypes
    /\ SentHaveRoles /\ RequestsSound /\ InvitesApart /\ SessionsBelong
    /\ Provisioned /\ PasswordsStand

Providing == {"provisioned member", "rollback"}
Unfinished(u) == Live(u) /\ users[u].ext /\ members[u] = Missing

\* Request r goes to step n and knows x there; no other request moves.
Advance(r, n, x) ==
    /\ n \in Steps /\ x \in Args
    /\ stmt' = [stmt EXCEPT ![r] = n]
    /\ arg' = [arg EXCEPT ![r] = x]

\* No account is lost or changes its password, no invitation opens again.
AccountsKept ==
    \A u \in Users : users[u].status # Missing =>
        users'[u].status # Missing /\ users'[u].pw = users[u].pw
SpentKept == \A i \in Invites : Spent(i) => Spent(i)'

LEMMA IdleArgs == Idle \in Args /\ Idle.user = Missing /\ Idle.invite = Missing
  BY DEF Idle, Args, Credentials, Secrets

\* Steps of one request that make no account, no session and change no password.
LEMMA Advancing ==
    ASSUME SignInInv, SignInTypes', SentHaveRoles', NEW r \in Requests, NEW n, NEW x,
           Advance(r, n, x), AccountsKept, SpentKept, issued' = issued, origin' = origin,
           RequestSound(n, x)',
           n = "invited user" =>
              \A q \in Requests \ {r} : stmt[q] = "invited user" => arg[q].invite # x.invite,
           sessions' \subseteq sessions,
           \A s \in cached' : \/ s \in cached
                              \/ Holds(s.id, s.user) /\ s.id \in 1 .. issued
                                 /\ users[s.user].status # Missing /\ Stands(s.user, s.pw),
           n \in Carrying => Holds(x.session, x.user),
           stmt[r] = "evict" =>
              \A s \in cached' : s.user # arg[r].user \/ s.id = arg[r].session,
           Provisioned'
    PROVE  SignInInv'
  <1> USE DEF SignInInv, SignInTypes
  <1>1. /\ stmt'[r] = n /\ arg'[r] = x
        /\ \A q \in Requests \ {r} : stmt'[q] = stmt[q] /\ arg'[q] = arg[q]
    BY DEF Advance
  <1>2. RequestsSound'
    <2> SUFFICES ASSUME NEW q \in Requests, q # r PROVE RequestSound(stmt[q], arg[q])'
      BY <1>1 DEF RequestsSound
    <2>1. stmt'[q] = stmt[q] /\ arg'[q] = arg[q] /\ RequestSound(stmt[q], arg[q])
      BY <1>1 DEF RequestsSound
    <2>2. stmt[q] = "invited user" => Spent(arg[q].invite)' /\ \A u \in Users : origin'[u] # arg[q].invite
      BY <2>1 DEF RequestSound, SpentKept
    <2>3. stmt[q] \in UserSteps => arg[q].user \in Users /\ users'[arg[q].user].status # Missing
      BY <2>1 DEF RequestSound, AccountsKept
    <2>4. stmt[q] \in LoginSteps => Stands(arg[q].user, arg[q].pw)'
      <3>1. stmt[q] \in LoginSteps => users'[arg[q].user].pw = users[arg[q].user].pw
        BY <2>1, <2>3 DEF RequestSound, AccountsKept, UserSteps
      <3>2. QED
        BY <2>1, <3>1 DEF RequestSound, Stands
    <2>5. stmt[q] \in Carrying => arg[q].session \in 1 .. issued'
      BY <2>1 DEF RequestSound
    <2>6. /\ stmt[q] \in InviteSteps => arg[q].role \in Roles
          /\ stmt[q] \in {"redeem", "invited user"} => arg[q].invite \in Invites
          /\ stmt[q] \in ProvisionSteps => arg[q].pw = "sso"
      BY <2>1 DEF RequestSound
    <2>7. QED
      BY <2>1, <2>2, <2>3, <2>4, <2>5, <2>6 DEF RequestSound, Spent, Stands
  <1>3. InvitesApart'
    <2>1. ASSUME NEW p \in Requests, NEW q \in Requests, p # q,
                 stmt'[p] = "invited user", stmt'[q] = "invited user"
          PROVE  arg'[p].invite # arg'[q].invite
      <3>1. CASE p # r /\ q # r
        <4>1. stmt[p] = "invited user" /\ stmt[q] = "invited user"
              /\ arg'[p] = arg[p] /\ arg'[q] = arg[q]
          BY <1>1, <2>1, <3>1
        <4>2. QED
          BY <2>1, <4>1 DEF InvitesApart
      <3>2. CASE p = r
        <4>1. n = "invited user" /\ q # r /\ stmt[q] = "invited user"
              /\ arg'[q] = arg[q] /\ arg'[p] = x
          BY <1>1, <2>1, <3>2
        <4>2. QED
          BY <4>1
      <3>3. CASE q = r
        <4>1. n = "invited user" /\ p # r /\ stmt[p] = "invited user"
              /\ arg'[p] = arg[p] /\ arg'[q] = x
          BY <1>1, <2>1, <3>3
        <4>2. QED
          BY <4>1
      <3>4. QED
        BY <3>1, <3>2, <3>3
    <2>2. \A u \in Users : origin[u] # Missing => Spent(origin[u])'
      BY DEF InvitesApart, SpentKept, Spent
    <2>3. QED
      BY <2>1, <2>2 DEF InvitesApart, Spent
  <1>4. ASSUME NEW k \in 1 .. issued, NEW u \in Users, Holds(k, u)'
        PROVE  Holds(k, u)
    <2>1. CASE \E s \in sessions' \cup cached' : s.id = k /\ s.user = u
      <3>1. PICK s \in sessions' \cup cached' : s.id = k /\ s.user = u
        BY <2>1
      <3>2. CASE s \in sessions \cup cached
        BY <3>1, <3>2 DEF Holds
      <3>3. CASE Holds(s.id, s.user)
        BY <3>1, <3>3
      <3>4. QED
        BY <3>1, <3>2, <3>3
    <2>2. CASE \E q \in Requests : stmt'[q] \in Carrying /\ arg'[q].session = k /\ arg'[q].user = u
      <3>1. PICK q \in Requests : stmt'[q] \in Carrying /\ arg'[q].session = k /\ arg'[q].user = u
        BY <2>2
      <3>2. CASE q = r
        BY <1>1, <3>1, <3>2
      <3>3. CASE q # r
        BY <1>1, <3>1, <3>3 DEF Holds
      <3>4. QED
        BY <3>2, <3>3
    <2>3. QED
      BY <1>4, <2>1, <2>2 DEF Holds
  <1>5. SessionsBelong'
    <2>1. \A k \in 1 .. issued' : \A u, v \in Users : Holds(k, u)' /\ Holds(k, v)' => u = v
      BY <1>4 DEF SessionsBelong
    <2>2. ASSUME NEW s \in sessions' \cup cached'
          PROVE  s.id \in 1 .. issued' /\ users'[s.user].status # Missing
      BY DEF SessionsBelong, AccountsKept, Sessions
    <2>3. QED
      BY <2>1, <2>2 DEF SessionsBelong
  <1>6. ASSUME NEW s \in Sessions, Stands(s.user, s.pw), users[s.user].status # Missing
        PROVE  Stands(s.user, s.pw)'
    BY <1>6 DEF Stands, AccountsKept, Sessions
  <1>7. PasswordsStand'
    <2>1. ASSUME NEW s \in sessions' PROVE Stands(s.user, s.pw)'
      BY <1>6, <2>1 DEF PasswordsStand, SessionsBelong
    <2>2. ASSUME NEW s \in cached' PROVE Stands(s.user, s.pw)' \/ Evicting(s)'
      <3>1. CASE s \in cached /\ ~Stands(s.user, s.pw)
        <4>1. PICK q \in Requests : stmt[q] = "evict" /\ arg[q].user = s.user /\ arg[q].session # s.id
          BY <3>1 DEF PasswordsStand, Evicting
        <4>2. q # r
          BY <4>1
        <4>3. stmt'[q] = "evict" /\ arg'[q].user = s.user /\ arg'[q].session # s.id
          BY <1>1, <4>1, <4>2
        <4>4. QED
          BY <4>3, Zenon DEF Evicting
      <3>2. CASE Stands(s.user, s.pw)
        BY <1>6, <3>2 DEF SessionsBelong
      <3>3. QED
        BY <3>1, <3>2
    <2>3. QED
      BY <2>1, <2>2 DEF PasswordsStand
  <1>8. SignInParameters'
    BY DEF SignInParameters
  <1>9. QED
    BY <1>2, <1>3, <1>5, <1>7, <1>8

\* Steps that move no request.
LEMMA Standing ==
    ASSUME SignInInv, SignInTypes', SentHaveRoles', SpentKept,
           UNCHANGED <<users, members, sessions, stmt, arg, issued, origin>>,
           cached' \subseteq cached \cup sessions
    PROVE  SignInInv'
  <1> USE DEF SignInInv, SignInTypes
  <1>1. RequestsSound'
    BY DEF RequestsSound, RequestSound, SpentKept, Stands
  <1>2. InvitesApart'
    BY DEF InvitesApart, SpentKept
  <1>3. \A k \in 1 .. issued, u \in Users : Holds(k, u)' => Holds(k, u)
    BY DEF Holds
  <1>4. SessionsBelong'
    BY <1>3 DEF SessionsBelong
  <1>5. PasswordsStand'
    BY DEF PasswordsStand, Stands, Evicting
  <1>6. Provisioned'
    BY DEF Provisioned, Live
  <1>7. QED
    BY <1>1, <1>2, <1>4, <1>5, <1>6 DEF SignInParameters

\* The users still to be provisioned have their request, if no step takes it away.
LEMMA ProvisioningGoesOn ==
    ASSUME SignInInv, NEW r \in Requests, NEW n, NEW x, Advance(r, n, x),
           \A u \in Users : Unfinished(u)' =>
              \/ Unfinished(u) /\ ~(stmt[r] \in Providing /\ arg[r].user = u)
              \/ n \in Providing /\ x.user = u
    PROVE  Provisioned'
  <1> SUFFICES ASSUME NEW u \in Users, Unfinished(u)'
               PROVE  \E q \in Requests : stmt'[q] \in {"provisioned member", "rollback"}
                                          /\ arg'[q].user = u
    BY DEF Provisioned, Unfinished, Live
  <1>1. /\ stmt'[r] = n /\ arg'[r] = x
        /\ \A q \in Requests \ {r} : stmt'[q] = stmt[q] /\ arg'[q] = arg[q]
    BY DEF Advance, SignInInv, SignInTypes
  <1>2. CASE n \in Providing /\ x.user = u
    BY <1>1, <1>2 DEF Providing
  <1>3. CASE Unfinished(u) /\ ~(stmt[r] \in Providing /\ arg[r].user = u)
    <2>1. PICK q \in Requests : stmt[q] \in {"provisioned member", "rollback"} /\ arg[q].user = u
      BY <1>3 DEF SignInInv, Provisioned, Unfinished
    <2>2. q # r
      BY <1>3, <2>1 DEF Providing
    <2>3. QED
      BY <1>1, <2>1, <2>2
  <1>4. QED
    BY <1>2, <1>3

\* A step of one request that writes to no table at all.
LEMMA Moving ==
    ASSUME SignInInv, NEW r \in Requests, NEW n, NEW x, Advance(r, n, x),
           UNCHANGED <<invites, users, members, sessions, cached, issued, origin>>,
           sso' \in [there : BOOLEAN, secret : Secrets],
           n # "invited user", stmt[r] # "evict", RequestSound(n, x),
           n \in Carrying => Holds(x.session, x.user),
           stmt[r] \in Providing => n \in Providing /\ x.user = arg[r].user
    PROVE  SignInInv'
  <1>1. SignInTypes'
    BY DEF SignInInv, SignInTypes, Advance
  <1>2. SentHaveRoles'
    BY DEF SignInInv, SentHaveRoles
  <1>3. AccountsKept /\ SpentKept
    BY DEF AccountsKept, SpentKept, Spent
  <1>4. RequestSound(n, x)'
    BY DEF RequestSound, Stands, Spent
  <1>5. Provisioned'
    <2>1. \A u \in Users : Unfinished(u)' => Unfinished(u)
      BY DEF Unfinished, Live
    <2>2. \A u \in Users : Unfinished(u)' =>
              \/ Unfinished(u) /\ ~(stmt[r] \in Providing /\ arg[r].user = u)
              \/ n \in Providing /\ x.user = u
      BY <2>1
    <2>3. QED
      BY <2>2, ProvisioningGoesOn
  <1>6. \A s \in cached' : s \in cached
    OBVIOUS
  <1>7. QED
    BY <1>1, <1>2, <1>3, <1>4, <1>5, <1>6, Advancing

-----------------------------------------------------------------------------
\* A handler begins: it read a row and knows what it needs of it.
LEMMA SignInBegins ==
    ASSUME SignInInv, NEW r \in Requests,
           \/ \E i \in Invites, pw \in Passwords : RedeemInvite(r, i, pw)
           \/ \E u \in Users, pw \in Passwords : Login(r, u, pw)
           \/ \E s \in cached, pw \in Passwords : ChangeOwnPassword(r, s, pw)
           \/ \E secret \in {Missing, "s1"} : resolveSecretEnc(r, secret)
           \/ OIDCCallback(r)
    PROVE  SignInInv'
  <1> USE DEF SignInInv, SignInTypes
  <1>1. stmt[r] = "idle" /\ UNCHANGED <<tables, cached, issued, origin>>
    BY DEF RedeemInvite, Login, ChangeOwnPassword, resolveSecretEnc, OIDCCallback, StartRequest
  <1>2. UNCHANGED <<invites, users, members, sessions, sso>>
    BY <1>1 DEF tables
  <1>3. ASSUME NEW i \in Invites, NEW pw \in Passwords, RedeemInvite(r, i, pw) PROVE SignInInv'
    <2> DEFINE x == [Idle EXCEPT !.invite = i, !.email = invites[i].email,
                                 !.role = invites[i].role, !.pw = pw]
    <2>0. invites[i].email \in Emails \cup {Missing} /\ invites[i].role \in Roles \cup {Missing}
      BY DEF InviteRows
    <2>1. x \in Args /\ x.invite = i /\ x.role = invites[i].role
      BY <2>0 DEF Idle, Args, Credentials, Secrets
    <2>2. Advance(r, "redeem", x) /\ invites[i].state = "open"
      BY <1>3, <2>1 DEF RedeemInvite, StartRequest, Advance, PeekInvite, Steps, InviteSteps
    <2> HIDE DEF x
    <2>3. RequestSound("redeem", x)
      BY <2>1, <2>2 DEF RequestSound, UserSteps, LoginSteps, ProvisionSteps, Carrying, SentHaveRoles, Missing
    <2>4. QED
      BY <1>1, <1>2, <2>2, <2>3, Moving DEF Carrying, Providing
  <1>4. ASSUME NEW u \in Users, NEW pw \in Passwords, Login(r, u, pw) PROVE SignInInv'
    <2> DEFINE x == [Idle EXCEPT !.user = u, !.pw = pw]
    <2>1. x \in Args /\ x.user = u /\ x.pw = pw
      BY DEF Idle, Args, Credentials, Secrets
    <2>2. Advance(r, "resolve", x) /\ users[u].status = "live" /\ users[u].pw = pw
      BY <1>4, <2>1 DEF Login, StartRequest, Advance, Live, Steps, UserSteps, LoginSteps
    <2> HIDE DEF x
    <2>3. RequestSound("resolve", x)
      BY <2>1, <2>2 DEF RequestSound, UserSteps, LoginSteps, InviteSteps, ProvisionSteps, Carrying, Stands, Missing
    <2>4. QED
      BY <1>1, <1>2, <2>2, <2>3, Moving DEF Carrying, Providing
  <1>5. ASSUME NEW s \in cached, NEW pw \in Passwords, ChangeOwnPassword(r, s, pw) PROVE SignInInv'
    <2> DEFINE x == [Idle EXCEPT !.user = s.user, !.session = s.id, !.pw = pw]
    <2>1. s \in Sessions /\ s.user \in Users /\ s.id \in Nat
      BY DEF Sessions
    <2>2. x \in Args /\ x.user = s.user /\ x.pw = pw /\ x.session = s.id
      BY <2>1 DEF Idle, Args, Credentials, Secrets
    <2>3. Advance(r, "change", x) /\ users[s.user].status = "live"
      BY <1>5, <2>2 DEF ChangeOwnPassword, StartRequest, Advance, Live, Steps, UserSteps
    <2> HIDE DEF x
    <2>4. s.id \in 1 .. issued
      BY DEF SessionsBelong
    <2>5. RequestSound("change", x)
      BY <2>1, <2>2, <2>3, <2>4
         DEF RequestSound, UserSteps, LoginSteps, InviteSteps, ProvisionSteps, Carrying, Missing
    <2>6. Holds(x.session, x.user)
      BY <2>2 DEF Holds
    <2>7. QED
      BY <1>1, <1>2, <2>3, <2>5, <2>6, Moving DEF Providing
  <1>6. ASSUME NEW secret \in {Missing, "s1"}, resolveSecretEnc(r, secret) PROVE SignInInv'
    <2> DEFINE x == [Idle EXCEPT !.secret = IF secret # Missing THEN secret ELSE sso.secret]
    <2>1. x \in Args
      BY DEF Idle, Args, Credentials, Secrets
    <2>2. Advance(r, "upsert sso", x)
      BY <1>6, <2>1 DEF resolveSecretEnc, StartRequest, Advance, Steps
    <2> HIDE DEF x
    <2>3. RequestSound("upsert sso", x)
      BY DEF RequestSound, UserSteps, LoginSteps, InviteSteps, ProvisionSteps, Carrying
    <2>4. QED
      BY <1>1, <1>2, <2>2, <2>3, Moving DEF Carrying, Providing
  <1>7. CASE OIDCCallback(r)
    <2>1. CASE KnownSubject # {}
      <3>1. PICK u \in KnownSubject : StartRequest(r, "sync", [Idle EXCEPT !.user = u, !.pw = "sso"])
        BY <1>7, <2>1 DEF OIDCCallback
      <3> DEFINE x == [Idle EXCEPT !.user = u, !.pw = "sso"]
      <3>2. u \in Users /\ users[u].status = "live"
        BY DEF KnownSubject, Live
      <3>3. x \in Args /\ x.user = u /\ x.pw = "sso"
        BY <3>2 DEF Idle, Args, Credentials, Secrets
      <3>4. Advance(r, "sync", x)
        BY <3>1, <3>3 DEF StartRequest, Advance, Steps, UserSteps
      <3> HIDE DEF x
      <3>5. RequestSound("sync", x)
        BY <3>2, <3>3 DEF RequestSound, UserSteps, LoginSteps, InviteSteps, ProvisionSteps, Carrying, Missing
      <3>6. QED
        BY <1>1, <1>2, <3>4, <3>5, Moving DEF Carrying, Providing
    <2>2. CASE KnownSubject = {}
      <3> DEFINE x == [Idle EXCEPT !.pw = "sso"]
      <3>1. x \in Args /\ x.pw = "sso"
        BY DEF Idle, Args, Credentials, Secrets
      <3>2. Advance(r, "provision", x)
        BY <1>7, <2>2, <3>1 DEF OIDCCallback, StartRequest, Advance, Steps, ProvisionSteps
      <3> HIDE DEF x
      <3>3. RequestSound("provision", x)
        BY <3>1 DEF RequestSound, UserSteps, LoginSteps, InviteSteps, ProvisionSteps, Carrying
      <3>4. QED
        BY <1>1, <1>2, <3>2, <3>3, Moving DEF Carrying, Providing
    <2>3. QED
      BY <2>1, <2>2
  <1>8. QED
    BY <1>3, <1>4, <1>5, <1>6, <1>7

\* A request that is over knows nothing.
LEMMA IdleSound == RequestSound("idle", Idle)
  BY DEF RequestSound, UserSteps, LoginSteps, InviteSteps, ProvisionSteps, Carrying

\* A handler goes on, or gives up, without writing.
LEMMA SignInMoves ==
    ASSUME SignInInv, NEW r \in Requests,
           \/ ResolveUserRole(r) \/ LoadSession(r) \/ UpsertOrgSSOConfig(r) \/ SyncGroups(r)
    PROVE  SignInInv'
  <1> USE DEF SignInInv, SignInTypes
  <1>1. RequestSound(stmt[r], arg[r]) /\ arg[r] \in Args /\ Idle \in Args
    BY IdleArgs DEF RequestsSound
  <1>2. CASE ResolveUserRole(r)
    <2>1. stmt[r] = "resolve" /\ UNCHANGED <<invites, users, members, sessions, sso, cached, issued, origin>>
      BY <1>2 DEF ResolveUserRole, Goto, tables
    <2>2. Advance(r, "revoke", arg[r]) \/ Advance(r, "idle", Idle)
      BY <1>1, <1>2 DEF ResolveUserRole, Goto, Advance, Steps, UserSteps, LoginSteps
    <2>3. RequestSound("revoke", arg[r])
      BY <1>1, <2>1 DEF RequestSound, UserSteps, LoginSteps, InviteSteps, ProvisionSteps, Carrying
    <2>4. QED
      BY <2>1, <2>2, <2>3, IdleSound, Moving DEF Carrying, Providing
  <1>3. CASE LoadSession(r)
    <2>1. /\ stmt[r] = "load session"
          /\ UNCHANGED <<invites, users, members, sessions, sso, cached, issued, origin>>
      BY <1>3 DEF LoadSession, Goto, tables
    <2>2. Advance(r, "cache session", arg[r]) \/ Advance(r, "idle", Idle)
      BY <1>1, <1>3 DEF LoadSession, Goto, Advance, Steps, UserSteps, LoginSteps
    <2>3. RequestSound("cache session", arg[r])
      BY <1>1, <2>1 DEF RequestSound, UserSteps, LoginSteps, InviteSteps, ProvisionSteps, Carrying
    <2>4. Holds(arg[r].session, arg[r].user)
      BY <2>1 DEF Holds, Carrying
    <2>5. QED
      BY <2>1, <2>2, <2>3, <2>4, IdleSound, Moving DEF Carrying, Providing
  <1>4. CASE UpsertOrgSSOConfig(r)
    <2>1. stmt[r] = "upsert sso" /\ UNCHANGED <<invites, users, members, sessions, cached, issued, origin>>
      BY <1>4 DEF UpsertOrgSSOConfig, Goto
    <2>2. Advance(r, "idle", Idle)
      BY <1>1, <1>4 DEF UpsertOrgSSOConfig, Goto, Advance, Steps
    <2>3. sso' \in [there : BOOLEAN, secret : Secrets]
      BY <1>1, <1>4 DEF UpsertOrgSSOConfig, Args
    <2>4. QED
      BY <2>1, <2>2, <2>3, IdleSound, Moving DEF Carrying, Providing
  <1>5. CASE SyncGroups(r)
    <2>1. stmt[r] = "sync" /\ UNCHANGED <<invites, users, members, sessions, sso, cached, issued, origin>>
      BY <1>5 DEF SyncGroups, Goto
    <2>2. Advance(r, "resolve", arg[r])
      BY <1>1, <1>5 DEF SyncGroups, Goto, Advance, Steps, UserSteps, LoginSteps
    <2>3. RequestSound("resolve", arg[r])
      BY <1>1, <2>1 DEF RequestSound, UserSteps, LoginSteps, InviteSteps, ProvisionSteps, Carrying, Stands
    <2>4. QED
      BY <2>1, <2>2, <2>3, Moving DEF Carrying, Providing
  <1>6. QED
    BY <1>2, <1>3, <1>4, <1>5

-----------------------------------------------------------------------------
\* How a row of an invitation may change, and what that keeps.
InviteRowMoves(i) ==
    \/ invites'[i] = invites[i]
    \/ /\ invites[i].state # Missing
       /\ \E z \in {"redeemed", "gone"} : invites'[i] = [invites[i] EXCEPT !.state = z]
    \/ invites'[i] = [invites[i] EXCEPT !.expired = TRUE]
    \/ invites[i].state = Missing /\ invites'[i] \in InviteRows /\ invites'[i].role \in Roles

LEMMA InviteRowsMove ==
    ASSUME SignInInv, invites' = [i \in Invites |-> invites'[i]],
           \A i \in Invites : InviteRowMoves(i)
    PROVE  invites' \in [Invites -> InviteRows] /\ SentHaveRoles' /\ SpentKept
  <1>1. ASSUME NEW i \in Invites
        PROVE  /\ invites'[i] \in InviteRows
               /\ invites'[i].state # Missing => invites'[i].role \in Roles
               /\ Spent(i) => Spent(i)'
    <2>1. invites[i] \in InviteRows /\ (invites[i].state # Missing => invites[i].role \in Roles)
      BY DEF SignInInv, SignInTypes, SentHaveRoles
    <2>2. InviteRowMoves(i)
      OBVIOUS
    <2>3. QED
      BY <2>1, <2>2 DEF InviteRowMoves, InviteRows, Spent, Missing
  <1>2. QED
    BY <1>1 DEF SentHaveRoles, SpentKept

\* The invitations' rows change: none that is spent is open again.
LEMMA InvitationsChange ==
    ASSUME SignInInv, NEW r \in Requests,
           \/ \E e \in Emails, role \in Roles : RevokeInviteTokensByEmail(r, e, role)
           \/ CreateInvite(r)
           \/ RedeemInviteToken(r)
    PROVE  SignInInv'
  <1> USE DEF SignInInv, SignInTypes
  <1>1. RequestSound(stmt[r], arg[r]) /\ arg[r] \in Args /\ Idle \in Args
    BY IdleArgs DEF RequestsSound
  <1>2. UNCHANGED <<users, members, sessions, sso, cached, issued, origin>> /\ AccountsKept
    BY DEF RevokeInviteTokensByEmail, CreateInvite, RedeemInviteToken, AccountsKept
  <1>3. stmt[r] \in {"idle", "insert invite", "redeem"}
    BY DEF RevokeInviteTokensByEmail, CreateInvite, RedeemInviteToken, StartRequest, Goto
  <1>4. \A u \in Users : Unfinished(u)' => Unfinished(u) /\ stmt[r] \notin Providing
    BY <1>2, <1>3 DEF Unfinished, Live, Providing
  <1>5. \A s \in cached' : s \in cached
    BY <1>2
  <1>6. ASSUME NEW e \in Emails, NEW role \in Roles, RevokeInviteTokensByEmail(r, e, role)
        PROVE  SignInInv'
    <2> DEFINE x == [Idle EXCEPT !.email = e, !.role = role]
    <2>1. x \in Args /\ x.role = role
      BY DEF Idle, Args, Credentials, Secrets
    <2>2. Advance(r, "insert invite", x)
      BY <1>6, <2>1 DEF RevokeInviteTokensByEmail, StartRequest, Advance, Steps, InviteSteps
    <2> HIDE DEF x
    <2>3. invites' = [i \in Invites |-> invites'[i]] /\ \A i \in Invites : InviteRowMoves(i)
      BY <1>6 DEF RevokeInviteTokensByEmail, InviteRowMoves, Missing
    <2>4. invites' \in [Invites -> InviteRows]
      BY <2>3, InviteRowsMove
    <2>5. SentHaveRoles' /\ SpentKept
      BY <2>3, InviteRowsMove
    <2>6. SignInTypes'
      BY <1>2, <2>2, <2>4 DEF Advance
    <2>7. RequestSound("insert invite", x)'
      BY <2>1 DEF RequestSound, UserSteps, LoginSteps, ProvisionSteps, Carrying
    <2>8. Provisioned'
      BY <1>4, <2>2, ProvisioningGoesOn
    <2>9. QED
      BY <1>2, <1>3, <1>5, <2>2, <2>5, <2>6, <2>7, <2>8, Advancing DEF Carrying
  <1>7. CASE CreateInvite(r)
    <2>1. stmt[r] = "insert invite" /\ Advance(r, "idle", Idle)
      BY <1>1, <1>7 DEF CreateInvite, Goto, Advance, Steps
    <2>2. /\ arg[r].role \in Roles
          /\ \/ UNCHANGED invites
             \/ \E i \in Invites :
                  /\ invites[i].state = Missing
                  /\ invites' = [invites EXCEPT ![i] =
                        [email |-> arg[r].email, role |-> arg[r].role, state |-> "open", expired |-> FALSE]]
      BY <1>1, <1>7, <2>1 DEF CreateInvite, RequestSound, InviteSteps
    <2>3. invites' = [i \in Invites |-> invites'[i]] /\ \A i \in Invites : InviteRowMoves(i)
      <3> DEFINE row == [email |-> arg[r].email, role |-> arg[r].role, state |-> "open",
                         expired |-> FALSE]
      <3>1. row \in InviteRows /\ row.role \in Roles
        BY <1>1, <2>2 DEF Args, InviteRows
      <3> HIDE DEF row
      <3>2. CASE UNCHANGED invites
        BY <3>2 DEF InviteRowMoves
      <3>3. ASSUME NEW i \in Invites, invites[i].state = Missing, invites' = [invites EXCEPT ![i] = row]
            PROVE  invites' = [j \in Invites |-> invites'[j]] /\ \A j \in Invites : InviteRowMoves(j)
        BY <3>1, <3>3 DEF InviteRowMoves
      <3>4. QED
        BY <2>2, <3>2, <3>3 DEF row
    <2>4. invites' \in [Invites -> InviteRows] /\ SentHaveRoles' /\ SpentKept
      BY <2>3, InviteRowsMove
    <2>5. SignInTypes'
      BY <1>2, <2>1, <2>4 DEF Advance
    <2>6. RequestSound("idle", Idle)'
      BY DEF RequestSound, UserSteps, LoginSteps, InviteSteps, ProvisionSteps, Carrying
    <2>7. Provisioned'
      BY <1>4, <2>1, ProvisioningGoesOn
    <2>8. QED
      BY <1>2, <1>3, <1>5, <2>1, <2>4, <2>5, <2>6, <2>7, Advancing DEF Carrying
  <1>8. CASE RedeemInviteToken(r)
    <2>1. stmt[r] = "redeem" /\ arg[r].invite \in Invites /\ arg[r].role \in Roles
      BY <1>1, <1>8 DEF RedeemInviteToken, RequestSound, InviteSteps
    <2>2. CASE invites[arg[r].invite].state # "open"
      <3>1. Advance(r, "idle", Idle) /\ UNCHANGED invites
        BY <1>1, <1>8, <2>2 DEF RedeemInviteToken, Goto, Advance, Steps
      <3>2. QED
        BY <1>2, <2>1, <3>1, IdleSound, Moving DEF Carrying, Providing
    <2>3. CASE invites[arg[r].invite].state = "open"
      <3> DEFINE j == arg[r].invite
      <3>0. PICK x : x = arg[r]
        BY Zenon
      <3>1. /\ Advance(r, "invited user", x)
            /\ invites' = [invites EXCEPT ![j].state = "redeemed"]
        BY <1>1, <1>8, <2>3, <3>0 DEF RedeemInviteToken, Goto, Advance, Steps, InviteSteps
      <3>2. invites' = [i \in Invites |-> invites'[i]] /\ \A i \in Invites : InviteRowMoves(i)
        BY <2>1, <2>3, <3>1 DEF InviteRowMoves, Missing
      <3>3. invites' \in [Invites -> InviteRows] /\ SentHaveRoles' /\ SpentKept
        BY <3>2, InviteRowsMove
      <3>4. SignInTypes'
        BY <1>2, <3>1, <3>3 DEF Advance
      <3>5. \A u \in Users : origin'[u] # j
        BY <1>2, <2>1, <2>3 DEF InvitesApart, Spent, SignInParameters
      <3>6. \A q \in Requests \ {r} : stmt[q] = "invited user" => arg[q].invite # j
        BY <2>3 DEF RequestsSound, RequestSound, Spent
      <3>7. Spent(x.invite)'
        <4>1. invites[j] \in InviteRows /\ j = x.invite
              /\ invites'[j] = [invites[j] EXCEPT !.state = "redeemed"]
          BY <2>1, <3>0, <3>1
        <4>2. invites'[j].state = "redeemed"
          BY <4>1 DEF InviteRows
        <4>3. QED
          BY <4>1, <4>2 DEF Spent
      <3>8. RequestSound("invited user", x)'
        BY <2>1, <3>0, <3>5, <3>7
           DEF RequestSound, UserSteps, LoginSteps, InviteSteps, ProvisionSteps, Carrying
      <3>9. Provisioned'
        BY <1>4, <3>1, ProvisioningGoesOn
      <3>10. QED
        BY <1>2, <1>3, <1>5, <3>0, <3>1, <3>3, <3>4, <3>6, <3>8, <3>9, Advancing DEF Carrying
    <2>4. QED
      BY <2>2, <2>3
  <1>9. QED
    BY <1>6, <1>7, <1>8

\* Steps of the administrators, of time and of the reload: no request moves.
LEMMA SignInStands ==
    ASSUME SignInInv,
           (\E i \in Invites : RevokeInvite(i) \/ ExpireInvite(i)) \/ Refresh \/ DeleteOrgSSOConfig
    PROVE  SignInInv'
  <1> USE DEF SignInInv, SignInTypes
  <1>1. ASSUME NEW i \in Invites, RevokeInvite(i) \/ ExpireInvite(i) PROVE SignInInv'
    <2>1. UNCHANGED <<users, members, sessions, sso, cached, stmt, arg, issued, origin>>
      BY <1>1 DEF RevokeInvite, ExpireInvite
    <2>2. invites' = [j \in Invites |-> invites'[j]] /\ \A j \in Invites : InviteRowMoves(j)
      <3>1. CASE RevokeInvite(i)
        BY <3>1 DEF RevokeInvite, InviteRowMoves, Missing
      <3>2. CASE ExpireInvite(i)
        BY <3>2 DEF ExpireInvite, InviteRowMoves
      <3>3. QED
        BY <1>1, <3>1, <3>2
    <2>3. invites' \in [Invites -> InviteRows] /\ SentHaveRoles' /\ SpentKept
      BY <2>2, InviteRowsMove
    <2>4. SignInTypes'
      BY <2>1, <2>3
    <2>5. cached' \subseteq cached \cup sessions
      BY <2>1
    <2>6. QED
      BY <2>1, <2>3, <2>4, <2>5, Standing
  <1>2. CASE Refresh \/ DeleteOrgSSOConfig
    <2>1. UNCHANGED <<invites, users, members, sessions, stmt, arg, issued, origin>>
      BY <1>2 DEF Refresh, DeleteOrgSSOConfig, tables
    <2>2. cached' \subseteq cached \cup sessions
      BY <1>2 DEF Refresh, DeleteOrgSSOConfig
    <2>3. sso' \in [there : BOOLEAN, secret : Secrets]
      <3>1. CASE Refresh
        BY <3>1 DEF Refresh, tables
      <3>2. CASE DeleteOrgSSOConfig
        BY <3>2 DEF DeleteOrgSSOConfig, Secrets
      <3>3. QED
        BY <1>2, <3>1, <3>2
    <2>4. SignInTypes' /\ SentHaveRoles' /\ SpentKept
      BY <2>1, <2>2, <2>3 DEF SentHaveRoles, SpentKept, Spent
    <2>5. QED
      BY <2>1, <2>2, <2>4, Standing
  <1>3. QED
    BY <1>1, <1>2

-----------------------------------------------------------------------------
\* Memberships and old sessions: the steps after an account is there.
LEMMA MembersChange ==
    ASSUME SignInInv, NEW r \in Requests, CreateInvitedMember(r) \/ ProvisionMember(r)
    PROVE  SignInInv'
  <1> USE DEF SignInInv, SignInTypes
  <1>1. RequestSound(stmt[r], arg[r]) /\ arg[r] \in Args /\ Idle \in Args
    BY IdleArgs DEF RequestsSound
  <1>2. UNCHANGED <<invites, users, sessions, sso, cached, issued, origin>>
    BY DEF CreateInvitedMember, ProvisionMember, tables
  <1>3. AccountsKept /\ SpentKept /\ SentHaveRoles' /\ \A s \in cached' : s \in cached
    BY <1>2 DEF AccountsKept, SpentKept, SentHaveRoles, Spent
  <1>4. CASE CreateInvitedMember(r)
    <2>1. stmt[r] = "invited member" /\ Advance(r, "idle", Idle)
      BY <1>1, <1>4 DEF CreateInvitedMember, Goto, Advance, Steps
    <2>2. arg[r].user \in Users /\ arg[r].role \in Roles
      BY <1>1, <2>1 DEF RequestSound, UserSteps, InviteSteps
    <2>3. /\ members' \in [Users -> Roles \cup {Missing}]
          /\ \A u \in Users : members'[u] = Missing => members[u] = Missing
      BY <1>4, <2>2 DEF CreateInvitedMember, Roles, Missing
    <2>4. SignInTypes'
      BY <1>2, <2>1, <2>3 DEF Advance
    <2>5. RequestSound("idle", Idle)'
      BY DEF RequestSound, UserSteps, LoginSteps, InviteSteps, ProvisionSteps, Carrying
    <2>6. \A u \in Users : Unfinished(u)' => Unfinished(u) /\ stmt[r] \notin Providing
      BY <1>2, <2>1, <2>3 DEF Unfinished, Live, Providing
    <2>7. Provisioned'
      BY <2>1, <2>6, ProvisioningGoesOn
    <2>8. QED
      BY <1>2, <1>3, <2>1, <2>4, <2>5, <2>7, Advancing DEF Carrying
  <1>5. ASSUME stmt[r] = "provisioned member", Goto(r, "provisioned member", "sync", arg[r]),
               members' = [members EXCEPT ![arg[r].user] = "member"]
        PROVE  SignInInv'
    <2>0. PICK x : x = arg[r]
      BY Zenon
    <2>1. Advance(r, "sync", x)
      BY <1>1, <1>5, <2>0 DEF Goto, Advance, Steps, UserSteps
    <2>2. arg[r].user \in Users /\ users[arg[r].user].status # Missing /\ arg[r].pw = "sso"
      BY <1>1, <1>5 DEF RequestSound, UserSteps, ProvisionSteps
    <2>3. /\ members' \in [Users -> Roles \cup {Missing}]
          /\ \A u \in Users : members'[u] = Missing => members[u] = Missing /\ arg[r].user # u
      BY <1>5, <2>2 DEF Roles, Missing
    <2>4. SignInTypes'
      BY <1>2, <2>1, <2>3 DEF Advance
    <2>5. RequestSound("sync", x)'
      BY <1>2, <2>0, <2>2 DEF RequestSound, UserSteps, LoginSteps, InviteSteps, ProvisionSteps, Carrying
    <2>6. \A u \in Users : Unfinished(u)' =>
              Unfinished(u) /\ ~(stmt[r] \in Providing /\ arg[r].user = u)
      BY <1>2, <2>3 DEF Unfinished, Live
    <2>7. Provisioned'
      BY <2>1, <2>6, ProvisioningGoesOn
    <2>8. QED
      BY <1>2, <1>3, <1>5, <2>1, <2>4, <2>5, <2>7, Advancing DEF Carrying
  <1>6. ASSUME stmt[r] = "provisioned member", Goto(r, "provisioned member", "rollback", arg[r]),
               UNCHANGED members
        PROVE  SignInInv'
    <2>1. Advance(r, "rollback", arg[r])
      BY <1>1, <1>6 DEF Goto, Advance, Steps, UserSteps
    <2>2. RequestSound("rollback", arg[r])
      BY <1>1, <1>6 DEF RequestSound, UserSteps, LoginSteps, InviteSteps, ProvisionSteps, Carrying
    <2>3. QED
      BY <1>2, <1>6, <2>1, <2>2, Moving DEF Carrying, Providing
  <1>7. QED
    BY <1>4, <1>5, <1>6 DEF ProvisionMember, Goto, tables

\* A new account made by the identity provider's login, and its compensation.
LEMMA ProvisioningChanges ==
    ASSUME SignInInv, NEW r \in Requests, Provision(r) \/ RollbackUser(r)
    PROVE  SignInInv'
  <1> USE DEF SignInInv, SignInTypes
  <1>1. RequestSound(stmt[r], arg[r]) /\ arg[r] \in Args /\ Idle \in Args
    BY IdleArgs DEF RequestsSound
  <1>2. UNCHANGED <<invites, members, sessions, sso, cached, issued, origin>>
    BY DEF Provision, RollbackUser, tables
  <1>3. SpentKept /\ SentHaveRoles' /\ \A s \in cached' : s \in cached
    BY <1>2 DEF SpentKept, SentHaveRoles, Spent
  <1>4. CASE Provision(r)
    <2>1. stmt[r] = "provision" /\ arg[r].pw = "sso"
      BY <1>1, <1>4 DEF Provision, RequestSound, ProvisionSteps
    <2>2. CASE KnownSubject # {}
      <3>1. Advance(r, "idle", Idle) /\ UNCHANGED users
        BY <1>1, <1>4, <2>2 DEF Provision, Goto, Advance, Steps, tables
      <3>2. QED
        BY <1>2, <2>1, <3>1, IdleSound, Moving DEF Carrying, Providing
    <2>3. CASE KnownSubject = {}
      <3> DEFINE row == [email |-> Missing, pw |-> Missing, ext |-> TRUE, status |-> "live"]
      <3>1. PICK u \in Users :
               /\ users[u].status = Missing
               /\ users' = [users EXCEPT ![u] = row]
               /\ Goto(r, "provision", "provisioned member", [arg[r] EXCEPT !.user = u])
        BY <1>4, <2>3 DEF Provision
      <3>2. PICK x : x = [arg[r] EXCEPT !.user = u]
        BY Zenon
      <3>3. x \in Args /\ x.user = u /\ x.pw = "sso"
        BY <1>1, <2>1, <3>2 DEF Args
      <3>4. Advance(r, "provisioned member", x)
        BY <3>1, <3>2, <3>3 DEF Goto, Advance, Steps, UserSteps
      <3>5. row \in [email : Emails \cup {Missing}, pw : Credentials, ext : BOOLEAN,
                     status : {Missing, "live", "deleted"}] /\ row.status = "live"
        BY DEF Credentials
      <3> HIDE DEF row
      <3>6. SignInTypes'
        BY <1>2, <3>1, <3>4, <3>5 DEF Advance
      <3>7. AccountsKept
        BY <3>1 DEF AccountsKept
      <3>8. RequestSound("provisioned member", x)'
        BY <3>1, <3>3, <3>5
           DEF RequestSound, UserSteps, LoginSteps, InviteSteps, ProvisionSteps, Carrying, Missing
      <3>9. PICK n : n = "provisioned member"
        BY Zenon
      <3>10. Provisioned'
        <4>1. \A v \in Users : Unfinished(v)' =>
              \/ Unfinished(v) /\ ~(stmt[r] \in Providing /\ arg[r].user = v)
              \/ n \in Providing /\ x.user = v
          BY <1>2, <2>1, <3>1, <3>3, <3>9 DEF Unfinished, Live, Providing
        <4>2. Advance(r, n, x)
          BY <3>4, <3>9
        <4>3. QED
          BY <4>1, <4>2, ProvisioningGoesOn
      <3>11. QED
        BY <1>2, <1>3, <2>1, <3>4, <3>6, <3>7, <3>8, <3>10, Advancing DEF Carrying
    <2>4. QED
      BY <2>2, <2>3
  <1>5. CASE RollbackUser(r)
    <2>1. stmt[r] = "rollback" /\ Advance(r, "idle", Idle)
      BY <1>1, <1>5 DEF RollbackUser, Goto, Advance, Steps
    <2>2. arg[r].user \in Users
      BY <1>1, <2>1 DEF RequestSound, UserSteps
    <2>3. /\ users' = [users EXCEPT ![arg[r].user].status = "deleted"]
          /\ users' \in [Users -> [email : Emails \cup {Missing}, pw : Credentials, ext : BOOLEAN,
                                   status : {Missing, "live", "deleted"}]]
      BY <1>5 DEF RollbackUser
    <2>4. /\ users'[arg[r].user].status = "deleted" /\ users'[arg[r].user].pw = users[arg[r].user].pw
          /\ \A v \in Users : v # arg[r].user => users'[v] = users[v]
      BY <2>2, <2>3
    <2>5. AccountsKept
      BY <2>2, <2>4 DEF AccountsKept, Missing
    <2>6. SignInTypes'
      BY <1>2, <2>1, <2>3 DEF Advance
    <2>7. RequestSound("idle", Idle)'
      BY DEF RequestSound, UserSteps, LoginSteps, InviteSteps, ProvisionSteps, Carrying
    <2>8. \A v \in Users : Unfinished(v)' =>
              Unfinished(v) /\ ~(stmt[r] \in Providing /\ arg[r].user = v)
      BY <1>2, <2>4 DEF Unfinished, Live
    <2>9. Provisioned'
      BY <2>1, <2>8, ProvisioningGoesOn
    <2>10. QED
      BY <1>2, <1>3, <2>1, <2>5, <2>6, <2>7, <2>9, Advancing DEF Carrying
  <1>6. QED
    BY <1>4, <1>5

\* Sessions are taken out of the table, put into the cache and evicted from it.
LEMMA SessionsChange ==
    ASSUME SignInInv, NEW r \in Requests,
           RevokeUserSessions(r) \/ CacheSession(r) \/ EvictOtherSessions(r)
    PROVE  SignInInv'
  <1> USE DEF SignInInv, SignInTypes
  <1>1. RequestSound(stmt[r], arg[r]) /\ arg[r] \in Args /\ Idle \in Args
    BY IdleArgs DEF RequestsSound
  <1>2. UNCHANGED <<invites, users, members, sso, issued, origin>> /\ sessions' \subseteq sessions
    BY DEF RevokeUserSessions, CacheSession, EvictOtherSessions, tables
  <1>3. SpentKept /\ SentHaveRoles' /\ AccountsKept
    BY <1>2 DEF SpentKept, SentHaveRoles, Spent, AccountsKept
  <1>4. stmt[r] \in {"revoke", "cache session", "evict"}
    BY DEF RevokeUserSessions, CacheSession, EvictOtherSessions, Goto
  <1>5. \A u \in Users : Unfinished(u)' => Unfinished(u) /\ stmt[r] \notin Providing
    BY <1>2, <1>4 DEF Unfinished, Live, Providing
  <1>6. RequestSound("idle", Idle)'
    BY DEF RequestSound, UserSteps, LoginSteps, InviteSteps, ProvisionSteps, Carrying
  <1>7. CASE RevokeUserSessions(r)
    <2>0. PICK x : x = arg[r]
      BY Zenon
    <2>1. stmt[r] = "revoke" /\ Advance(r, "insert session", x) /\ cached' = cached
      BY <1>1, <1>7, <2>0 DEF RevokeUserSessions, Goto, Advance, Steps, UserSteps, LoginSteps
    <2>2. SignInTypes'
      BY <1>2, <2>1 DEF Advance
    <2>3. RequestSound("insert session", x)'
      BY <1>1, <1>2, <2>0, <2>1
         DEF RequestSound, UserSteps, LoginSteps, InviteSteps, ProvisionSteps, Carrying, Stands
    <2>4. Provisioned'
      BY <1>5, <2>1, ProvisioningGoesOn
    <2>5. \A s \in cached' : s \in cached
      BY <2>1
    <2>6. QED
      BY <1>2, <1>3, <2>1, <2>2, <2>3, <2>4, <2>5, Advancing DEF Carrying
  <1>8. CASE CacheSession(r)
    <2> DEFINE new == [id |-> arg[r].session, user |-> arg[r].user, pw |-> arg[r].pw]
    <2>1. stmt[r] = "cache session" /\ Advance(r, "idle", Idle) /\ cached' = cached \cup {new}
      BY <1>1, <1>8 DEF CacheSession, Goto, Advance, Steps
    <2>2. /\ arg[r].user \in Users /\ users[arg[r].user].status # Missing
          /\ Stands(arg[r].user, arg[r].pw) /\ arg[r].session \in 1 .. issued
      BY <1>1, <2>1 DEF RequestSound, UserSteps, LoginSteps, Carrying
    <2>3. Holds(arg[r].session, arg[r].user)
      BY <2>1 DEF Holds, Carrying
    <2>4. /\ new \in Sessions /\ new.id = arg[r].session /\ new.user = arg[r].user
          /\ new.pw = arg[r].pw
      BY <1>1, <2>2 DEF Sessions, Args
    <2> HIDE DEF new
    <2>5. \A s \in cached' : \/ s \in cached
                             \/ Holds(s.id, s.user) /\ s.id \in 1 .. issued
                                /\ users[s.user].status # Missing /\ Stands(s.user, s.pw)
      BY <2>1, <2>2, <2>3, <2>4
    <2>6. SignInTypes'
      BY <1>2, <2>1, <2>4 DEF Advance
    <2>7. Provisioned'
      BY <1>5, <2>1, ProvisioningGoesOn
    <2>8. QED
      BY <1>2, <1>3, <1>6, <2>1, <2>5, <2>6, <2>7, Advancing DEF Carrying
  <1>9. CASE EvictOtherSessions(r)
    <2>1. /\ stmt[r] = "evict" /\ Advance(r, "idle", Idle)
          /\ cached' = {s \in cached : s.user # arg[r].user \/ s.id = arg[r].session}
      BY <1>1, <1>9 DEF EvictOtherSessions, Goto, Advance, Steps
    <2>2. SignInTypes'
      BY <1>2, <2>1 DEF Advance
    <2>3. \A s \in cached' : s \in cached /\ (s.user # arg[r].user \/ s.id = arg[r].session)
      BY <2>1
    <2>4. Provisioned'
      BY <1>5, <2>1, ProvisioningGoesOn
    <2>5. QED
      BY <1>2, <1>3, <1>6, <2>1, <2>2, <2>3, <2>4, Advancing DEF Carrying
  <1>10. QED
    BY <1>7, <1>8, <1>9

\* An invited user is made: of an invitation nobody else is redeeming.
LEMMA InvitedUserStep ==
    ASSUME SignInInv, NEW r \in Requests, CreateInvitedUser(r)
    PROVE  SignInInv'
  <1> USE DEF SignInInv, SignInTypes
  <1>1. RequestSound(stmt[r], arg[r]) /\ arg[r] \in Args /\ Idle \in Args
    BY IdleArgs DEF RequestsSound
  <1>2. stmt[r] = "invited user" /\ UNCHANGED <<invites, members, sessions, sso, cached, issued>>
    BY DEF CreateInvitedUser, tables
  <1>3. CASE ~EmailFree(arg[r].email)
    <2>1. Advance(r, "idle", Idle) /\ UNCHANGED <<users, origin>>
      BY <1>1, <1>3 DEF CreateInvitedUser, Goto, Advance, Steps, tables
    <2>2. QED
      BY <1>2, <2>1, IdleSound, Moving DEF Carrying, Providing
  <1>4. CASE EmailFree(arg[r].email)
    <2> DEFINE row == [email |-> arg[r].email, pw |-> arg[r].pw, ext |-> FALSE, status |-> "live"]
               j == arg[r].invite
    <2>1. PICK u \in Users :
             /\ users[u].status = Missing
             /\ users' = [users EXCEPT ![u] = row]
             /\ origin' = [origin EXCEPT ![u] = j]
             /\ Goto(r, "invited user", "invited member", [arg[r] EXCEPT !.user = u])
      BY <1>4 DEF CreateInvitedUser
    <2>2. PICK x : x = [arg[r] EXCEPT !.user = u]
      BY Zenon
    <2>3. x \in Args /\ x.user = u /\ x.role = arg[r].role
      BY <1>1, <2>2 DEF Args
    <2>4. /\ stmt' = [stmt EXCEPT ![r] = "invited member"] /\ arg' = [arg EXCEPT ![r] = x]
          /\ stmt'[r] = "invited member" /\ arg'[r] = x
          /\ \A q \in Requests \ {r} : stmt'[q] = stmt[q] /\ arg'[q] = arg[q]
      BY <2>1, <2>2, <2>3 DEF Goto
    <2>5. row \in [email : Emails \cup {Missing}, pw : Credentials, ext : BOOLEAN,
                   status : {Missing, "live", "deleted"}] /\ row.status = "live" /\ row.ext = FALSE
      BY <1>1 DEF Args
    <2> HIDE DEF row
    <2>6. /\ j \in Invites /\ arg[r].role \in Roles /\ Spent(j)
          /\ \A v \in Users : origin[v] # j
      BY <1>1, <1>2 DEF RequestSound, InviteSteps
    <2>7. SignInTypes'
      <3>1. stmt' \in [Requests -> Steps] /\ arg' \in [Requests -> Args]
        BY <2>3, <2>4 DEF Steps, UserSteps
      <3>2. users' \in [Users -> [email : Emails \cup {Missing}, pw : Credentials, ext : BOOLEAN,
                                  status : {Missing, "live", "deleted"}]]
        BY <2>1, <2>5
      <3>3. origin' \in [Users -> Invites \cup {Missing}]
        BY <2>1, <2>6
      <3>4. QED
        BY <1>2, <3>1, <3>2, <3>3
    <2>8. AccountsKept /\ users'[u] = row /\ \A v \in Users : v # u => users'[v] = users[v]
      BY <2>1 DEF AccountsKept
    <2>9. RequestsSound'
      <3> SUFFICES ASSUME NEW q \in Requests PROVE RequestSound(stmt[q], arg[q])'
        BY DEF RequestsSound
      <3>1. CASE q = r
        BY <2>3, <2>4, <2>5, <2>6, <2>8, <3>1
           DEF RequestSound, UserSteps, LoginSteps, InviteSteps, ProvisionSteps, Carrying, Missing
      <3>2. CASE q # r
        <4>1. stmt'[q] = stmt[q] /\ arg'[q] = arg[q] /\ RequestSound(stmt[q], arg[q])
          BY <2>4, <3>2 DEF RequestsSound
        <4>2. stmt[q] = "invited user" =>
                 arg[q].invite # j /\ Spent(arg[q].invite) /\ \A v \in Users : origin[v] # arg[q].invite
          BY <1>2, <3>2, <4>1 DEF InvitesApart, RequestSound
        <4>3. stmt[q] = "invited user" =>
                 Spent(arg[q].invite)' /\ \A v \in Users : origin'[v] # arg[q].invite
          BY <1>2, <2>1, <4>1, <4>2 DEF Spent
        <4>4. stmt[q] \in UserSteps => arg[q].user \in Users /\ users'[arg[q].user].status # Missing
          BY <4>1, <2>8 DEF RequestSound, AccountsKept
        <4>5. stmt[q] \in LoginSteps => Stands(arg[q].user, arg[q].pw)'
          <5>1. stmt[q] \in LoginSteps => users'[arg[q].user].pw = users[arg[q].user].pw
            BY <2>8, <4>1, <4>4 DEF RequestSound, AccountsKept, UserSteps
          <5>2. QED
            BY <4>1, <5>1 DEF RequestSound, Stands
        <4>6. stmt[q] \in Carrying => arg[q].session \in 1 .. issued'
          BY <1>2, <4>1 DEF RequestSound
        <4>7. /\ stmt[q] \in InviteSteps => arg[q].role \in Roles
              /\ stmt[q] \in {"redeem", "invited user"} => arg[q].invite \in Invites
              /\ stmt[q] \in ProvisionSteps => arg[q].pw = "sso"
          BY <4>1 DEF RequestSound
        <4>8. QED
          BY <4>1, <4>3, <4>4, <4>5, <4>6, <4>7 DEF RequestSound, Spent, Stands
      <3>3. QED
        BY <3>1, <3>2
    <2>10. InvitesApart'
      <3>1. \A p, q \in Requests :
               stmt'[p] = "invited user" /\ stmt'[q] = "invited user" /\ p # q
                  => arg'[p].invite # arg'[q].invite
        BY <2>4 DEF InvitesApart
      <3>2. \A v, w \in Users : origin'[v] # Missing /\ origin'[v] = origin'[w] => v = w
        BY <2>1, <2>6 DEF InvitesApart
      <3>3. \A v \in Users : origin'[v] # Missing => Spent(origin[v])'
        BY <1>2, <2>1, <2>6 DEF InvitesApart, Spent
      <3>4. QED
        BY <3>1, <3>2, <3>3 DEF InvitesApart, Spent
    <2>11. SessionsBelong'
      <3>1. ASSUME NEW k, NEW v, Holds(k, v)' PROVE Holds(k, v)
        <4>1. CASE \E s \in sessions \cup cached : s.id = k /\ s.user = v
          BY <4>1 DEF Holds
        <4>2. CASE \E q \in Requests : stmt'[q] \in Carrying /\ arg'[q].session = k /\ arg'[q].user = v
          <5>1. PICK q \in Requests : stmt'[q] \in Carrying /\ arg'[q].session = k /\ arg'[q].user = v
            BY <4>2
          <5>2. q # r
            BY <2>4, <5>1 DEF Carrying
          <5>3. QED
            BY <2>4, <5>1, <5>2 DEF Holds
        <4>3. QED
          BY <1>2, <3>1, <4>1, <4>2 DEF Holds
      <3>2. \A s \in sessions \cup cached : users'[s.user].status # Missing
        BY <2>8 DEF SessionsBelong, AccountsKept, Sessions
      <3>3. QED
        BY <1>2, <3>1, <3>2 DEF SessionsBelong
    <2>12. PasswordsStand'
      <3>1. \A s \in sessions \cup cached : Stands(s.user, s.pw) => Stands(s.user, s.pw)'
        BY <2>8 DEF SessionsBelong, AccountsKept, Sessions, Stands
      <3>2. ASSUME NEW s \in cached, Evicting(s) PROVE Evicting(s)'
        <4>1. PICK q \in Requests : stmt[q] = "evict" /\ arg[q].user = s.user /\ arg[q].session # s.id
          BY <3>2 DEF Evicting
        <4>2. q # r
          BY <1>2, <4>1
        <4>3. stmt'[q] = "evict" /\ arg'[q].user = s.user /\ arg'[q].session # s.id
          BY <2>4, <4>1, <4>2
        <4>4. QED
          BY <4>3, Zenon DEF Evicting
      <3>3. QED
        BY <1>2, <3>1, <3>2 DEF PasswordsStand
    <2>13. Provisioned'
      <3>1. PICK n : n = "invited member"
        BY Zenon
      <3>2. Advance(r, n, x)
        BY <2>3, <2>4, <3>1 DEF Advance, Steps, UserSteps
      <3>3. \A v \in Users : Unfinished(v)' =>
                Unfinished(v) /\ ~(stmt[r] \in Providing /\ arg[r].user = v)
        BY <1>2, <2>5, <2>8 DEF Unfinished, Live, Providing
      <3>4. QED
        BY <3>2, <3>3, ProvisioningGoesOn
    <2>14. SentHaveRoles' /\ SignInParameters'
      BY <1>2 DEF SentHaveRoles, SignInParameters
    <2>15. QED
      BY <2>7, <2>9, <2>10, <2>11, <2>12, <2>13, <2>14
  <1>5. QED
    BY <1>3, <1>4

\* A session is inserted, under an id nobody has.
LEMMA InsertSessionStep ==
    ASSUME SignInInv, NEW r \in Requests, InsertSession(r)
    PROVE  SignInInv'
  <1> USE DEF SignInInv, SignInTypes
  <1> DEFINE new == [id |-> issued', user |-> arg[r].user, pw |-> arg[r].pw]
  <1>1. RequestSound(stmt[r], arg[r]) /\ arg[r] \in Args
    BY DEF RequestsSound
  <1>2. /\ stmt[r] = "insert session" /\ issued' = issued + 1
        /\ UNCHANGED <<invites, users, members, sso, cached, origin>>
        /\ sessions' = sessions \cup {new}
    BY DEF InsertSession, Goto
  <1> /\ issued' \in Nat /\ issued' \in 1 .. issued'
      /\ \A k \in 1 .. issued : k \in 1 .. issued'
    <2>1. issued \in Nat /\ issued' = issued + 1
      BY <1>2
    <2> QED
      BY ONLY <2>1
  <1>3. PICK x : x = [arg[r] EXCEPT !.session = issued']
    BY Zenon
  <1>4. x \in Args /\ x.session = issued' /\ x.user = arg[r].user /\ x.pw = arg[r].pw
    BY <1>1, <1>2, <1>3 DEF Args
  <1>5. /\ stmt'[r] = "load session" /\ arg'[r] = x
        /\ \A q \in Requests \ {r} : stmt'[q] = stmt[q] /\ arg'[q] = arg[q]
        /\ stmt' \in [Requests -> Steps] /\ arg' \in [Requests -> Args]
    BY <1>3, <1>4 DEF InsertSession, Goto, Steps, UserSteps, LoginSteps
  <1>6. /\ arg[r].user \in Users /\ users[arg[r].user].status # Missing
        /\ Stands(arg[r].user, arg[r].pw)
    BY <1>1, <1>2 DEF RequestSound, UserSteps, LoginSteps
  <1>7. /\ new \in Sessions /\ new.id = issued + 1 /\ new.user = arg[r].user
        /\ new.pw = arg[r].pw
    BY <1>1, <1>2, <1>6 DEF Sessions, Args
  <1> HIDE DEF new
  <1>8. SignInTypes'
    BY <1>2, <1>5, <1>7
  <1>9. RequestsSound'
    <2> SUFFICES ASSUME NEW q \in Requests PROVE RequestSound(stmt[q], arg[q])'
      BY DEF RequestsSound
    <2>1. CASE q = r
      <3>1. stmt'[q] = "load session" /\ arg'[q] = x /\ x.session \in 1 .. issued'
        BY <1>2, <1>4, <1>5, <2>1
      <3>2. QED
        BY <1>2, <1>4, <1>6, <3>1
           DEF RequestSound, UserSteps, LoginSteps, InviteSteps, ProvisionSteps, Carrying, Stands
    <2>2. CASE q # r
      <3>1. stmt'[q] = stmt[q] /\ arg'[q] = arg[q] /\ RequestSound(stmt[q], arg[q])
        BY <1>5, <2>2 DEF RequestsSound
      <3>2. stmt[q] \in Carrying => arg[q].session \in 1 .. issued'
        BY <1>2, <3>1 DEF RequestSound
      <3>3. QED
        BY <1>2, <3>1, <3>2 DEF RequestSound, Stands, Spent
    <2>3. QED
      BY <2>1, <2>2
  <1>10. InvitesApart'
    <2>1. \A p, q \in Requests :
             stmt'[p] = "invited user" /\ stmt'[q] = "invited user" /\ p # q
                => arg'[p].invite # arg'[q].invite
      BY <1>5 DEF InvitesApart
    <2>2. QED
      BY <1>2, <2>1 DEF InvitesApart, Spent
  <1>11. ASSUME NEW k \in 1 .. issued', NEW u \in Users, Holds(k, u)'
         PROVE  (k \in 1 .. issued /\ Holds(k, u)) \/ (k = issued + 1 /\ u = arg[r].user)
    <2>1. CASE \E s \in sessions' \cup cached' : s.id = k /\ s.user = u
      <3>1. PICK s \in sessions' \cup cached' : s.id = k /\ s.user = u
        BY <2>1
      <3>2. CASE s = new
        BY <1>7, <3>1, <3>2
      <3>3. CASE s \in sessions \cup cached
        BY <3>1, <3>3 DEF Holds, SessionsBelong
      <3>4. QED
        BY <1>2, <3>1, <3>2, <3>3
    <2>2. CASE \E q \in Requests : stmt'[q] \in Carrying /\ arg'[q].session = k /\ arg'[q].user = u
      <3>1. PICK q \in Requests : stmt'[q] \in Carrying /\ arg'[q].session = k /\ arg'[q].user = u
        BY <2>2
      <3>2. CASE q = r
        BY <1>2, <1>4, <1>5, <3>1, <3>2
      <3>3. CASE q # r
        <4>1. stmt[q] \in Carrying /\ arg[q].session = k /\ arg[q].user = u
          BY <1>5, <3>1, <3>3
        <4>2. k \in 1 .. issued
          BY <4>1 DEF RequestsSound, RequestSound
        <4>3. Holds(k, u)
          BY <4>1 DEF Holds
        <4>4. QED
          BY <4>2, <4>3
      <3>4. QED
        BY <3>2, <3>3
    <2>3. QED
      BY <1>11, <2>1, <2>2 DEF Holds
  <1>12. SessionsBelong'
    <2>1. ASSUME NEW k \in 1 .. issued', NEW u \in Users, NEW v \in Users, Holds(k, u)', Holds(k, v)'
          PROVE  u = v
      <3>1. CASE k = issued + 1
        <4>1. k \notin 1 .. issued
          BY <3>1
        <4>2. QED
          BY <1>11, <2>1, <4>1
      <3>2. CASE k # issued + 1
        BY <1>11, <2>1, <3>2 DEF SessionsBelong
      <3>3. QED
        BY <3>1, <3>2
    <2>2. ASSUME NEW s \in sessions' \cup cached'
          PROVE  s.id \in 1 .. issued' /\ users'[s.user].status # Missing
      BY <1>2, <1>6, <1>7 DEF SessionsBelong
    <2>3. QED
      BY <2>1, <2>2 DEF SessionsBelong
  <1>13. PasswordsStand'
    <2>1. ASSUME NEW s \in cached, Evicting(s) PROVE Evicting(s)'
      <3>1. PICK q \in Requests : stmt[q] = "evict" /\ arg[q].user = s.user /\ arg[q].session # s.id
        BY <2>1 DEF Evicting
      <3>2. q # r
        BY <1>2, <3>1
      <3>3. stmt'[q] = "evict" /\ arg'[q].user = s.user /\ arg'[q].session # s.id
        BY <1>5, <3>1, <3>2
      <3>4. QED
        BY <3>3, Zenon DEF Evicting
    <2>2. \A s \in sessions' : Stands(s.user, s.pw)'
      BY <1>2, <1>6, <1>7 DEF PasswordsStand, Stands
    <2>3. QED
      BY <1>2, <2>1, <2>2 DEF PasswordsStand, Stands
  <1>14. Provisioned'
    <2>1. PICK n : n = "load session"
      BY Zenon
    <2>2. Advance(r, n, x)
      BY <1>3, <1>4, <2>1 DEF InsertSession, Goto, Advance, Steps, UserSteps, LoginSteps
    <2>3. \A v \in Users : Unfinished(v)' =>
              Unfinished(v) /\ ~(stmt[r] \in Providing /\ arg[r].user = v)
      BY <1>2 DEF Unfinished, Live, Providing
    <2>4. QED
      BY <2>2, <2>3, ProvisioningGoesOn
  <1>15. SentHaveRoles' /\ SignInParameters'
    BY <1>2 DEF SentHaveRoles, SignInParameters
  <1>16. QED
    BY <1>8, <1>9, <1>10, <1>12, <1>13, <1>14, <1>15

\* The password changes: the user's other sessions leave the table in the same
\* transaction, their copies in the cache are evicted next, and a login that was
\* under way counts as late.
LEMMA ChangePasswordStep ==
    ASSUME SignInInv, NEW r \in Requests, ChangePasswordAndRevokeOtherSessions(r)
    PROVE  SignInInv'
  <1> USE DEF SignInInv, SignInTypes
  <1> DEFINE u == arg[r].user
             own(s) == IF s.id = arg[r].session THEN [s EXCEPT !.pw = arg[r].pw] ELSE s
  <1>1. RequestSound(stmt[r], arg[r]) /\ arg[r] \in Args /\ Idle \in Args
    BY IdleArgs DEF RequestsSound
  <1>2. stmt[r] = "change" /\ UNCHANGED <<invites, members, sso, issued, origin>>
    BY DEF ChangePasswordAndRevokeOtherSessions
  <1>3. u \in Users /\ users[u].status # Missing /\ arg[r].session \in 1 .. issued
    BY <1>1, <1>2 DEF RequestSound, UserSteps, Carrying
  <1>4. CASE ~Live(u)
    <2>1. Advance(r, "idle", Idle) /\ UNCHANGED <<users, sessions, cached>>
      BY <1>1, <1>4 DEF ChangePasswordAndRevokeOtherSessions, Goto, Advance, Steps
    <2>2. QED
      BY <1>2, <2>1, IdleSound, Moving DEF Carrying, Providing
  <1>5. CASE Live(u)
    <2>1. /\ users' = [users EXCEPT ![u].pw = arg[r].pw]
          /\ sessions' = {own(s) : s \in {x \in sessions : x.user # u \/ x.id = arg[r].session}}
          /\ cached' = {own(s) : s \in cached}
          /\ stmt' = [stmt EXCEPT ![r] = "evict"]
          /\ arg' = [x \in Requests |->
                        IF LoggingIn(x, u) THEN [arg[x] EXCEPT !.pw = "late"] ELSE arg[x]]
      BY <1>5 DEF ChangePasswordAndRevokeOtherSessions
    <2>2. /\ users' \in [Users -> [email : Emails \cup {Missing}, pw : Credentials, ext : BOOLEAN,
                                   status : {Missing, "live", "deleted"}]]
          /\ \A v \in Users : users'[v].status = users[v].status /\ users'[v].ext = users[v].ext
          /\ \A v \in Users : v # u => users'[v] = users[v]
          /\ users'[u].pw = arg[r].pw
      <3>1. arg[r].pw \in Credentials
        BY <1>1 DEF Args
      <3>2. QED
        BY <1>3, <2>1, <3>1
    \* A request keeps what it knows, but for the proof of a login under way.
    <2>3. ASSUME NEW q \in Requests
          PROVE  /\ arg'[q] \in Args /\ arg'[q].user = arg[q].user
                 /\ arg'[q].invite = arg[q].invite /\ arg'[q].role = arg[q].role
                 /\ arg'[q].session = arg[q].session
                 /\ IF LoggingIn(q, u) THEN arg'[q].pw = "late" ELSE arg'[q].pw = arg[q].pw
      <3>1. arg[q] \in Args
        OBVIOUS
      <3>2. CASE LoggingIn(q, u)
        <4>1. arg'[q] = [arg[q] EXCEPT !.pw = "late"]
          BY <2>1, <3>2
        <4>2. QED
          BY <3>1, <3>2, <4>1 DEF Args, Credentials
      <3>3. CASE ~LoggingIn(q, u)
        BY <2>1, <3>1, <3>3
      <3>4. QED
        BY <3>2, <3>3
    <2>4. stmt'[r] = "evict" /\ \A q \in Requests \ {r} : stmt'[q] = stmt[q]
      BY <2>1
    \* The session that asked is the user's own.
    <2>5. ASSUME NEW s \in sessions \cup cached, s.id = arg[r].session PROVE s.user = u
      <3>1. Holds(s.id, s.user)
        BY DEF Holds
      <3>2. Holds(arg[r].session, u)
        BY <1>2 DEF Holds, Carrying
      <3>3. s.user \in Users
        BY DEF Sessions
      <3>4. QED
        BY <1>3, <2>5, <3>1, <3>2, <3>3 DEF SessionsBelong
    <2>6. ASSUME NEW s \in sessions \cup cached
          PROVE  /\ own(s) \in Sessions /\ own(s).id = s.id /\ own(s).user = s.user
                 /\ s.id # arg[r].session => own(s) = s
                 /\ s.id = arg[r].session => own(s).pw = users'[s.user].pw
      <3>1. s \in Sessions /\ arg[r].pw \in Credentials
        BY <1>1 DEF Args
      <3>2. CASE s.id = arg[r].session
        BY <2>2, <2>5, <3>1, <3>2 DEF Sessions
      <3>3. CASE s.id # arg[r].session
        BY <3>1, <3>3
      <3>4. QED
        BY <3>2, <3>3
    <2> HIDE DEF own
    <2>7. SignInTypes'
      <3>1. sessions' \subseteq Sessions /\ cached' \subseteq Sessions
        BY <2>1, <2>6
      <3>2. stmt' \in [Requests -> Steps]
        BY <2>1 DEF Steps, UserSteps
      <3>3. arg' \in [Requests -> Args]
        BY <2>1, <2>3
      <3>4. QED
        BY <1>2, <2>2, <3>1, <3>2, <3>3
    <2>8. RequestsSound'
      <3> SUFFICES ASSUME NEW q \in Requests PROVE RequestSound(stmt[q], arg[q])'
        BY DEF RequestsSound
      <3>1. CASE q = r
        <4>1. ~LoggingIn(r, u)
          BY <1>2 DEF LoggingIn
        <4>2. stmt'[q] = "evict" /\ arg'[q].user = u /\ arg'[q].session = arg[r].session
          BY <2>3, <2>4, <3>1
        <4>3. QED
          BY <1>2, <1>3, <2>2, <4>2
             DEF RequestSound, UserSteps, LoginSteps, InviteSteps, ProvisionSteps, Carrying
      <3>2. CASE q # r
        <4>1. stmt'[q] = stmt[q] /\ RequestSound(stmt[q], arg[q])
          BY <2>4, <3>2 DEF RequestsSound
        <4>2. stmt[q] \in UserSteps => arg'[q].user \in Users /\ users'[arg'[q].user].status # Missing
          BY <2>2, <2>3, <4>1 DEF RequestSound
        <4>3. stmt[q] \in LoginSteps => Stands(arg[q].user, arg[q].pw)'
          <5>1. CASE stmt[q] \in LoginSteps /\ arg[q].user = u
            <6>1. arg'[q].pw = "late"
              BY <2>3, <5>1 DEF LoggingIn, LoginSteps
            <6>2. QED
              BY <6>1 DEF Stands
          <5>2. CASE stmt[q] \in LoginSteps /\ arg[q].user # u
            <6>1. arg'[q].pw = arg[q].pw /\ arg'[q].user = arg[q].user
              BY <2>3, <5>2 DEF LoggingIn
            <6>2. users'[arg[q].user] = users[arg[q].user]
              BY <2>2, <4>1, <5>2 DEF RequestSound, UserSteps
            <6>3. QED
              BY <4>1, <5>2, <6>1, <6>2 DEF RequestSound, Stands
          <5>3. QED
            BY <5>1, <5>2
        <4>4. stmt[q] \in ProvisionSteps => arg'[q].pw = "sso"
          BY <2>3, <4>1 DEF RequestSound, LoggingIn, ProvisionSteps
        <4>5. stmt[q] = "invited user" =>
                 Spent(arg[q].invite)' /\ \A v \in Users : origin'[v] # arg'[q].invite
          BY <1>2, <2>3, <4>1 DEF RequestSound, Spent
        <4>6. /\ stmt[q] \in InviteSteps => arg'[q].role \in Roles
              /\ stmt[q] \in {"redeem", "invited user"} => arg'[q].invite \in Invites
              /\ stmt[q] \in Carrying => arg'[q].session \in 1 .. issued'
          BY <1>2, <2>3, <4>1 DEF RequestSound
        <4>7. QED
          BY <4>1, <4>2, <4>3, <4>4, <4>5, <4>6 DEF RequestSound, Spent, Stands
      <3>3. QED
        BY <3>1, <3>2
    <2>9. InvitesApart'
      <3>1. ASSUME NEW p \in Requests, NEW q \in Requests, p # q,
                   stmt'[p] = "invited user", stmt'[q] = "invited user"
            PROVE  arg'[p].invite # arg'[q].invite
        <4>1. stmt[p] = "invited user" /\ stmt[q] = "invited user"
          BY <2>4, <3>1
        <4>2. arg[p].invite # arg[q].invite
          BY <3>1, <4>1 DEF InvitesApart
        <4>3. QED
          BY <2>3, <4>2
      <3>2. QED
        BY <1>2, <3>1 DEF InvitesApart, Spent
    <2>10. ASSUME NEW k, NEW v, Holds(k, v)' PROVE Holds(k, v)
      <3>1. CASE \E s \in sessions' \cup cached' : s.id = k /\ s.user = v
        <4>1. PICK s \in sessions' \cup cached' : s.id = k /\ s.user = v
          BY <3>1
        <4>2. PICK t \in sessions \cup cached : s = own(t)
          BY <2>1, <4>1
        <4>3. t.id = k /\ t.user = v
          BY <2>6, <4>1, <4>2
        <4>4. QED
          BY <4>3 DEF Holds
      <3>2. CASE \E q \in Requests : stmt'[q] \in Carrying /\ arg'[q].session = k /\ arg'[q].user = v
        <4>1. PICK q \in Requests : stmt'[q] \in Carrying /\ arg'[q].session = k /\ arg'[q].user = v
          BY <3>2
        <4>2. stmt[q] \in Carrying /\ arg[q].session = k /\ arg[q].user = v
          BY <1>2, <2>3, <2>4, <4>1 DEF Carrying
        <4>3. QED
          BY <4>2 DEF Holds
      <3>3. QED
        BY <2>10, <3>1, <3>2 DEF Holds
    <2>11. SessionsBelong'
      <3>1. ASSUME NEW s \in sessions' \cup cached'
            PROVE  s.id \in 1 .. issued' /\ users'[s.user].status # Missing
        <4>1. PICK t \in sessions \cup cached : s = own(t)
          BY <2>1
        <4>2. s.id = t.id /\ s.user = t.user /\ t.user \in Users
          BY <2>6, <4>1 DEF Sessions
        <4>3. QED
          BY <1>2, <2>2, <4>2 DEF SessionsBelong
      <3>2. QED
        BY <1>2, <2>10, <3>1 DEF SessionsBelong
    <2>12. PasswordsStand'
      <3>1. ASSUME NEW s \in sessions' PROVE Stands(s.user, s.pw)'
        <4>1. PICK t \in sessions : s = own(t) /\ (t.user # u \/ t.id = arg[r].session)
          BY <2>1
        <4>2. CASE t.id = arg[r].session
          <5>1. s.user = t.user /\ s.pw = users'[t.user].pw
            BY <2>6, <4>1, <4>2
          <5>2. QED
            BY <5>1 DEF Stands
        <4>3. CASE t.id # arg[r].session
          <5>1. s = t /\ t.user \in Users /\ t.user # u
            BY <2>6, <4>1, <4>3 DEF Sessions
          <5>2. QED
            BY <2>2, <5>1 DEF Stands, PasswordsStand
        <4>4. QED
          BY <4>2, <4>3
      <3>2. ASSUME NEW s \in cached' PROVE Stands(s.user, s.pw)' \/ Evicting(s)'
        <4>1. PICK t \in cached : s = own(t)
          BY <2>1
        <4>2. CASE t.id = arg[r].session
          <5>1. s.user = t.user /\ s.pw = users'[t.user].pw
            BY <2>6, <4>1, <4>2
          <5>2. QED
            BY <5>1 DEF Stands
        <4>3. CASE t.id # arg[r].session /\ t.user = u
          <5>1. s = t
            BY <2>6, <4>1, <4>3
          <5>2. stmt'[r] = "evict" /\ arg'[r].user = s.user /\ arg'[r].session # s.id
            BY <2>3, <2>4, <4>3, <5>1
          <5>3. QED
            BY <5>2, Zenon DEF Evicting
        <4>4. CASE t.id # arg[r].session /\ t.user # u
          <5>1. s = t /\ t.user \in Users
            BY <2>6, <4>1, <4>4 DEF Sessions
          <5>2. CASE Stands(t.user, t.pw)
            BY <2>2, <4>4, <5>1, <5>2 DEF Stands
          <5>3. CASE Evicting(t)
            <6>1. PICK q \in Requests : stmt[q] = "evict" /\ arg[q].user = t.user /\ arg[q].session # t.id
              BY <5>3 DEF Evicting
            <6>2. stmt'[q] = "evict" /\ arg'[q].user = s.user /\ arg'[q].session # s.id
              BY <1>2, <2>3, <2>4, <5>1, <6>1
            <6>3. QED
              BY <6>2, Zenon DEF Evicting
          <5>4. QED
            BY <5>2, <5>3 DEF PasswordsStand
        <4>5. QED
          BY <4>2, <4>3, <4>4
      <3>3. QED
        BY <3>1, <3>2 DEF PasswordsStand
    <2>13. Provisioned'
      <3> SUFFICES ASSUME NEW v \in Users, Unfinished(v)'
                   PROVE  \E q \in Requests : stmt'[q] \in {"provisioned member", "rollback"}
                                              /\ arg'[q].user = v
        BY DEF Provisioned, Unfinished, Live
      <3>1. Live(v) /\ users[v].ext /\ members[v] = Missing
        BY <1>2, <2>2 DEF Unfinished, Live
      <3>2. PICK q \in Requests : stmt[q] \in {"provisioned member", "rollback"} /\ arg[q].user = v
        BY <3>1 DEF Provisioned
      <3>3. QED
        BY <1>2, <2>3, <2>4, <3>2
    <2>14. SentHaveRoles' /\ SignInParameters'
      BY <1>2 DEF SentHaveRoles, SignInParameters
    <2>15. QED
      BY <2>7, <2>8, <2>9, <2>11, <2>12, <2>13, <2>14
  <1>6. QED
    BY <1>4, <1>5

-----------------------------------------------------------------------------
LEMMA SignInInitInv == SignInParameters /\ SignInInit => SignInInv
  <1> SUFFICES ASSUME SignInParameters, SignInInit PROVE SignInInv
    OBVIOUS
  <1>1. PICK e : e = CHOOSE y \in Emails : TRUE
    BY Zenon
  <1>2. PICK p : p = CHOOSE y \in Passwords : TRUE
    BY Zenon
  <1>3. e \in Emails /\ p \in Passwords
    BY <1>1, <1>2, Zenon DEF SignInParameters
  <1>4. users = [u \in Users |->
            IF u = Member THEN [email |-> e, pw |-> p, ext |-> FALSE, status |-> "live"]
                          ELSE [email |-> Missing, pw |-> Missing, ext |-> FALSE, status |-> Missing]]
    BY <1>1, <1>2 DEF SignInInit
  <1>5. SignInTypes
    <2>1. invites \in [Invites -> InviteRows]
      BY DEF SignInInit, InviteRows
    <2>2. users \in [Users -> [email : Emails \cup {Missing}, pw : Credentials, ext : BOOLEAN,
                               status : {Missing, "live", "deleted"}]]
      BY <1>3, <1>4 DEF Credentials
    <2>3. members \in [Users -> Roles \cup {Missing}]
      BY DEF SignInInit, Roles
    <2>4. sso \in [there : BOOLEAN, secret : Secrets]
      BY DEF SignInInit, Secrets
    <2>5. stmt \in [Requests -> Steps] /\ arg \in [Requests -> Args]
      BY IdleArgs DEF SignInInit, Steps
    <2>6. sessions \subseteq Sessions /\ cached \subseteq Sessions /\ issued \in Nat
      BY DEF SignInInit
    <2>7. origin \in [Users -> Invites \cup {Missing}]
      BY DEF SignInInit
    <2>8. QED
      BY <2>1, <2>2, <2>3, <2>4, <2>5, <2>6, <2>7 DEF SignInTypes
  <1>6. SentHaveRoles /\ InvitesApart
    BY DEF SignInInit, SentHaveRoles, InvitesApart
  <1>7. RequestsSound
    BY IdleSound DEF SignInInit, RequestsSound
  <1>8. SessionsBelong /\ PasswordsStand
    BY DEF SignInInit, SessionsBelong, PasswordsStand
  <1>9. Provisioned
    <2>1. \A u \in Users : users[u].ext = FALSE
      BY <1>4
    <2>2. QED
      BY <2>1 DEF Provisioned
  <1>10. QED
    BY <1>5, <1>6, <1>7, <1>8, <1>9 DEF SignInInv

LEMMA SignInStep == SignInInv /\ [SignInNext]_signInVars => SignInInv'
  <1> SUFFICES ASSUME SignInInv, [SignInNext]_signInVars PROVE SignInInv'
    OBVIOUS
  <1>1. CASE UNCHANGED signInVars
    <2>1. UNCHANGED <<invites, users, members, sessions, sso, cached, stmt, arg, issued, origin>>
      BY <1>1 DEF signInVars, tables
    <2>2. SignInTypes' /\ SentHaveRoles' /\ SpentKept /\ cached' \subseteq cached \cup sessions
      BY <2>1 DEF SignInInv, SignInTypes, SentHaveRoles, SpentKept, Spent
    <2>3. QED
      BY <2>1, <2>2, Standing
  <1>2. ASSUME NEW r \in Requests,
               \/ CreateInvite(r) \/ RedeemInviteToken(r) \/ CreateInvitedUser(r) \/ CreateInvitedMember(r)
               \/ ResolveUserRole(r) \/ RevokeUserSessions(r) \/ InsertSession(r) \/ LoadSession(r)
               \/ CacheSession(r) \/ OIDCCallback(r) \/ Provision(r) \/ ProvisionMember(r)
               \/ RollbackUser(r) \/ SyncGroups(r) \/ ChangePasswordAndRevokeOtherSessions(r)
               \/ EvictOtherSessions(r) \/ UpsertOrgSSOConfig(r)
        PROVE  SignInInv'
    BY <1>2, InvitationsChange, InvitedUserStep, MembersChange, SignInMoves, SessionsChange,
       InsertSessionStep, SignInBegins, ProvisioningChanges, ChangePasswordStep
  <1>3. CASE \E r \in Requests, e \in Emails, role \in {"member", "org_admin"} :
                RevokeInviteTokensByEmail(r, e, role)
    BY <1>3, InvitationsChange DEF Roles
  <1>4. CASE \/ \E r \in Requests, i \in Invites, pw \in Passwords : RedeemInvite(r, i, pw)
             \/ \E r \in Requests, u \in Users, pw \in Passwords : Login(r, u, pw)
             \/ \E r \in Requests, s \in cached, pw \in Passwords : ChangeOwnPassword(r, s, pw)
             \/ \E r \in Requests, secret \in {Missing, "s1"} : resolveSecretEnc(r, secret)
    BY <1>4, SignInBegins
  <1>5. CASE (\E i \in Invites : RevokeInvite(i) \/ ExpireInvite(i)) \/ Refresh \/ DeleteOrgSSOConfig
    BY <1>5, SignInStands
  <1>6. QED
    BY <1>1, <1>2, <1>3, <1>4, <1>5 DEF SignInNext

\* The inductive invariant of sign-in: what every request knows is sound, ids of
\* sessions belong to one user, and only an eviction under way leaves a cached
\* session behind its user's password.
THEOREM SignInInvariance == SignInParameters /\ SignInSpec => []SignInInv
  <1>1. QED
    BY SignInInitInv, SignInStep, PTL DEF SignInSpec

\* An invitation makes at most one account, and a provisioned user gets its
\* membership or is taken back (invite handlers, sso provisioning), however many
\* requests redeem or provision at the same time.
THEOREM InvitationsMakeOneUser == SignInParameters /\ SignInSpec => []OneUserPerInvitation
  <1>1. SignInInv => OneUserPerInvitation
    <2> SUFFICES ASSUME SignInInv PROVE InviteOnce /\ Provisioned
      BY DEF OneUserPerInvitation
    <2>1. \A r \in Requests : stmt[r] = "invited user" => \A u \in Users : origin[u] # arg[r].invite
      BY DEF SignInInv, RequestsSound, RequestSound
    <2>2. \A u \in Users : origin[u] # Missing => invites[origin[u]].state # "open"
      BY DEF SignInInv, InvitesApart, Spent
    <2>3. QED
      BY <2>1, <2>2 DEF SignInInv, InviteOnce, InvitesApart
  <1>2. QED
    BY <1>1, SignInInvariance, PTL

\* After a change of password no session of the user rests on the old one, in the
\* table or in the cache (ChangePasswordAndRevokeOtherSessions and the eviction).
THEOREM OldPasswordsAreOut == SignInParameters /\ SignInSpec => []OldPasswordOut
  <1>1. SignInInv => OldPasswordOut
    BY DEF SignInInv, PasswordsStand, Stands, Evicting, OldPasswordOut
  <1>2. QED
    BY <1>1, SignInInvariance, PTL

-----------------------------------------------------------------------------
(* The request rate limiter.                                               *)

HeapEntries == [count : Nat, windowStart : Int, mu : Procs \cup {Free}]
Running == {"window", "count", "swap", "lock", "reset"}
Calls == [pc : {"lookup"} \cup Running, s : KeyScopes, t : 1 .. MaxMinutes, i : 1 .. 8,
          e : 0 .. MaxEntries, cur : Nat]

RateTypes ==
    /\ clock \in 1 .. MaxMinutes
    /\ table \in [Counters -> 0 .. MaxEntries] /\ gen \in [Counters -> 0 .. MaxEntries]
    /\ heap \in [Entries -> HeapEntries] /\ granted \in [Entries -> Nat]
    /\ proc \in [Procs -> Calls \cup {NoCall}]

\* A call stands at a counter that is limited, has found its entry, and swaps
\* only from a count below the limit.
CallSound(c) ==
    c # NoCall =>
        /\ c.i \in After(c.s, 0)
        /\ c.pc \in Running => c.e # 0
        /\ c.pc = "swap" => c.cur < Limit[checks(c.s)[c.i]]

\* There is room for an entry where the table has none; what is being evicted is
\* in the table, and will leave such room.
RoomForEntries ==
    /\ \A c \in Counters : table[c] = 0 => gen[c] < MaxEntries
    /\ evictor # Asleep =>
          /\ evictor \in [pc : {"range"}, t : Nat, todo : SUBSET Counters, doomed : SUBSET Counters]
          /\ \A c \in evictor.todo \cup evictor.doomed : table[c] # 0
          /\ \A c \in evictor.doomed : gen[c] < MaxEntries /\ c \notin evictor.todo

RateInv ==
    /\ RateParameters /\ RateTypes
    /\ \A p \in Procs : CallSound(proc[p])
    /\ RoomForEntries /\ CountIsExact

LEMMA FirstIsIn ==
    ASSUME NEW S \in SUBSET (1 .. 8), S # {}
    PROVE  First(S) \in S
  <1>1. \E i \in S : \A j \in S : i <= j
    <2>1. \A i \in S : i \in {1, 2, 3, 4, 5, 6, 7, 8}
      OBVIOUS
    <2>2. CASE 1 \in S
      BY <2>1, <2>2
    <2>3. CASE 1 \notin S /\ 2 \in S
      BY <2>1, <2>3
    <2>4. CASE 1 \notin S /\ 2 \notin S /\ 3 \in S
      BY <2>1, <2>4
    <2>5. CASE 1 \notin S /\ 2 \notin S /\ 3 \notin S /\ 4 \in S
      BY <2>1, <2>5
    <2>6. CASE 1 \notin S /\ 2 \notin S /\ 3 \notin S /\ 4 \notin S
      <3>1. \A i \in S : i \in {5, 6, 7, 8}
        BY <2>1, <2>6
      <3>2. CASE 5 \in S
        BY <3>1, <3>2
      <3>3. CASE 5 \notin S /\ 6 \in S
        BY <3>1, <3>3
      <3>4. CASE 5 \notin S /\ 6 \notin S /\ 7 \in S
        BY <3>1, <3>4
      <3>5. CASE 5 \notin S /\ 6 \notin S /\ 7 \notin S
        <4>1. \A i \in S : i = 8
          BY <3>1, <3>5
        <4>2. 8 \in S
          BY <4>1
        <4>3. QED
          BY <4>1, <4>2
      <3>6. QED
        BY <3>2, <3>3, <3>4, <3>5
    <2>7. QED
      BY <2>2, <2>3, <2>4, <2>5, <2>6
  <1>2. QED
    BY <1>1, Zenon DEF First

\* The counters a call consults are limited ones.
LEMMA ConsultedAreLimited ==
    ASSUME RateParameters, NEW s, NEW i \in 0 .. 8, NEW j \in After(s, i)
    PROVE  /\ j \in 1 .. 8 /\ j \in After(s, 0)
           /\ checks(s)[j] \in Counters /\ Limit[checks(s)[j]] \in Nat /\ Limit[checks(s)[j]] > 0
  <1>1. /\ j \in (i + 1) .. 8 /\ checks(s)[j][2] # ""
        /\ checks(s)[j] \in Counters /\ Limit[checks(s)[j]] > 0
    BY Zenon DEF After
  <1>2. j \in 1 .. 8 /\ j \in (0 + 1) .. 8
    <2>1. i \in 0 .. 8 /\ j \in (i + 1) .. 8
      BY <1>1
    <2>2. QED
      BY ONLY <2>1
  <1>3. j \in After(s, 0)
    BY <1>1, <1>2, Zenon DEF After
  <1>4. Limit[checks(s)[j]] \in Nat
    BY <1>1 DEF RateParameters
  <1>5. QED
    BY <1>1, <1>2, <1>3, <1>4

\* What a call in progress has in hand.
LEMMA CallInHand ==
    ASSUME RateInv, NEW p \in Procs, proc[p] # NoCall
    PROVE  /\ proc[p] \in Calls /\ Counter(p) \in Counters
           /\ Limit[Counter(p)] \in Nat /\ Limit[Counter(p)] > 0
           /\ proc[p].pc \in Running => Entry(p) \in Entries /\ proc[p].e # 0
           /\ proc[p].pc = "swap" => proc[p].cur < Limit[Counter(p)]
  <1>1. proc[p] \in Calls /\ CallSound(proc[p])
    BY DEF RateInv, RateTypes
  <1>2. Counter(p) \in Counters /\ Limit[Counter(p)] \in Nat /\ Limit[Counter(p)] > 0
    <2>1. proc[p].i \in After(proc[p].s, 0)
      BY <1>1 DEF CallSound
    <2>2. QED
      BY <2>1, ConsultedAreLimited DEF Counter, RateInv
  <1>3. proc[p].pc \in Running => proc[p].e \in 1 .. MaxEntries /\ proc[p].e # 0
    BY <1>1 DEF CallSound, Calls, RateInv, RateParameters
  <1>4. proc[p].pc \in Running => Entry(p) \in Entries
    BY <1>2, <1>3 DEF Entry, Entries
  <1>5. proc[p].pc = "swap" => proc[p].cur < Limit[Counter(p)]
    BY <1>1 DEF CallSound, Counter
  <1>6. QED
    BY <1>1, <1>2, <1>3, <1>4, <1>5

\* One call moves on, to where it is sound again.
LEMMA CallMoves ==
    ASSUME RateInv, NEW p \in Procs, NEW c \in Calls \cup {NoCall}, CallSound(c),
           proc' = [proc EXCEPT ![p] = c]
    PROVE  proc' \in [Procs -> Calls \cup {NoCall}] /\ \A q \in Procs : CallSound(proc[q])'
  <1>1. proc' \in [Procs -> Calls \cup {NoCall}]
    BY DEF RateInv, RateTypes
  <1>2. \A q \in Procs : CallSound(proc'[q])
    BY DEF RateInv, RateTypes
  <1>3. QED
    BY <1>1, <1>2 DEF CallSound

\* A call that got through goes on to a limited counter, or returns.
LEMMA PassedIsSound ==
    ASSUME RateInv, NEW p \in Procs, proc[p] # NoCall
    PROVE  Passed(p) \in Calls \cup {NoCall} /\ CallSound(Passed(p))
  <1> DEFINE left == After(proc[p].s, proc[p].i)
             j == First(left)
             next == [proc[p] EXCEPT !.pc = "lookup", !.i = j, !.e = 0, !.cur = 0]
  <1>1. proc[p] \in Calls /\ RateParameters
    BY CallInHand DEF RateInv
  <1>2. proc[p].i \in 0 .. 8
    BY <1>1 DEF Calls
  <1>3. CASE left = {}
    BY <1>3 DEF Passed, CallSound
  <1>4. CASE left # {}
    <2>1. left \in SUBSET (1 .. 8)
      BY <1>1, <1>2, ConsultedAreLimited
    <2>2. j \in left
      BY <1>4, <2>1, FirstIsIn
    <2>3. j \in 1 .. 8 /\ j \in After(proc[p].s, 0)
      BY <1>1, <1>2, <2>2, ConsultedAreLimited
    <2> HIDE DEF j, left
    <2> 0 \in 0 .. MaxEntries
      BY <1>1 DEF RateParameters
    <2>4. next \in Calls /\ next.s = proc[p].s /\ next.i = j /\ next.pc = "lookup"
      BY <1>1, <2>3 DEF Calls
    <2> HIDE DEF next
    <2>5. CallSound(next)
      BY <2>3, <2>4 DEF CallSound, Running
    <2>6. Passed(p) = next
      BY <1>4 DEF Passed, left, j, next
    <2>7. QED
      BY <2>4, <2>5, <2>6
  <1>5. QED
    BY <1>3, <1>4

-----------------------------------------------------------------------------
LEMMA CallStep ==
    ASSUME RateInv, NEW p \in Procs, CallCheckRate(p)
    PROVE  RateInv'
  <1> USE DEF RateInv
  <1>1. UNCHANGED <<clock, table, gen, heap, evictor, granted>>
    BY DEF CallCheckRate
  <1>2. PICK s \in KeyScopes :
           /\ After(s, 0) # {}
           /\ proc' = [proc EXCEPT ![p] =
                 [pc |-> "lookup", s |-> s, t |-> clock, i |-> First(After(s, 0)), e |-> 0, cur |-> 0]]
    BY DEF CallCheckRate
  <1>3. After(s, 0) \in SUBSET (1 .. 8)
    BY ConsultedAreLimited
  <1>4. PICK j : j = First(After(s, 0))
    BY Zenon
  <1>5. j \in 1 .. 8 /\ j \in After(s, 0)
    BY <1>2, <1>3, <1>4, FirstIsIn
  <1> DEFINE c == [pc |-> "lookup", s |-> s, t |-> clock, i |-> j, e |-> 0, cur |-> 0]
  <1>6. c \in Calls /\ c.s = s /\ c.i = j /\ c.pc = "lookup"
    BY <1>5 DEF Calls, RateTypes, RateParameters
  <1>7. proc' = [proc EXCEPT ![p] = c]
    BY <1>2, <1>4
  <1> HIDE DEF c
  <1>8. CallSound(c)
    BY <1>5, <1>6 DEF CallSound, Running
  <1>9. proc' \in [Procs -> Calls \cup {NoCall}] /\ \A q \in Procs : CallSound(proc[q])'
    BY <1>6, <1>7, <1>8, CallMoves
  <1>10. RateTypes' /\ RoomForEntries' /\ CountIsExact'
    BY <1>1, <1>9 DEF RateTypes, RoomForEntries, CountIsExact
  <1>11. QED
    BY <1>9, <1>10 DEF RateParameters

LEMMA LoadOrCreateStep ==
    ASSUME RateInv, NEW p \in Procs, loadOrCreate(p)
    PROVE  RateInv'
  <1> USE DEF RateInv
  <1> DEFINE c == Counter(p)
             e == IF table[c] = 0 THEN gen[c] + 1 ELSE table[c]
             q == [proc[p] EXCEPT !.pc = "window", !.e = e]
  <1>1. /\ proc[p].pc = "lookup" /\ UNCHANGED <<clock, heap, evictor, granted>>
        /\ table' = [table EXCEPT ![c] = e]
        /\ gen' = [gen EXCEPT ![c] = IF table[c] = 0 THEN e ELSE @]
        /\ proc' = [proc EXCEPT ![p] = q]
    BY DEF loadOrCreate
  <1>2. proc[p] # NoCall
    BY <1>1 DEF NoCall
  <1>3. c \in Counters /\ proc[p] \in Calls /\ CallSound(proc[p])
    BY <1>2, CallInHand
  <1>4. e \in 1 .. MaxEntries
    <2>1. table[c] \in 0 .. MaxEntries /\ gen[c] \in 0 .. MaxEntries /\ MaxEntries \in Nat
      BY <1>3 DEF RateTypes, RateParameters
    <2>2. table[c] = 0 => gen[c] < MaxEntries
      BY <1>3 DEF RoomForEntries
    <2>3. QED
      BY <2>1, <2>2
  <1>5. RoomForEntries'
    <2>1. \A d \in Counters : table'[d] = 0 => gen'[d] < MaxEntries
      BY <1>1, <1>3, <1>4 DEF RoomForEntries, RateTypes
    <2>2. \A d \in Counters : table[d] # 0 => table'[d] # 0 /\ gen'[d] = gen[d]
      BY <1>1, <1>3, <1>4 DEF RateTypes
    <2>3. evictor # Asleep => evictor.todo \subseteq Counters /\ evictor.doomed \subseteq Counters
      BY DEF RoomForEntries
    <2>4. QED
      BY <1>1, <2>1, <2>2, <2>3 DEF RoomForEntries
  <1>6. table' \in [Counters -> 0 .. MaxEntries] /\ gen' \in [Counters -> 0 .. MaxEntries]
    BY <1>1, <1>3, <1>4 DEF RateTypes
  <1> e \in 0 .. MaxEntries
    BY <1>4
  <1> HIDE DEF e, c
  <1>7. q \in Calls /\ q.s = proc[p].s /\ q.i = proc[p].i /\ q.e = e /\ q.pc = "window"
    BY <1>3 DEF Calls, Running
  <1> HIDE DEF q
  <1>8. CallSound(q)
    BY <1>2, <1>3, <1>4, <1>7 DEF CallSound
  <1>9. proc' \in [Procs -> Calls \cup {NoCall}] /\ \A r \in Procs : CallSound(proc[r])'
    BY <1>1, <1>7, <1>8, CallMoves
  <1>10. RateTypes' /\ CountIsExact'
    BY <1>1, <1>6, <1>9 DEF RateTypes, CountIsExact
  <1>11. QED
    BY <1>5, <1>9, <1>10 DEF RateParameters

\* The loads of tryIncrement, and a swap or a lock that came too late.
LEMMA ReadStep ==
    ASSUME RateInv, NEW p \in Procs, proc[p] # NoCall, NEW q,
           q \in Calls \cup {NoCall}, CallSound(q), proc' = [proc EXCEPT ![p] = q],
           UNCHANGED <<clock, table, gen, heap, evictor, granted>>
    PROVE  RateInv'
  <1>1. proc' \in [Procs -> Calls \cup {NoCall}] /\ \A r \in Procs : CallSound(proc[r])'
    BY CallMoves
  <1>2. QED
    BY <1>1 DEF RateInv, RateTypes, RoomForEntries, CountIsExact, RateParameters

LEMMA ReadWindowStep ==
    ASSUME RateInv, NEW p \in Procs, ReadWindow(p)
    PROVE  RateInv'
  <1>1. PICK z \in {"count", "lock"} : proc' = [proc EXCEPT ![p].pc = z]
    BY DEF ReadWindow
  <1>2. proc[p].pc = "window" /\ UNCHANGED <<clock, table, gen, heap, evictor, granted>>
    BY DEF ReadWindow
  <1>3. proc[p] # NoCall
    BY <1>2 DEF NoCall
  <1>4. proc[p] \in Calls /\ CallSound(proc[p])
    BY <1>3, CallInHand DEF RateInv
  <1> DEFINE q == [proc[p] EXCEPT !.pc = z]
  <1>5. proc' = [proc EXCEPT ![p] = q]
    BY <1>1 DEF RateInv, RateTypes
  <1>6. q \in Calls /\ q.s = proc[p].s /\ q.i = proc[p].i /\ q.e = proc[p].e /\ q.pc = z
    BY <1>4 DEF Calls, Running
  <1> HIDE DEF q
  <1>7. CallSound(q)
    BY <1>2, <1>3, <1>4, <1>6 DEF CallSound, Running
  <1>8. QED
    BY <1>2, <1>3, <1>5, <1>6, <1>7, ReadStep

LEMMA ReadCountStep ==
    ASSUME RateInv, NEW p \in Procs, ReadCount(p)
    PROVE  RateInv'
  <1>1. proc[p].pc = "count" /\ UNCHANGED <<clock, table, gen, heap, evictor, granted>>
    BY DEF ReadCount
  <1>2. proc[p] # NoCall
    BY <1>1 DEF NoCall
  <1>3. /\ proc[p] \in Calls /\ CallSound(proc[p]) /\ Entry(p) \in Entries
        /\ Limit[Counter(p)] \in Nat
    BY <1>1, <1>2, CallInHand DEF RateInv, Running
  <1>4. PICK cur : cur = heap[Entry(p)].count
    BY Zenon
  <1>5. cur \in Nat
    BY <1>3, <1>4 DEF RateInv, RateTypes, HeapEntries
  <1> DEFINE q == [proc[p] EXCEPT !.pc = "swap", !.cur = cur]
  <1>6. proc' = [proc EXCEPT ![p] = IF cur >= Limit[Counter(p)] THEN NoCall ELSE q]
    BY <1>4 DEF ReadCount, RateInv, RateTypes
  <1>7. /\ q \in Calls /\ q.s = proc[p].s /\ q.i = proc[p].i /\ q.e = proc[p].e
        /\ q.pc = "swap" /\ q.cur = cur
    BY <1>3, <1>5 DEF Calls, Running
  <1> HIDE DEF q
  <1>8. CASE cur >= Limit[Counter(p)]
    <2>1. CallSound(NoCall)
      BY DEF CallSound
    <2>2. QED
      BY <1>1, <1>2, <1>6, <1>8, <2>1, ReadStep
  <1>9. CASE ~(cur >= Limit[Counter(p)])
    <2>1. cur < Limit[Counter(p)]
      BY <1>3, <1>5, <1>9
    <2>2. CallSound(q)
      BY <1>1, <1>2, <1>3, <1>7, <2>1 DEF CallSound, Running, Counter
    <2>3. QED
      BY <1>1, <1>2, <1>6, <1>7, <1>9, <2>2, ReadStep
  <1>10. QED
    BY <1>8, <1>9

\* An entry lets a request through: its count and the history move together.
LEMMA GrantedStep ==
    ASSUME RateInv, NEW p \in Procs, proc[p] # NoCall, proc[p].pc \in Running,
           NEW row \in HeapEntries, row.count <= Limit[Counter(p)],
           heap' = [heap EXCEPT ![Entry(p)] = row],
           granted' = [granted EXCEPT ![Entry(p)] = row.count],
           proc' = [proc EXCEPT ![p] = Passed(p)],
           UNCHANGED <<clock, table, gen, evictor>>
    PROVE  RateInv'
  <1> USE DEF RateInv
  <1>1. Entry(p) \in Entries /\ Entry(p)[1] = Counter(p)
    BY CallInHand DEF Entry
  <1>2. PICK q : q = Passed(p)
    BY Zenon
  <1>3. proc' \in [Procs -> Calls \cup {NoCall}] /\ \A r \in Procs : CallSound(proc[r])'
    BY <1>2, PassedIsSound, CallMoves
  <1>4. heap' \in [Entries -> HeapEntries] /\ granted' \in [Entries -> Nat]
    BY DEF RateTypes, HeapEntries
  <1>5. CountIsExact'
    BY <1>1 DEF CountIsExact, RateTypes
  <1>6. RoomForEntries'
    BY DEF RoomForEntries
  <1>7. QED
    BY <1>3, <1>4, <1>5, <1>6 DEF RateTypes, RateParameters

LEMMA CompareAndSwapStep ==
    ASSUME RateInv, NEW p \in Procs, CompareAndSwap(p)
    PROVE  RateInv'
  <1>1. proc[p].pc = "swap" /\ UNCHANGED <<clock, table, gen, evictor>>
    BY DEF CompareAndSwap
  <1>2. proc[p] # NoCall /\ proc[p].pc \in Running
    BY <1>1 DEF NoCall, Running
  <1>3. /\ proc[p] \in Calls /\ CallSound(proc[p]) /\ Entry(p) \in Entries
        /\ Limit[Counter(p)] \in Nat /\ proc[p].cur < Limit[Counter(p)]
    BY <1>1, <1>2, CallInHand DEF RateInv
  <1>4. CASE heap[Entry(p)].count = proc[p].cur
    <2>1. PICK row : row = [heap[Entry(p)] EXCEPT !.count = @ + 1]
      BY Zenon
    <2>2. /\ heap[Entry(p)] \in HeapEntries /\ granted[Entry(p)] = heap[Entry(p)].count
          /\ heap[Entry(p)].count \in Nat
      BY <1>3 DEF RateInv, RateTypes, CountIsExact, HeapEntries
    <2>3. row \in HeapEntries /\ row.count = heap[Entry(p)].count + 1
      BY <2>1, <2>2 DEF HeapEntries
    <2>4. /\ heap' = [heap EXCEPT ![Entry(p)] = row]
          /\ granted' = [granted EXCEPT ![Entry(p)] = row.count]
          /\ proc' = [proc EXCEPT ![p] = Passed(p)]
      BY <1>4, <2>1, <2>2, <2>3 DEF CompareAndSwap
    <2>5. row.count <= Limit[Counter(p)]
      BY <1>3, <1>4, <2>2, <2>3
    <2>6. QED
      BY <1>1, <1>2, <2>3, <2>4, <2>5, GrantedStep
  <1>5. CASE heap[Entry(p)].count # proc[p].cur
    <2> DEFINE q == [proc[p] EXCEPT !.pc = "window", !.cur = 0]
    <2>1. proc' = [proc EXCEPT ![p] = q] /\ UNCHANGED <<heap, granted>>
      BY <1>5 DEF CompareAndSwap, RateInv, RateTypes
    <2>2. q \in Calls /\ q.s = proc[p].s /\ q.i = proc[p].i /\ q.e = proc[p].e /\ q.pc = "window"
      BY <1>3 DEF Calls, Running
    <2> HIDE DEF q
    <2>3. CallSound(q)
      BY <1>2, <1>3, <2>2 DEF CallSound, Running
    <2>4. QED
      BY <1>1, <1>2, <2>1, <2>2, <2>3, ReadStep
  <1>6. QED
    BY <1>4, <1>5

LEMMA LockStep ==
    ASSUME RateInv, NEW p \in Procs, Lock(p)
    PROVE  RateInv'
  <1> USE DEF RateInv
  <1>1. proc[p].pc = "lock" /\ UNCHANGED <<clock, table, gen, evictor, granted>>
    BY DEF Lock
  <1>2. proc[p] # NoCall /\ proc[p].pc \in Running
    BY <1>1 DEF NoCall, Running
  <1>3. proc[p] \in Calls /\ CallSound(proc[p]) /\ Entry(p) \in Entries
    BY <1>2, CallInHand
  <1>4. PICK z \in {"reset", "window"} : proc' = [proc EXCEPT ![p].pc = z]
    BY DEF Lock
  <1> DEFINE q == [proc[p] EXCEPT !.pc = z]
  <1>5. proc' = [proc EXCEPT ![p] = q]
    BY <1>4 DEF RateTypes
  <1>6. q \in Calls /\ q.s = proc[p].s /\ q.i = proc[p].i /\ q.e = proc[p].e /\ q.pc = z
    BY <1>3 DEF Calls, Running
  <1> HIDE DEF q
  <1>7. CallSound(q)
    BY <1>2, <1>3, <1>6 DEF CallSound, Running
  <1>8. proc' \in [Procs -> Calls \cup {NoCall}] /\ \A r \in Procs : CallSound(proc[r])'
    BY <1>5, <1>6, <1>7, CallMoves
  <1>9. /\ heap' \in [Entries -> HeapEntries]
        /\ \A e \in Entries : heap'[e].count = heap[e].count
    <2>1. Window(p) \in Int
      <3>1. proc[p].t \in Int /\ MinutesPerDay \in Nat /\ MinutesPerDay > 0
        BY <1>3 DEF Calls, RateParameters
      <3>2. (proc[p].t - 1) \div MinutesPerDay \in Int
        BY ONLY <3>1
      <3>3. QED
        BY <3>1, <3>2 DEF Window, WindowAt
    <2>2. PICK w : w = Window(p)
      BY Zenon
    <2>3. w \in Int
      BY <2>1, <2>2
    <2>4. CASE UNCHANGED heap
      BY <2>4 DEF RateTypes
    <2>5. CASE heap' = [heap EXCEPT ![Entry(p)].mu = p, ![Entry(p)].windowStart = w]
      <3> DEFINE row == [heap[Entry(p)] EXCEPT !.mu = p, !.windowStart = w]
      <3>1. heap' = [heap EXCEPT ![Entry(p)] = row]
        BY <1>3, <2>5 DEF RateTypes
      <3>2. heap[Entry(p)] \in HeapEntries
        BY <1>3 DEF RateTypes
      <3>3. row \in HeapEntries /\ row.count = heap[Entry(p)].count
        BY <2>3, <3>2 DEF HeapEntries
      <3> HIDE DEF row
      <3>4. QED
        BY <1>3, <3>1, <3>3 DEF RateTypes
    <2>6. QED
      BY <2>2, <2>4, <2>5 DEF Lock
  <1>10. CountIsExact' /\ RoomForEntries'
    BY <1>1, <1>9 DEF CountIsExact, RoomForEntries
  <1>11. QED
    BY <1>1, <1>8, <1>9, <1>10 DEF RateTypes, RateParameters

LEMMA StoreCountStep ==
    ASSUME RateInv, NEW p \in Procs, StoreCount(p)
    PROVE  RateInv'
  <1>1. proc[p].pc = "reset" /\ UNCHANGED <<clock, table, gen, evictor>>
    BY DEF StoreCount
  <1>2. proc[p] # NoCall /\ proc[p].pc \in Running
    BY <1>1 DEF NoCall, Running
  <1>3. Entry(p) \in Entries /\ Limit[Counter(p)] \in Nat /\ Limit[Counter(p)] > 0
    BY <1>2, CallInHand
  <1>4. PICK row : row = [heap[Entry(p)] EXCEPT !.count = 1, !.mu = Free]
    BY Zenon
  <1>5. heap[Entry(p)] \in HeapEntries
    BY <1>3 DEF RateInv, RateTypes
  <1>6. row \in HeapEntries /\ row.count = 1
    BY <1>4, <1>5 DEF HeapEntries
  <1>7. /\ heap' = [heap EXCEPT ![Entry(p)] = row]
        /\ granted' = [granted EXCEPT ![Entry(p)] = row.count]
        /\ proc' = [proc EXCEPT ![p] = Passed(p)]
    BY <1>3, <1>4, <1>6 DEF StoreCount, RateInv, RateTypes
  <1>8. row.count <= Limit[Counter(p)]
    BY <1>3, <1>6
  <1>9. QED
    BY <1>1, <1>2, <1>6, <1>7, <1>8, GrantedStep

\* Eviction, and the clock.
LEMMA EvictStep ==
    ASSUME RateInv, EvictBegins \/ (\E c \in Counters : EvictLooks(c)) \/ EvictDeletes
                    \/ EvictEnds \/ NextMinute
    PROVE  RateInv'
  <1> USE DEF RateInv
  <1>1. UNCHANGED <<gen, heap, proc, granted>> /\ CountIsExact'
    BY DEF EvictBegins, EvictLooks, EvictDeletes, EvictEnds, NextMinute, CountIsExact
  <1>2. clock' \in 1 .. MaxMinutes
    <2>1. clock \in 1 .. MaxMinutes /\ MaxMinutes \in Nat
      BY DEF RateTypes, RateParameters
    <2>2. clock' = clock \/ (clock < MaxMinutes /\ clock' = clock + 1)
      BY DEF EvictBegins, EvictLooks, EvictDeletes, EvictEnds, NextMinute
    <2>3. QED
      BY ONLY <2>1, <2>2
  <1>3. RoomForEntries' /\ table' \in [Counters -> 0 .. MaxEntries]
    <2>1. CASE EvictBegins
      <3>1. table' = table
            /\ evictor' = [pc |-> "range", t |-> clock, todo |-> {c \in Counters : table[c] # 0}, doomed |-> {}]
        BY <2>1 DEF EvictBegins
      <3>2. QED
        BY <1>1, <3>1 DEF RoomForEntries, RateTypes, RateParameters
    <2>2. ASSUME NEW c \in Counters, EvictLooks(c)
          PROVE  RoomForEntries' /\ table' \in [Counters -> 0 .. MaxEntries]
      <3>0. evictor.pc = "range" /\ table' = table /\ c \in evictor.todo
        BY <2>2 DEF EvictLooks
      <3>1. evictor # Asleep /\ table' = table /\ c \in evictor.todo
        BY <3>0 DEF Asleep
      <3>2. PICK d \in SUBSET {c} :
               /\ d # {} => gen[c] < MaxEntries
               /\ evictor' = [evictor EXCEPT !.todo = @ \ {c}, !.doomed = d]
        BY <2>2 DEF EvictLooks
      <3>3. evictor \in [pc : {"range"}, t : Nat, todo : SUBSET Counters, doomed : SUBSET Counters]
        BY <3>1 DEF RoomForEntries
      <3>4. /\ evictor' \in [pc : {"range"}, t : Nat, todo : SUBSET Counters, doomed : SUBSET Counters]
            /\ evictor'.todo = evictor.todo \ {c} /\ evictor'.doomed = d
        BY <3>2, <3>3
      <3>5. \A b \in evictor'.todo \cup evictor'.doomed : table'[b] # 0
        BY <3>1, <3>4 DEF RoomForEntries
      <3>6. \A b \in evictor'.doomed : gen'[b] < MaxEntries /\ b \notin evictor'.todo
        BY <1>1, <3>2, <3>4
      <3>7. QED
        BY <1>1, <3>1, <3>4, <3>5, <3>6 DEF RoomForEntries, RateTypes
    <2>3. CASE EvictDeletes
      <3>1. /\ evictor # Asleep /\ evictor' = [evictor EXCEPT !.doomed = {}]
            /\ table' = [c \in Counters |-> IF c \in evictor.doomed THEN 0 ELSE table[c]]
        BY <2>3 DEF EvictDeletes, Asleep
      <3>2. evictor \in [pc : {"range"}, t : Nat, todo : SUBSET Counters, doomed : SUBSET Counters]
        BY <3>1 DEF RoomForEntries
      <3>3. /\ evictor' \in [pc : {"range"}, t : Nat, todo : SUBSET Counters, doomed : SUBSET Counters]
            /\ evictor'.todo = evictor.todo /\ evictor'.doomed = {}
        BY <3>1, <3>2
      <3>4. evictor.todo \cap evictor.doomed = {}
        BY <3>1 DEF RoomForEntries
      <3>5. \A b \in evictor'.todo : table'[b] # 0
        BY <3>1, <3>2, <3>3, <3>4 DEF RoomForEntries
      <3>6. \A b \in Counters : table'[b] = 0 => gen'[b] < MaxEntries
        BY <1>1, <3>1 DEF RoomForEntries
      <3>7. table' \in [Counters -> 0 .. MaxEntries]
        BY <3>1 DEF RateTypes, RateParameters
      <3>8. QED
        BY <3>3, <3>5, <3>6, <3>7 DEF RoomForEntries
    <2>4. CASE EvictEnds \/ NextMinute
      BY <1>1, <2>4 DEF EvictEnds, NextMinute, RoomForEntries, RateTypes
    <2>5. QED
      BY <2>1, <2>2, <2>3, <2>4
  <1>4. RateTypes' /\ \A p \in Procs : CallSound(proc[p])'
    BY <1>1, <1>2, <1>3 DEF RateTypes, CallSound
  <1>5. QED
    BY <1>1, <1>3, <1>4 DEF RateParameters

-----------------------------------------------------------------------------
LEMMA RateInitInv == RateParameters /\ RateInit => RateInv
  <1> SUFFICES ASSUME RateParameters, RateInit PROVE RateInv
    OBVIOUS
  <1>1. newEntry \in HeapEntries /\ newEntry.count = 0
    BY DEF newEntry, HeapEntries
  <1>2. RateTypes
    BY <1>1 DEF RateInit, RateTypes, RateParameters
  <1>3. \A p \in Procs : CallSound(proc[p])
    BY DEF RateInit, CallSound
  <1>4. RoomForEntries
    BY DEF RateInit, RoomForEntries, RateParameters
  <1>5. CountIsExact
    <2>1. \A e \in Entries : e[1] \in Counters
      BY DEF Entries
    <2>2. \A e \in Entries : heap[e].count = 0 /\ granted[e] = 0
      BY <1>1 DEF RateInit
    <2>3. QED
      BY <2>1, <2>2 DEF CountIsExact, RateParameters
  <1>6. QED
    BY <1>2, <1>3, <1>4, <1>5 DEF RateInv

LEMMA RateStep == RateInv /\ [RateNext]_rateVars => RateInv'
  <1> SUFFICES ASSUME RateInv, [RateNext]_rateVars PROVE RateInv'
    OBVIOUS
  <1>1. CASE UNCHANGED rateVars
    BY <1>1 DEF rateVars, RateInv, RateTypes, CallSound, RoomForEntries, CountIsExact, RateParameters
  <1>2. ASSUME NEW p \in Procs, CallCheckRate(p) \/ Step(p) PROVE RateInv'
    BY <1>2, CallStep, LoadOrCreateStep, ReadWindowStep, ReadCountStep, CompareAndSwapStep,
       LockStep, StoreCountStep DEF Step
  <1>3. CASE EvictBegins \/ (\E c \in Counters : EvictLooks(c)) \/ EvictDeletes \/ EvictEnds \/ NextMinute
    BY <1>3, EvictStep
  <1>4. QED
    BY <1>1, <1>2, <1>3 DEF RateNext

\* The inductive invariant of the rate limiter: a call works on an entry of a
\* limited counter, and swaps only from a count below the limit.
THEOREM RateInvariance == RateParameters /\ RateSpec => []RateInv
  <1>1. QED
    BY RateInitInv, RateStep, PTL DEF RateSpec

\* No compare-and-swap loses an update, whatever rollovers, evictions and
\* stragglers of an earlier window interleave: an entry's count is what it let
\* through since its last reset, within the limit (tryIncrement).
THEOREM CountsAreExact == RateParameters /\ RateSpec => []CountIsExact
  <1>1. RateInv => CountIsExact
    BY DEF RateInv
  <1>2. QED
    BY <1>1, RateInvariance, PTL

=============================================================================
