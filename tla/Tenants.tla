------------------------------- MODULE Tenants -------------------------------
(***************************************************************************)
(* The admin handlers for organisations, teams, users, memberships,        *)
(* service accounts and API keys, over the tables of TenantStore and the   *)
(* in-memory key cache. Callers are API keys: the middleware takes a       *)
(* caller's rights from the cache, never from the tables.                  *)
(*                                                                         *)
(* A handler is one step, except the two creations that a licence limits:  *)
(* they count the rows and insert one in two statements. A request that is *)
(* refused changes nothing and is a step that does not happen.             *)
(***************************************************************************)
EXTENDS Naturals, FiniteSets

CONSTANTS
    Orgs, Teams, Users, Accounts,
    Slugs, Emails,     \* what requests may ask for; sequences of length 1
    TenantKeys,        \* the keys requests may create: [kind, owner, org, team]
    MaxOrgs, MaxTeams, \* limits of the licence; 0 is unlimited
    MaxInFlight,       \* bound: creations between count and insert
    MaxOps             \* bound: number of calls

VARIABLES
    orgs, teams, users, members, teamMembers, accounts, \* TenantStore
    keys,     \* rows of api_keys that are not deleted
    cache,    \* KeyCache: what the middleware knows of a key
    pending,  \* creations between their count and their insert
    by,       \* history: the KeyInfo of the step's caller, Out if it has none
    ops

DB == INSTANCE TenantStore

None == DB!None

(* Names pass validation only without the marker of a deletion; ids are    *)
(* UUIDs, unique across the tables; a key belongs to a user, a team or a   *)
(* service account.                                                        *)
ASSUME TenantsAssumption ==
    /\ \A s \in Slugs \cup Emails : s = <<s[1]>>
    /\ None \notin Orgs \cup Teams \cup Users \cup Accounts
    /\ Orgs \cap Teams = {}
    /\ TenantKeys \subseteq
           UNION {[kind : {"user_key"}, owner : Users, org : Orgs, team : Teams \cup {None}],
                  [kind : {"team_key"}, owner : Teams, org : Orgs, team : Teams],
                  [kind : {"sa_key"}, owner : Accounts, org : Orgs, team : Teams \cup {None}]}
    /\ MaxOrgs \in Nat /\ MaxTeams \in Nat /\ MaxInFlight \in Nat \ {0}

tables == <<orgs, teams, users, members, teamMembers, accounts>>
vars == <<tables, keys, cache, pending, by, ops>>

(***************************************************************************)
(* API keys and what the cache holds for them.                             *)
(***************************************************************************)
Roles == <<"member", "team_admin", "org_admin", "system_admin">>
Rank(r) == CHOOSE i \in DOMAIN Roles : Roles[i] = r

HasRole(r, required) == Rank(r) >= Rank(required)

Out == [role |-> "none", user |-> None, org |-> None, team |-> None, account |-> None]

(* keySelectFromJoin joins the organisation if it is live. *)
Selected(k) == k \in keys /\ DB!Live(orgs, k.org)

\* Mutant: a user's key needs the user only, not the membership.
CacheableWithoutMembership(k) ==
    CASE k.kind = "sa_key" -> DB!Live(accounts, k.owner)
      [] k.kind = "user_key" -> DB!Live(users, k.owner)
      [] OTHER -> TRUE

Cacheable(k) ==
    CASE k.kind = "sa_key" -> DB!Live(accounts, k.owner)
      [] k.kind = "user_key" -> /\ DB!Live(users, k.owner)
                                /\ members[<<k.org, k.owner>>] # None \/ users[k.owner].sys
      [] OTHER -> TRUE

KeyInfoFromRecord(k) ==
    [role |-> IF k.kind = "team_key" THEN "team_admin"
              ELSE IF k.kind = "sa_key"
                   THEN IF accounts[k.owner].team # None THEN "team_admin" ELSE "org_admin"
              ELSE IF users[k.owner].sys THEN "system_admin"
              ELSE IF members[<<k.org, k.owner>>] # None THEN members[<<k.org, k.owner>>]
              ELSE "member",
     user |-> IF k.kind = "user_key" THEN k.owner ELSE None,
     org |-> k.org,
     team |-> k.team,
     account |-> IF k.kind = "sa_key" THEN k.owner ELSE None]

(* What LoadAllActiveKeys makes of the tables as they are. *)
Fresh == [k \in TenantKeys |-> IF Selected(k) /\ Cacheable(k) THEN KeyInfoFromRecord(k) ELSE Out]

(* The reload swaps the whole cache; when its query fails the cache stays, *)
(* and the handler that asked for it only logs that.                        *)
LoadKeysIntoCache == cache' \in {Fresh', cache}

Evict(ks) == cache' = [k \in TenantKeys |-> IF k \in ks THEN Out ELSE cache[k]]

ListActiveKeyHashesByUser(u) == {k \in keys : k.kind = "user_key" /\ k.owner = u}
ListActiveKeyHashesByUserInOrg(u, o) == {k \in ListActiveKeyHashesByUser(u) : k.org = o}
ListActiveKeyHashesByServiceAccount(a) == {k \in keys : k.kind = "sa_key" /\ k.owner = a}

(***************************************************************************)
(* Authorisation.                                                          *)
(***************************************************************************)
(* The role each route is registered with. *)
Route ==
    [CreateOrg |-> "system_admin", UpdateOrg |-> "org_admin", DeleteOrg |-> "system_admin",
     CreateTeam |-> "org_admin", UpdateTeam |-> "team_admin", DeleteTeam |-> "org_admin",
     CreateUser |-> "org_admin", UpdateUser |-> "org_admin", DeleteUser |-> "system_admin",
     CreateOrgMembership |-> "org_admin", UpdateOrgMembership |-> "org_admin",
     DeleteOrgMembership |-> "org_admin", CreateTeamMembership |-> "team_admin",
     UpdateTeamMembership |-> "team_admin", DeleteTeamMembership |-> "team_admin",
     CreateServiceAccount |-> "member", DeleteServiceAccount |-> "member",
     CreateAPIKey |-> "member", DeleteAPIKey |-> "member", GetOrg |-> "org_admin",
     ListOrgs |-> "org_admin", GetTeam |-> "member", ListTeams |-> "member",
     GetUser |-> "org_admin", ListUsers |-> "system_admin",
     ListOrgMemberships |-> "org_admin", ListTeamMemberships |-> "team_admin",
     GetServiceAccount |-> "member", ListServiceAccounts |-> "member"]

Ki(c) == cache[c]

RequireRole(c, required) == Ki(c) # Out /\ HasRole(Ki(c).role, required)

IsSystemAdmin(c) == HasRole(Ki(c).role, "system_admin")

requireOrgAccess(c, o) == IsSystemAdmin(c) \/ Ki(c).org = o

requireOrgAdmin(c, o) == IsSystemAdmin(c) \/ (HasRole(Ki(c).role, "org_admin") /\ Ki(c).org = o)

requireTeamAccess(c, o, t) ==
    /\ requireOrgAccess(c, o)
    /\ DB!GetTeam(t)
    /\ teams[t].org = o
    /\ HasRole(Ki(c).role, "org_admin") \/ DB!IsTeamMember(Ki(c).user, t)

(* A request that passed the middleware; by remembers who made it. *)
Call(c, required) ==
    /\ RequireRole(c, required)
    /\ ops < MaxOps /\ ops' = ops + 1
    /\ by' = Ki(c)

(***************************************************************************)
(* Organisations.                                                          *)
(***************************************************************************)
CountForOrg(c, o) ==
    /\ Call(c, Route.CreateOrg)
    /\ MaxOrgs > 0 => DB!CountOrgs < MaxOrgs
    /\ Cardinality(pending) < MaxInFlight
    /\ ~DB!Exists(orgs, o) /\ \A p \in pending : p.id # o
    /\ pending' = pending \cup {[id |-> o, org |-> o]}
    /\ UNCHANGED <<tables, keys, cache>>

CreateOrg(o, slug) ==
    /\ \E p \in pending : p.id = o /\ pending' = pending \ {p}
    /\ DB!CreateOrg(o, slug)
    /\ by' = Out /\ UNCHANGED <<teams, users, members, teamMembers, accounts, keys, cache, ops>>

UpdateOrg(c, o, slug) ==
    /\ Call(c, Route.UpdateOrg) /\ requireOrgAdmin(c, o)
    /\ DB!UpdateOrg(o, slug)
    /\ UNCHANGED <<teams, users, members, teamMembers, accounts, keys, cache, pending>>

(* No key is evicted: keys of the organisation die with the next reload. *)
DeleteOrg(c, o) ==
    /\ Call(c, Route.DeleteOrg)
    /\ DB!DeleteOrg(o)
    /\ UNCHANGED <<teams, users, members, teamMembers, accounts, keys, cache, pending>>

\* Mutant: the limit is compared with <=.
CountForTeamOneMore(c, o, t) ==
    /\ Call(c, Route.CreateTeam) /\ requireOrgAdmin(c, o)
    /\ MaxTeams > 0 => DB!CountTeams(o) <= MaxTeams
    /\ Cardinality(pending) < MaxInFlight
    /\ ~DB!Exists(teams, t) /\ \A p \in pending : p.id # t
    /\ pending' = pending \cup {[id |-> t, org |-> o]}
    /\ UNCHANGED <<tables, keys, cache>>

(***************************************************************************)
(* Teams.                                                                  *)
(***************************************************************************)
CountForTeam(c, o, t) ==
    /\ Call(c, Route.CreateTeam) /\ requireOrgAdmin(c, o)
    /\ MaxTeams > 0 => DB!CountTeams(o) < MaxTeams
    /\ Cardinality(pending) < MaxInFlight
    /\ ~DB!Exists(teams, t) /\ \A p \in pending : p.id # t
    /\ pending' = pending \cup {[id |-> t, org |-> o]}
    /\ UNCHANGED <<tables, keys, cache>>

CreateTeam(t, slug) ==
    /\ \E p \in pending : /\ p.id = t /\ pending' = pending \ {p}
                          /\ DB!CreateTeam(t, p.org, slug)
    /\ by' = Out /\ UNCHANGED <<orgs, users, members, teamMembers, accounts, keys, cache, ops>>

(* The insert of a counted creation may fail on a name that was taken. *)
CreationFails(p) ==
    /\ p \in pending /\ pending' = pending \ {p}
    /\ by' = Out /\ UNCHANGED <<tables, keys, cache, ops>>

UpdateTeam(c, o, t, slug) ==
    /\ Call(c, Route.UpdateTeam) /\ requireTeamAccess(c, o, t)
    /\ DB!UpdateTeam(t, slug)
    /\ UNCHANGED <<orgs, users, members, teamMembers, accounts, keys, cache, pending>>

DeleteTeam(c, o, t) ==
    /\ Call(c, Route.DeleteTeam) /\ requireTeamAccess(c, o, t)
    /\ DB!DeleteTeam(t)
    /\ UNCHANGED <<orgs, users, members, teamMembers, accounts, keys, cache, pending>>

(***************************************************************************)
(* Users.                                                                  *)
(***************************************************************************)
CreateUser(c, u, email, sys, o, role) ==
    /\ Call(c, Route.CreateUser)
    /\ sys \/ role = "org_admin" \/ o # Ki(c).org => IsSystemAdmin(c)
    /\ DB!CreateUserWithMembership(u, email, sys, o, role)
    /\ UNCHANGED <<orgs, teams, teamMembers, accounts, keys, cache, pending>>

(* sys is the requested flag, or "keep" when the request does not name it. *)
UpdateUser(c, u, email, sys) ==
    /\ Call(c, Route.UpdateUser)
    /\ IsSystemAdmin(c) \/ DB!GetUserOrgRole(u, Ki(c).org) # None
    /\ sys # "keep" => IsSystemAdmin(c)
    /\ DB!UpdateUser(u, email, IF sys = "keep" THEN users[u].sys ELSE sys = "yes")
    /\ UNCHANGED <<orgs, teams, members, teamMembers, accounts, keys, cache, pending>>

DeleteUser(c, u) ==
    /\ Call(c, Route.DeleteUser)
    /\ DB!DeleteUser(u)
    /\ Evict(ListActiveKeyHashesByUser(u))
    /\ UNCHANGED <<orgs, teams, members, teamMembers, accounts, keys, pending>>

\* Mutant: only the role's name is checked.
MayAssignAny(c, role) == role \in {"org_admin", "member"}

(***************************************************************************)
(* Memberships.                                                            *)
(***************************************************************************)
MayAssign(c, role) == role \in {"org_admin", "member"} /\ (role = "org_admin" => IsSystemAdmin(c))

CreateOrgMembership(c, o, u, role) ==
    /\ Call(c, Route.CreateOrgMembership) /\ requireOrgAccess(c, o) /\ MayAssign(c, role)
    /\ DB!CreateOrgMembership(o, u, role)
    /\ UNCHANGED <<orgs, teams, users, teamMembers, accounts, keys, pending>>
    /\ LoadKeysIntoCache

UpdateOrgMembership(c, o, u, role) ==
    /\ Call(c, Route.UpdateOrgMembership) /\ requireOrgAccess(c, o) /\ MayAssign(c, role)
    /\ DB!UpdateOrgMembership(o, u, role)
    /\ UNCHANGED <<orgs, teams, users, teamMembers, accounts, keys, pending>>
    /\ LoadKeysIntoCache

DeleteOrgMembership(c, o, u) ==
    /\ Call(c, Route.DeleteOrgMembership) /\ requireOrgAccess(c, o)
    /\ DB!DeleteOrgMembership(o, u)
    /\ Evict(ListActiveKeyHashesByUserInOrg(u, o))
    /\ UNCHANGED <<orgs, teams, users, teamMembers, accounts, keys, pending>>

CreateTeamMembership(c, o, t, u, role) ==
    /\ Call(c, Route.CreateTeamMembership) /\ requireTeamAccess(c, o, t)
    /\ DB!CreateTeamMembership(t, u, role)
    /\ UNCHANGED <<orgs, teams, users, members, accounts, keys, cache, pending>>

UpdateTeamMembership(c, o, t, u, role) ==
    /\ Call(c, Route.UpdateTeamMembership) /\ requireTeamAccess(c, o, t)
    /\ DB!UpdateTeamMembership(t, u, role)
    /\ UNCHANGED <<orgs, teams, users, members, accounts, keys, cache, pending>>

DeleteTeamMembership(c, o, t, u) ==
    /\ Call(c, Route.DeleteTeamMembership) /\ requireTeamAccess(c, o, t)
    /\ DB!DeleteTeamMembership(t, u)
    /\ UNCHANGED <<orgs, teams, users, members, accounts, keys, cache, pending>>

(***************************************************************************)
(* Service accounts. UpdateServiceAccount only renames.                    *)
(***************************************************************************)
CreateServiceAccount(c, o, a, t) ==
    /\ Call(c, Route.CreateServiceAccount) /\ requireOrgAccess(c, o)
    /\ Ki(c).user # None
    /\ t # None => DB!GetTeam(t) /\ teams[t].org = o
    /\ DB!CreateServiceAccount(a, o, t, Ki(c).user)
    /\ UNCHANGED <<orgs, teams, users, members, teamMembers, keys, cache, pending>>

OwnsAccount(c, o, a) ==
    /\ requireOrgAccess(c, o) /\ DB!GetServiceAccount(a) /\ accounts[a].org = o
    /\ HasRole(Ki(c).role, "org_admin") \/ accounts[a].by = Ki(c).user

DeleteServiceAccount(c, o, a) ==
    /\ Call(c, Route.DeleteServiceAccount) /\ OwnsAccount(c, o, a)
    /\ DB!DeleteServiceAccount(a)
    /\ Evict(ListActiveKeyHashesByServiceAccount(a))
    /\ UNCHANGED <<orgs, teams, users, members, teamMembers, keys, pending>>

(***************************************************************************)
(* API keys.                                                               *)
(***************************************************************************)
CreateAPIKey(c, o, k) ==
    /\ Call(c, Route.CreateAPIKey) /\ requireOrgAccess(c, o) /\ k.org = o
    /\ Ki(c).user # None
    /\ ~HasRole(Ki(c).role, "org_admin") => /\ k.kind = "user_key" /\ k.owner = Ki(c).user
                                            /\ k.team # None => DB!IsTeamMember(Ki(c).user, k.team)
    /\ k.team # None => DB!GetTeam(k.team) /\ teams[k.team].org = o
    /\ k.kind = "user_key" => DB!GetUser(k.owner) /\ DB!GetUserOrgRole(k.owner, o) # None
    /\ k.kind = "sa_key" => DB!GetServiceAccount(k.owner) /\ accounts[k.owner].org = o
    /\ k \notin keys /\ keys' = keys \cup {k}
    /\ UNCHANGED <<tables, pending>>
    /\ cache' = [cache EXCEPT ![k] = Fresh'[k]]

\* Mutant: a team administrator sees its own keys only.
ownKeysVisible(c, k) == k.kind = "user_key" /\ k.owner = Ki(c).user

apiKeyVisibleToCallerKey(c, k) ==
    \/ /\ HasRole(Ki(c).role, "team_admin") /\ Ki(c).team # None
       /\ k.team = Ki(c).team
    \/ k.kind = "user_key" /\ k.owner = Ki(c).user

GetAPIKey(c, o) ==
    {k \in keys : /\ requireOrgAccess(c, o) /\ k.org = o
                  /\ HasRole(Ki(c).role, "org_admin") \/ apiKeyVisibleToCallerKey(c, k)}

(* The handler filters by team or by user, below org_admin. *)
ListAPIKeys(c, o) ==
    {k \in keys :
        /\ requireOrgAccess(c, o) /\ k.org = o
        /\ \/ HasRole(Ki(c).role, "org_admin")
           \/ HasRole(Ki(c).role, "team_admin") /\ Ki(c).team # None /\ k.team = Ki(c).team
           \/ /\ ~HasRole(Ki(c).role, "team_admin") \/ Ki(c).team = None
              /\ Ki(c).user # None /\ k.kind = "user_key" /\ k.owner = Ki(c).user}

DeleteAPIKey(c, o, k) ==
    /\ Call(c, Route.DeleteAPIKey) /\ requireOrgAccess(c, o)
    /\ k \in keys /\ k.org = o
    /\ HasRole(Ki(c).role, "org_admin") \/ (k.kind = "user_key" /\ k.owner = Ki(c).user)
    /\ keys' = keys \ {k}
    /\ Evict({k})
    /\ UNCHANGED <<tables, pending>>

(***************************************************************************)
(* What the read handlers show a caller.                                   *)
(***************************************************************************)
GetOrg(c) == {o \in Orgs : RequireRole(c, Route.GetOrg) /\ requireOrgAccess(c, o) /\ DB!GetOrg(o)}

ListOrgs(c) ==
    IF ~RequireRole(c, Route.ListOrgs) THEN {}
    ELSE IF IsSystemAdmin(c) THEN DB!ListOrgs(TRUE) ELSE {Ki(c).org} \cap DB!ListOrgs(FALSE)

GetTeam(c) ==
    {t \in Teams : \E o \in Orgs : RequireRole(c, Route.GetTeam) /\ requireTeamAccess(c, o, t)}

ListTeams(c, o) ==
    IF ~RequireRole(c, Route.ListTeams) \/ ~requireOrgAccess(c, o) THEN {}
    ELSE IF ~HasRole(Ki(c).role, "org_admin") THEN DB!ListUserTeams(o, Ki(c).user)
    ELSE DB!ListTeams(o, IsSystemAdmin(c))

GetUser(c) ==
    {u \in Users : /\ RequireRole(c, Route.GetUser) /\ DB!GetUser(u)
                   /\ IsSystemAdmin(c) \/ DB!GetUserOrgRole(u, Ki(c).org) # None}

ListUsers(c) == IF RequireRole(c, Route.ListUsers) THEN DB!ListUsers(TRUE) ELSE {}

ListOrgMemberships(c, o) ==
    IF RequireRole(c, Route.ListOrgMemberships) /\ requireOrgAccess(c, o) THEN DB!ListOrgMemberships(o) ELSE {}

ListTeamMemberships(c, o, t) ==
    IF RequireRole(c, Route.ListTeamMemberships) /\ requireTeamAccess(c, o, t) THEN DB!ListTeamMemberships(t)
                                                                  ELSE {}

GetServiceAccount(c, o) == {a \in Accounts : RequireRole(c, Route.GetServiceAccount) /\ OwnsAccount(c, o, a)}

(* A caller without a user id below org_admin is refused. *)
ListServiceAccounts(c, o) ==
    IF ~RequireRole(c, Route.ListServiceAccounts) \/ ~requireOrgAccess(c, o) THEN {}
    ELSE IF HasRole(Ki(c).role, "org_admin")
         THEN DB!ListServiceAccounts(o, None, IsSystemAdmin(c))
    ELSE IF Ki(c).user = None THEN {}
    ELSE DB!ListServiceAccounts(o, Ki(c).user, FALSE)

(* A name is shown without the suffix a deletion gave it. *)
orgToResponse(o) == DB!StripTombstone(orgs[o].slug, o)
teamToResponse(t) == DB!StripTombstone(teams[t].slug, t)
userToResponse(u) == DB!StripTombstone(users[u].email, u)

(***************************************************************************)
(* Bootstrap runs in one transaction on an empty database: the first       *)
(* organisation, its administrator and that user's key.                    *)
(***************************************************************************)
Bootstrap(o, u, slug, email) ==
    LET k == [kind |-> "user_key", owner |-> u, org |-> o, team |-> None] IN
    /\ orgs = [x \in Orgs |-> IF x = o THEN [slug |-> slug, org |-> o, status |-> "live"]
                                       ELSE DB!AbsentOrg]
    /\ teams = [t \in Teams |-> DB!AbsentTeam]
    /\ users = [x \in Users |-> IF x = u THEN [email |-> email, sys |-> TRUE, status |-> "live"]
                                         ELSE DB!AbsentUser]
    /\ members = [x \in Orgs \X Users |-> IF x = <<o, u>> THEN "org_admin" ELSE None]
    /\ teamMembers = [x \in Teams \X Users |-> None]
    /\ accounts = [a \in Accounts |-> DB!AbsentAccount]
    /\ keys = {k}
    /\ cache = [x \in TenantKeys |-> IF x = k THEN KeyInfoFromRecord(k) ELSE Out]
    /\ pending = {} /\ by = Out /\ ops = 0

Init == \E o \in Orgs, u \in Users, s \in Slugs, e \in Emails : Bootstrap(o, u, s, e)

(* A new row gets a new UUID; which of the unused ids it is does not matter. *)
NewId(ids, table) ==
    LET free == {x \in ids : ~DB!Exists(table, x) /\ \A p \in pending : p.id # x}
    IN  IF free = {} THEN {} ELSE {CHOOSE x \in free : TRUE}

(* The steps a request of caller c takes. *)
CallBy(c) ==
    \/ \E o \in NewId(Orgs, orgs) : CountForOrg(c, o)
    \/ \E o \in Orgs : DeleteOrg(c, o)
    \/ \E o \in Orgs, s \in Slugs : UpdateOrg(c, o, s)
    \/ \E o \in Orgs, t \in NewId(Teams, teams) : CountForTeam(c, o, t)
    \/ \E o \in Orgs, t \in Teams : DeleteTeam(c, o, t)
    \/ \E o \in Orgs, t \in Teams, s \in Slugs : UpdateTeam(c, o, t, s)
    \/ \E u \in NewId(Users, users), e \in Emails, sys \in BOOLEAN, o \in Orgs,
          r \in {"member", "team_admin", "org_admin"} : CreateUser(c, u, e, sys, o, r)
    \/ \E u \in Users, e \in Emails, sys \in {"keep", "yes", "no"} : UpdateUser(c, u, e, sys)
    \/ \E u \in Users : DeleteUser(c, u)
    \/ \E o \in Orgs, u \in Users, r \in {"member", "org_admin"} :
          CreateOrgMembership(c, o, u, r) \/ UpdateOrgMembership(c, o, u, r)
    \/ \E o \in Orgs, u \in Users : DeleteOrgMembership(c, o, u)
    \/ \E o \in Orgs, t \in Teams, u \in Users, r \in {"member", "team_admin"} :
          CreateTeamMembership(c, o, t, u, r) \/ UpdateTeamMembership(c, o, t, u, r)
    \/ \E o \in Orgs, t \in Teams, u \in Users : DeleteTeamMembership(c, o, t, u)
    \/ \E o \in Orgs, a \in NewId(Accounts, accounts), t \in Teams \cup {None} : CreateServiceAccount(c, o, a, t)
    \/ \E o \in Orgs, a \in Accounts : DeleteServiceAccount(c, o, a)
    \/ \E o \in Orgs, k \in TenantKeys : CreateAPIKey(c, o, k) \/ DeleteAPIKey(c, o, k)

(* The periodic reload of StartCacheRefresh. *)
Refresh == cache' = Fresh /\ by' = Out /\ UNCHANGED <<tables, keys, pending, ops>>

Callers == IF ops < MaxOps THEN {c \in TenantKeys : Ki(c) # Out} ELSE {}

Next ==
    \/ \E c \in Callers : CallBy(c)
    \/ \E o \in Orgs, s \in Slugs : CreateOrg(o, s)
    \/ \E t \in Teams, s \in Slugs : CreateTeam(t, s)
    \/ \E p \in pending : CreationFails(p)
    \/ Refresh

Spec == Init /\ [][Next]_vars

(***************************************************************************)
(* Properties.                                                             *)
(***************************************************************************)
RowsOf(o) ==
    <<orgs[o],
      [t \in {x \in Teams : teams[x].org = o} |-> <<teams[t], [u \in Users |-> teamMembers[<<t, u>>]]>>],
      [u \in Users |-> members[<<o, u>>]],
      [a \in {x \in Accounts : accounts[x].org = o} |-> accounts[a]],
      {k \in keys : k.org = o}>>

(* A request of a caller that is not a system administrator changes rows   *)
(* of the caller's own organisation only, and users the organisation has   *)
(* a role for: the path's org_id, the row's org_id and the key's org_id    *)
(* are compared by each handler separately (authz.go, and the existing.OrgID *)
(* checks of every update and delete).                                     *)
OwnTenantOnly ==
    by' # Out /\ by'.role # "system_admin" =>
        /\ \A o \in Orgs \ {by'.org} : RowsOf(o)' = RowsOf(o)
        /\ \A u \in Users : users'[u] # users[u] => \/ DB!GetUserOrgRole(u, by'.org) # None
                                                    \/ ~DB!Exists(users, u)

(* No request of such a caller makes a system administrator or gives       *)
(* anybody the org_admin role: CreateUser, UpdateUser and both membership  *)
(* handlers check that in four places.                                     *)
NoEscalation ==
    by' # Out /\ by'.role # "system_admin" =>
        /\ \A u \in Users : users'[u].sys => users[u].sys
        /\ \A o \in Orgs, u \in Users :
               members'[<<o, u>>] = "org_admin" => members[<<o, u>>] = "org_admin"

(* Both of them: no request reaches beyond its tenant or above its role. *)
TenantIsolation == [][OwnTenantOnly /\ NoEscalation]_vars

(* What the list handlers show a caller is what the get handlers show it:  *)
(* the first filter in SQL, the second check the row they loaded. A list   *)
(* of deleted rows shows names, never the suffix of a deletion.            *)
ListAgreesWithGet ==
    \A c \in {x \in TenantKeys : Ki(x) # Out} :
        /\ {o \in ListOrgs(c) : DB!Live(orgs, o)} = GetOrg(c)
        /\ \A o \in Orgs :
            /\ {t \in ListTeams(c, o) : DB!Live(teams, t)} = {t \in GetTeam(c) : teams[t].org = o}
            /\ {a \in ListServiceAccounts(c, o) : DB!Live(accounts, a)} = GetServiceAccount(c, o)
            /\ ListAPIKeys(c, o) \subseteq GetAPIKey(c, o)
            /\ {u \in ListOrgMemberships(c, o) : DB!Live(users, u)} \subseteq GetUser(c)
            /\ \A t \in Teams : ListTeamMemberships(c, o, t) # {} => t \in GetTeam(c)
        /\ {u \in ListUsers(c) : DB!Live(users, u)} \subseteq GetUser(c)
        /\ \A o \in ListOrgs(c) : /\ ~DB!ContainsTombstoneMarker(orgToResponse(o))
                                 /\ \A t \in ListTeams(c, o) : ~DB!ContainsTombstoneMarker(teamToResponse(t))
        /\ \A u \in ListUsers(c) : ~DB!ContainsTombstoneMarker(userToResponse(u))

(* A key in the cache belongs to a user who is there and still a member,   *)
(* or to a service account that is there. A cached system administrator    *)
(* may have lost the flag, but must still be there.                        *)
GoneMeansOut ==
    \A k \in TenantKeys : cache[k] # Out =>
        /\ k.kind = "user_key" => /\ DB!Live(users, k.owner)
                                  /\ cache[k].role # "system_admin" => members[<<k.org, k.owner>>] # None
        /\ k.kind = "sa_key" => DB!Live(accounts, k.owner)

(* Counting and inserting are two statements, so concurrent creations      *)
(* overrun the licence, but only by those in flight besides the last.      *)
LicenceOverrun ==
    /\ MaxOrgs > 0 => DB!CountOrgs <= MaxOrgs + MaxInFlight - 1
    /\ MaxTeams > 0 => \A o \in Orgs : DB!CountTeams(o) <= MaxTeams + MaxInFlight - 1
=============================================================================
