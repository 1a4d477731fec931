--------------------------- MODULE TenantsProofs ---------------------------
(***************************************************************************)
(* Proofs about Tenants, for any organisations, teams, users, accounts and *)
(* keys.                                                                   *)
(***************************************************************************)
EXTENDS Tenants, Sequences, FiniteSetTheorems, TLAPS

OrgRoles == {"member", "team_admin", "org_admin"}
AllRoles == OrgRoles \cup {"system_admin"}

\* A row is unused, live under the name it was given, or deleted and renamed by
\* its id.
OrgRow(o) ==
    {DB!AbsentOrg}
      \cup [slug : Slugs, org : {o}, status : {"live"}]
      \cup [slug : {Append(s, o) : s \in Slugs}, org : {o}, status : {"deleted"}]
TeamRow(t) ==
    {DB!AbsentTeam}
      \cup [slug : Slugs, org : Orgs, status : {"live"}]
      \cup [slug : {Append(s, t) : s \in Slugs}, org : Orgs, status : {"deleted"}]
UserRow(u) ==
    {DB!AbsentUser}
      \cup [email : Emails, sys : BOOLEAN, status : {"live"}]
      \cup [email : {Append(e, u) : e \in Emails}, sys : BOOLEAN, status : {"deleted"}]
AccountRow ==
    {DB!AbsentAccount}
      \cup [org : Orgs, team : Teams \cup {None}, by : Users, status : {"live", "deleted"}]

StoreTyped ==
    /\ DOMAIN orgs = Orgs /\ \A o \in Orgs : orgs[o] \in OrgRow(o)
    /\ DOMAIN teams = Teams /\ \A t \in Teams : teams[t] \in TeamRow(t)
    /\ DOMAIN users = Users /\ \A u \in Users : users[u] \in UserRow(u)
    /\ members \in [Orgs \X Users -> OrgRoles \cup {None}]
    /\ teamMembers \in [Teams \X Users -> {"member", "team_admin", None}]
    /\ accounts \in [Accounts -> AccountRow]

KeyInfos == [role : AllRoles, user : Users \cup {None}, org : Orgs,
             team : Teams \cup {None}, account : Accounts \cup {None}]

\* What the cache may hold for key k: nothing, or the rights of a key that is
\* stored and whose owner is there.
Sound(k, info) ==
    \/ info = Out
    \/ /\ info \in KeyInfos /\ k \in keys
       /\ k.kind = "user_key" => /\ DB!Live(users, k.owner)
                                 /\ info.role # "system_admin" => members[<<k.org, k.owner>>] # None
       /\ k.kind = "sa_key" => DB!Live(accounts, k.owner)

CacheSound == DOMAIN cache = TenantKeys /\ \A k \in TenantKeys : Sound(k, cache[k])

\* Rows that count for the licence, and creations on their way to be counted.
LiveOrgs == {o \in Orgs : DB!Live(orgs, o)}
LiveTeams(o) == {t \in Teams : DB!Live(teams, t) /\ teams[t].org = o}
OrgsUnderway == {p \in pending : p.id \in Orgs}
TeamsUnderway(o) == {p \in pending : p.id \in Teams /\ p.org = o}

PendingTyped ==
    /\ IsFiniteSet(pending) /\ Cardinality(pending) <= MaxInFlight
    /\ pending \subseteq [id : Orgs \cup Teams, org : Orgs]

\* The licence is overrun by live rows and creations under way together: an
\* insert then only turns the one into the other.
OrgsFit ==
    /\ IsFiniteSet(LiveOrgs)
    /\ MaxOrgs > 0 =>
         Cardinality(LiveOrgs) + Cardinality(OrgsUnderway) <= MaxOrgs + MaxInFlight - 1
TeamsFitIn(o) ==
    /\ IsFiniteSet(LiveTeams(o))
    /\ MaxTeams > 0 =>
         Cardinality(LiveTeams(o)) + Cardinality(TeamsUnderway(o)) <= MaxTeams + MaxInFlight - 1

LicenceKept == PendingTyped /\ OrgsFit /\ \A o \in Orgs : TeamsFitIn(o)

TenantsInv == StoreTyped /\ CacheSound /\ LicenceKept

-----------------------------------------------------------------------------
\* Roles are ranked in the order of their list.
LEMMA Ranks ==
    /\ Rank("member") = 1 /\ Rank("team_admin") = 2
    /\ Rank("org_admin") = 3 /\ Rank("system_admin") = 4
  BY DEF Rank, Roles

\* What HasRole asks of a role.
LEMMA RoleOrder ==
    \A r \in AllRoles :
        /\ HasRole(r, "member")
        /\ HasRole(r, "team_admin") <=> r # "member"
        /\ HasRole(r, "org_admin") <=> r \in {"org_admin", "system_admin"}
        /\ HasRole(r, "system_admin") <=> r = "system_admin"
  BY Ranks DEF HasRole, AllRoles, OrgRoles

\* An unused id is one of the ids.
LEMMA NewIdIsId == ASSUME NEW ids, NEW table PROVE NewId(ids, table) \subseteq ids
  <1> DEFINE free == {x \in ids : ~DB!Exists(table, x) /\ \A p \in pending : p.id # x}
  <1>1. CASE free = {}
    BY <1>1 DEF NewId
  <1>2. CASE free # {}
    <2>1. (CHOOSE x \in free : TRUE) \in free
      BY <1>2
    <2> QED BY <1>2, <2>1 DEF NewId
  <1> QED BY <1>1, <1>2

ReloadSound == DOMAIN Fresh = TenantKeys /\ \A k \in TenantKeys : Sound(k, Fresh[k])

\* A reload brings in only keys whose owners are there.
LEMMA FreshSound == StoreTyped => ReloadSound
  <1> SUFFICES ASSUME StoreTyped, NEW k \in TenantKeys PROVE Sound(k, Fresh[k])
    BY DEF Fresh, ReloadSound
  <1>1. CASE ~(Selected(k) /\ Cacheable(k))
    BY <1>1 DEF Fresh, Sound
  <1>2. CASE Selected(k) /\ Cacheable(k)
    <2>1. Fresh[k] = KeyInfoFromRecord(k)
      BY <1>2 DEF Fresh
    <2>2. CASE k.kind = "user_key"
      BY <1>2, <2>1, <2>2, TenantsAssumption
      DEF Sound, Selected, Cacheable, KeyInfoFromRecord, KeyInfos, StoreTyped, AllRoles,
          OrgRoles, UserRow, DB!Live, DB!AbsentUser, None, DB!None
    <2>3. CASE k.kind = "sa_key"
      BY <1>2, <2>1, <2>3, TenantsAssumption
      DEF Sound, Selected, Cacheable, KeyInfoFromRecord, KeyInfos, StoreTyped, AllRoles,
          OrgRoles, AccountRow, DB!Live, DB!AbsentAccount, None, DB!None
    <2>4. CASE k.kind = "team_key"
      BY <1>2, <2>1, <2>4, TenantsAssumption
      DEF Sound, Selected, KeyInfoFromRecord, KeyInfos, AllRoles, OrgRoles, None, DB!None
    <2> QED BY <2>2, <2>3, <2>4, TenantsAssumption
  <1> QED BY <1>1, <1>2

\* The same of a reload that reads what the step wrote.
LEMMA FreshSoundNext == StoreTyped' => ReloadSound'
  BY FreshSound, PTL

\* The caller of a request has the rights the cache holds for its key.
LEMMA CallerKnown ==
    ASSUME CacheSound, NEW c \in Callers
    PROVE  c \in TenantKeys /\ Ki(c) \in KeyInfos
  BY DEF Callers, CacheSound, Sound, Ki

\* The owners of keys.
LEMMA KeyOwners ==
    \A k \in TenantKeys :
        /\ k.org \in Orgs
        /\ k.kind = "user_key" => k.owner \in Users
        /\ k.kind = "sa_key" => k.owner \in Accounts
  BY TenantsAssumption

\* A step that takes away no key, owner or membership leaves the cache sound.
LEMMA CacheKept ==
    ASSUME CacheSound, cache' = cache, keys \subseteq keys',
           \A u \in Users : DB!Live(users, u) => DB!Live(users, u)',
           \A o \in Orgs, u \in Users : members[<<o, u>>] # None => members'[<<o, u>>] # None,
           \A a \in Accounts : DB!Live(accounts, a) => DB!Live(accounts, a)'
    PROVE  CacheSound'
  <1> SUFFICES ASSUME NEW k \in TenantKeys PROVE Sound(k, cache[k])'
    BY DEF CacheSound
  <1>1. Sound(k, cache[k])
    BY DEF CacheSound
  <1> QED BY <1>1, KeyOwners DEF Sound

-----------------------------------------------------------------------------
\* The organisation table.
LEMMA OrgHandlers ==
    ASSUME StoreTyped, CacheSound, NEW o \in Orgs,
           \/ \E s \in Slugs : CreateOrg(o, s)
           \/ \E c \in TenantKeys : DeleteOrg(c, o) \/ \E s \in Slugs : UpdateOrg(c, o, s)
    PROVE  StoreTyped' /\ CacheSound'
  <1>1. \A x \in Orgs : orgs'[x] \in OrgRow(x)
    <2>1. ASSUME NEW s \in Slugs, CreateOrg(o, s) PROVE \A x \in Orgs : orgs'[x] \in OrgRow(x)
      BY <2>1 DEF CreateOrg, DB!CreateOrg, StoreTyped, OrgRow
    <2>2. ASSUME NEW c \in TenantKeys, NEW s \in Slugs, UpdateOrg(c, o, s)
          PROVE  \A x \in Orgs : orgs'[x] \in OrgRow(x)
      BY <2>2 DEF UpdateOrg, DB!UpdateOrg, DB!Live, DB!AbsentOrg, StoreTyped, OrgRow
    <2>3. ASSUME NEW c \in TenantKeys, DeleteOrg(c, o)
          PROVE  \A x \in Orgs : orgs'[x] \in OrgRow(x)
      BY <2>3 DEF DeleteOrg, DB!DeleteOrg, DB!Live, DB!Tombstone, DB!AbsentOrg, StoreTyped, OrgRow
    <2> QED BY <2>1, <2>2, <2>3
  <1>2. DOMAIN orgs' = Orgs /\ UNCHANGED <<teams, users, members, teamMembers, accounts, keys, cache>>
    BY DEF CreateOrg, UpdateOrg, DeleteOrg, DB!CreateOrg, DB!UpdateOrg, DB!DeleteOrg, StoreTyped
  <1>3. StoreTyped'
    BY <1>1, <1>2 DEF StoreTyped
  <1>4. CacheSound'
    BY <1>2 DEF CacheSound, Sound, DB!Live
  <1> QED BY <1>3, <1>4

\* The team table.
LEMMA TeamHandlers ==
    ASSUME StoreTyped, CacheSound, pending \subseteq [id : Orgs \cup Teams, org : Orgs],
           NEW t \in Teams,
           \/ \E s \in Slugs : CreateTeam(t, s)
           \/ \E c \in TenantKeys, o \in Orgs : \/ DeleteTeam(c, o, t)
                                                \/ \E s \in Slugs : UpdateTeam(c, o, t, s)
    PROVE  StoreTyped' /\ CacheSound'
  <1>1. \A x \in Teams : teams'[x] \in TeamRow(x)
    <2>1. ASSUME NEW s \in Slugs, CreateTeam(t, s) PROVE \A x \in Teams : teams'[x] \in TeamRow(x)
      BY <2>1 DEF CreateTeam, DB!CreateTeam, StoreTyped, TeamRow
    <2>2. ASSUME NEW c \in TenantKeys, NEW o \in Orgs, NEW s \in Slugs, UpdateTeam(c, o, t, s)
          PROVE  \A x \in Teams : teams'[x] \in TeamRow(x)
      BY <2>2 DEF UpdateTeam, DB!UpdateTeam, DB!Live, DB!AbsentTeam, StoreTyped, TeamRow
    <2>3. ASSUME NEW c \in TenantKeys, NEW o \in Orgs, DeleteTeam(c, o, t)
          PROVE  \A x \in Teams : teams'[x] \in TeamRow(x)
      BY <2>3 DEF DeleteTeam, DB!DeleteTeam, DB!Live, DB!Tombstone, DB!AbsentTeam, StoreTyped, TeamRow
    <2> QED BY <2>1, <2>2, <2>3
  <1>2. DOMAIN teams' = Teams /\ UNCHANGED <<orgs, users, members, teamMembers, accounts, keys, cache>>
    BY DEF CreateTeam, UpdateTeam, DeleteTeam, DB!CreateTeam, DB!UpdateTeam, DB!DeleteTeam, StoreTyped
  <1>3. StoreTyped'
    BY <1>1, <1>2 DEF StoreTyped
  <1>4. CacheSound'
    BY <1>2 DEF CacheSound, Sound, DB!Live
  <1> QED BY <1>3, <1>4

UserCall(c, u) ==
    \/ \E e \in Emails, sys \in BOOLEAN, o \in Orgs, role \in OrgRoles :
          CreateUser(c, u, e, sys, o, role)
    \/ \E e \in Emails, sys \in {"keep", "yes", "no"} : UpdateUser(c, u, e, sys)
    \/ DeleteUser(c, u)

\* The user table. A deleted user's keys are evicted: they are all stored.
LEMMA UserHandlers ==
    ASSUME StoreTyped, CacheSound, NEW c \in TenantKeys, NEW u \in Users, UserCall(c, u)
    PROVE  StoreTyped' /\ CacheSound'
  <1>1. ASSUME NEW e \in Emails, NEW sys \in BOOLEAN, NEW o \in Orgs, NEW role \in OrgRoles,
               CreateUser(c, u, e, sys, o, role)
        PROVE  StoreTyped' /\ CacheSound'
    <2>1. /\ users' = [users EXCEPT ![u] = [email |-> e, sys |-> sys, status |-> "live"]]
          /\ members' = [members EXCEPT ![<<o, u>>] = role]
          /\ ~DB!Live(users, u)
          /\ UNCHANGED <<orgs, teams, teamMembers, accounts, keys, cache>>
      BY <1>1 DEF CreateUser, DB!CreateUserWithMembership, DB!Exists, DB!Live
    <2>2. \A x \in Users : users'[x] \in UserRow(x)
      BY <2>1 DEF StoreTyped, UserRow
    <2>3. StoreTyped'
      BY <2>1, <2>2 DEF StoreTyped
    <2>4. \A x \in Users : DB!Live(users, x) => DB!Live(users, x)'
      BY <2>1 DEF StoreTyped, DB!Live
    <2>5. \A x \in Orgs, y \in Users : members[<<x, y>>] # None => members'[<<x, y>>] # None
      BY <2>1 DEF StoreTyped, OrgRoles, None, DB!None
    <2>6. CacheSound'
      BY <2>1, <2>4, <2>5, CacheKept DEF DB!Live
    <2> QED BY <2>3, <2>6
  <1>2. ASSUME NEW e \in Emails, NEW sys \in {"keep", "yes", "no"}, UpdateUser(c, u, e, sys)
        PROVE  StoreTyped' /\ CacheSound'
    <2> DEFINE flag == IF sys = "keep" THEN users[u].sys ELSE sys = "yes"
    <2>1. /\ users' = [users EXCEPT ![u].email = e, ![u].sys = flag]
          /\ DB!Live(users, u)
          /\ UNCHANGED <<orgs, teams, members, teamMembers, accounts, keys, cache>>
      BY <1>2 DEF UpdateUser, DB!UpdateUser
    <2>2. flag \in BOOLEAN
      BY <2>1 DEF StoreTyped, UserRow, DB!Live, DB!AbsentUser
    <2> HIDE DEF flag
    <2>3. users[u] \in [email : Emails, sys : BOOLEAN, status : {"live"}]
      BY <2>1 DEF StoreTyped, UserRow, DB!Live, DB!AbsentUser
    <2>4. /\ users'[u] \in [email : Emails, sys : BOOLEAN, status : {"live"}]
          /\ \A x \in Users : x # u => users'[x] = users[x]
          /\ DOMAIN users' = Users
      BY <2>1, <2>2, <2>3 DEF StoreTyped
    <2>5. StoreTyped'
      BY <2>1, <2>4 DEF StoreTyped, UserRow
    <2>6. \A x \in Users : DB!Live(users, x) => DB!Live(users, x)'
      BY <2>4 DEF DB!Live
    <2>7. CacheSound'
      BY <2>1, <2>6, CacheKept DEF DB!Live
    <2> QED BY <2>5, <2>7
  <1>3. CASE DeleteUser(c, u)
    <2>1. /\ DB!DeleteUser(u)
          /\ Evict(ListActiveKeyHashesByUser(u))
          /\ UNCHANGED <<orgs, teams, members, teamMembers, accounts, keys>>
      BY <1>3 DEF DeleteUser
    <2>2. \A x \in Users : users'[x] \in UserRow(x)
      BY <2>1 DEF DB!DeleteUser, DB!Live, DB!Tombstone, StoreTyped, UserRow, DB!AbsentUser
    <2>3. StoreTyped'
      BY <2>1, <2>2 DEF StoreTyped, DB!DeleteUser
    <2>4. \A x \in Users : x # u => users'[x] = users[x]
      BY <2>1 DEF StoreTyped, DB!DeleteUser
    <2>5. CacheSound'
      BY <2>1, <2>4, TenantsAssumption
      DEF CacheSound, Sound, Evict, ListActiveKeyHashesByUser, DB!Live
    <2> QED BY <2>3, <2>5
  <1> QED BY <1>1, <1>2, <1>3 DEF UserCall

MembershipCall(c, o, u) ==
    \/ \E role \in {"member", "org_admin"} : \/ CreateOrgMembership(c, o, u, role)
                                             \/ UpdateOrgMembership(c, o, u, role)
    \/ DeleteOrgMembership(c, o, u)

\* Memberships of organisations. Creation and update reload the cache after the
\* write, if the reload succeeds; a removed member's keys are evicted.
LEMMA MembershipHandlers ==
    ASSUME StoreTyped, CacheSound, NEW c \in TenantKeys, NEW o \in Orgs, NEW u \in Users,
           MembershipCall(c, o, u)
    PROVE  StoreTyped' /\ CacheSound'
  <1>1. ASSUME NEW role \in {"member", "org_admin"},
               CreateOrgMembership(c, o, u, role) \/ UpdateOrgMembership(c, o, u, role)
        PROVE  StoreTyped' /\ CacheSound'
    <2>1. /\ members' = [members EXCEPT ![<<o, u>>] = role]
          /\ UNCHANGED <<orgs, teams, users, teamMembers, accounts, keys>>
          /\ LoadKeysIntoCache
      BY <1>1 DEF CreateOrgMembership, UpdateOrgMembership, DB!CreateOrgMembership,
                  DB!UpdateOrgMembership
    <2>2. members' \in [Orgs \X Users -> OrgRoles \cup {None}]
      BY <2>1 DEF StoreTyped, OrgRoles
    <2>3. StoreTyped'
      BY <2>1, <2>2 DEF StoreTyped
    <2>4. CASE cache' = cache
      <3>1. \A x \in Orgs, y \in Users : members[<<x, y>>] # None => members'[<<x, y>>] # None
        BY <2>1 DEF StoreTyped, None, DB!None
      <3> QED BY <2>1, <2>3, <2>4, <3>1, CacheKept DEF DB!Live
    <2>5. CASE cache' = Fresh'
      BY <2>3, <2>5, FreshSoundNext DEF CacheSound, ReloadSound
    <2> QED BY <2>1, <2>3, <2>4, <2>5 DEF LoadKeysIntoCache
  <1>2. CASE DeleteOrgMembership(c, o, u)
    <2>1. /\ members' = [members EXCEPT ![<<o, u>>] = None]
          /\ UNCHANGED <<orgs, teams, users, teamMembers, accounts, keys>>
          /\ Evict(ListActiveKeyHashesByUserInOrg(u, o))
      BY <1>2 DEF DeleteOrgMembership, DB!DeleteOrgMembership, None
    <2>2. members' \in [Orgs \X Users -> OrgRoles \cup {None}]
      BY <2>1 DEF StoreTyped
    <2>3. StoreTyped'
      BY <2>1, <2>2 DEF StoreTyped
    <2>4. \A x \in Orgs, y \in Users :
             <<x, y>> # <<o, u>> => members'[<<x, y>>] = members[<<x, y>>]
      BY <2>1 DEF StoreTyped
    <2>5. CacheSound'
      <3> SUFFICES ASSUME NEW k \in TenantKeys PROVE Sound(k, cache[k])'
        BY <2>1 DEF CacheSound, Evict
      <3>1. Sound(k, cache[k])
        BY DEF CacheSound
      <3>2. CASE k \in ListActiveKeyHashesByUserInOrg(u, o)
        BY <2>1, <3>2 DEF Evict, Sound
      <3>3. CASE k \notin ListActiveKeyHashesByUserInOrg(u, o)
        <4>1. cache'[k] = cache[k]
          BY <2>1, <3>3 DEF Evict
        <4>2. CASE k.kind = "user_key" /\ k.owner = u /\ k.org = o
          BY <3>1, <3>3, <4>1, <4>2
          DEF Sound, ListActiveKeyHashesByUserInOrg, ListActiveKeyHashesByUser
        <4>3. CASE ~(k.kind = "user_key" /\ k.owner = u /\ k.org = o)
          BY <2>1, <2>4, <3>1, <4>1, <4>3, KeyOwners DEF Sound, DB!Live
        <4> QED BY <4>2, <4>3
      <3> QED BY <3>2, <3>3
    <2> QED BY <2>3, <2>5
  <1> QED BY <1>1, <1>2 DEF MembershipCall

TeamMembershipCall(c, o, t, u) ==
    \/ \E role \in {"member", "team_admin"} : \/ CreateTeamMembership(c, o, t, u, role)
                                              \/ UpdateTeamMembership(c, o, t, u, role)
    \/ DeleteTeamMembership(c, o, t, u)

\* Memberships of teams: no key depends on them.
LEMMA TeamMembershipHandlers ==
    ASSUME StoreTyped, CacheSound, NEW c \in TenantKeys, NEW o \in Orgs, NEW t \in Teams,
           NEW u \in Users, TeamMembershipCall(c, o, t, u)
    PROVE  StoreTyped' /\ CacheSound'
  <1>1. \E r \in {"member", "team_admin", None} : teamMembers' = [teamMembers EXCEPT ![<<t, u>>] = r]
    BY DEF TeamMembershipCall, CreateTeamMembership, UpdateTeamMembership, DeleteTeamMembership,
           DB!CreateTeamMembership, DB!UpdateTeamMembership, DB!DeleteTeamMembership, None
  <1>2. UNCHANGED <<orgs, teams, users, members, accounts, keys, cache>>
    BY DEF TeamMembershipCall, CreateTeamMembership, UpdateTeamMembership, DeleteTeamMembership
  <1>3. StoreTyped'
    BY <1>1, <1>2 DEF StoreTyped
  <1>4. CacheSound'
    BY <1>2, CacheKept DEF DB!Live
  <1> QED BY <1>3, <1>4

\* Service accounts. A deleted account's keys are evicted.
LEMMA AccountHandlers ==
    ASSUME StoreTyped, CacheSound, NEW c \in Callers, NEW o \in Orgs, NEW a \in Accounts,
           \/ \E t \in Teams \cup {None} : CreateServiceAccount(c, o, a, t)
           \/ DeleteServiceAccount(c, o, a)
    PROVE  StoreTyped' /\ CacheSound'
  <1>1. ASSUME NEW t \in Teams \cup {None}, CreateServiceAccount(c, o, a, t)
        PROVE  StoreTyped' /\ CacheSound'
    <2>1. Ki(c).user \in Users
      BY <1>1, CallerKnown DEF CreateServiceAccount, KeyInfos
    <2>2. /\ accounts' = [accounts EXCEPT ![a] = [org |-> o, team |-> t, by |-> Ki(c).user, status |-> "live"]]
          /\ UNCHANGED <<orgs, teams, users, members, teamMembers, keys, cache>>
      BY <1>1 DEF CreateServiceAccount, DB!CreateServiceAccount
    <2>3. StoreTyped'
      BY <2>1, <2>2 DEF StoreTyped, AccountRow
    <2>4. \A x \in Accounts : DB!Live(accounts, x) => DB!Live(accounts, x)'
      BY <2>2 DEF StoreTyped, DB!Live
    <2>5. CacheSound'
      BY <2>2, <2>4, CacheKept DEF DB!Live
    <2> QED BY <2>3, <2>5
  <1>2. CASE DeleteServiceAccount(c, o, a)
    <2>1. /\ DB!Live(accounts, a) /\ accounts' = [accounts EXCEPT ![a].status = "deleted"]
          /\ Evict(ListActiveKeyHashesByServiceAccount(a))
          /\ UNCHANGED <<orgs, teams, users, members, teamMembers, keys>>
      BY <1>2 DEF DeleteServiceAccount, DB!DeleteServiceAccount
    <2> DEFINE Used == [org : Orgs, team : Teams \cup {None}, by : Users, status : {"live", "deleted"}]
    <2>2. accounts[a] \in Used
      BY <2>1 DEF StoreTyped, AccountRow, DB!Live, DB!AbsentAccount
    <2>3. [accounts[a] EXCEPT !.status = "deleted"] \in Used
      BY <2>2
    <2>4. accounts' \in [Accounts -> AccountRow]
      BY <2>1, <2>3 DEF StoreTyped, AccountRow
    <2>5. StoreTyped'
      BY <2>1, <2>4 DEF StoreTyped
    <2>6. \A x \in Accounts : x # a => accounts'[x] = accounts[x]
      BY <2>1 DEF StoreTyped
    <2>7. CacheSound'
      <3> SUFFICES ASSUME NEW k \in TenantKeys PROVE Sound(k, cache[k])'
        BY <2>1 DEF CacheSound, Evict
      <3>1. Sound(k, cache[k])
        BY DEF CacheSound
      <3>2. CASE k \in ListActiveKeyHashesByServiceAccount(a)
        BY <2>1, <3>2 DEF Evict, Sound
      <3>3. CASE k \notin ListActiveKeyHashesByServiceAccount(a)
        <4>1. cache'[k] = cache[k]
          BY <2>1, <3>3 DEF Evict
        <4> QED BY <2>1, <2>6, <3>1, <3>3, <4>1, KeyOwners
                DEF Sound, ListActiveKeyHashesByServiceAccount, DB!Live
      <3> QED BY <3>2, <3>3
    <2> QED BY <2>5, <2>7
  <1> QED BY <1>1, <1>2

\* Keys. A new key is put in the cache from the tables as they are then.
LEMMA KeyHandlers ==
    ASSUME StoreTyped, CacheSound, NEW c \in TenantKeys, NEW o \in Orgs, NEW key \in TenantKeys,
           CreateAPIKey(c, o, key) \/ DeleteAPIKey(c, o, key)
    PROVE  StoreTyped' /\ CacheSound'
  <1>1. UNCHANGED tables
    BY DEF CreateAPIKey, DeleteAPIKey
  <1>2. StoreTyped'
    BY <1>1 DEF tables, StoreTyped
  <1>3. CASE CreateAPIKey(c, o, key)
    <2>1. ReloadSound'
      BY <1>2, FreshSoundNext
    <2>2. keys \subseteq keys' /\ cache' = [cache EXCEPT ![key] = Fresh'[key]]
      BY <1>3 DEF CreateAPIKey
    <2>3. ASSUME NEW x \in TenantKeys, x # key PROVE Sound(x, cache[x])'
      <3>1. cache'[x] = cache[x] /\ Sound(x, cache[x])
        BY <2>2, <2>3 DEF CacheSound
      <3> QED BY <1>1, <2>2, <3>1 DEF tables, Sound, DB!Live
    <2>4. Sound(key, cache[key])'
      BY <2>1, <2>2 DEF CacheSound, Sound, ReloadSound
    <2> QED BY <1>2, <2>2, <2>3, <2>4 DEF CacheSound
  <1>4. CASE DeleteAPIKey(c, o, key)
    <2>1. Evict({key}) /\ keys' = keys \ {key}
      BY <1>4 DEF DeleteAPIKey
    <2> QED BY <1>1, <1>2, <2>1 DEF tables, CacheSound, Sound, Evict, DB!Live
  <1> QED BY <1>3, <1>4

-----------------------------------------------------------------------------
\* Fewer live rows and creations still fit.
LEMMA StillFits ==
    ASSUME NEW L, NEW U, NEW L2, NEW U2, NEW lim \in Nat,
           IsFiniteSet(L), IsFiniteSet(U), L2 \subseteq L, U2 \subseteq U,
           Cardinality(L) + Cardinality(U) <= lim
    PROVE  Cardinality(L2) + Cardinality(U2) <= lim
  <1>1. IsFiniteSet(L2) /\ Cardinality(L2) <= Cardinality(L)
    BY FS_Subset
  <1>2. IsFiniteSet(U2) /\ Cardinality(U2) <= Cardinality(U)
    BY FS_Subset
  <1>3. /\ Cardinality(L) \in Nat /\ Cardinality(U) \in Nat
        /\ Cardinality(L2) \in Nat /\ Cardinality(U2) \in Nat
    BY <1>1, <1>2, FS_CardinalityType
  <1> QED BY <1>1, <1>2, <1>3

\* A creation that becomes a row fits where both together did.
LEMMA MovesIn ==
    ASSUME NEW L, NEW U, NEW x, NEW p \in U, NEW lim \in Nat,
           IsFiniteSet(L), IsFiniteSet(U), Cardinality(L) + Cardinality(U) <= lim
    PROVE  Cardinality(L \cup {x}) + Cardinality(U \ {p}) <= lim
  <1>1. IsFiniteSet(L \cup {x}) /\ Cardinality(L \cup {x}) <= Cardinality(L) + 1
    <2>1. Cardinality(L) \in Nat
      BY FS_CardinalityType
    <2>2. /\ IsFiniteSet(L \cup {x})
          /\ Cardinality(L \cup {x}) = IF x \in L THEN Cardinality(L) ELSE Cardinality(L) + 1
      BY FS_AddElement
    <2> QED BY <2>1, <2>2
  <1>2. IsFiniteSet(U \ {p}) /\ Cardinality(U \ {p}) = Cardinality(U) - 1
    BY FS_RemoveElement
  <1>3. /\ Cardinality(L) \in Nat /\ Cardinality(U) \in Nat
        /\ Cardinality(L \cup {x}) \in Nat /\ Cardinality(U \ {p}) \in Nat
    BY <1>1, <1>2, FS_CardinalityType
  <1> QED BY <1>1, <1>2, <1>3

FewUnderway ==
    /\ IsFiniteSet(OrgsUnderway) /\ Cardinality(OrgsUnderway) <= MaxInFlight
    /\ \A o \in Orgs : /\ IsFiniteSet(TeamsUnderway(o))
                       /\ Cardinality(TeamsUnderway(o)) <= MaxInFlight

\* The creations under way are finitely many, and no more than all that are.
LEMMA UnderwayFinite == PendingTyped => FewUnderway
  <1> HAVE PendingTyped
  <1>1. ASSUME NEW S, S \subseteq pending
        PROVE  IsFiniteSet(S) /\ Cardinality(S) <= MaxInFlight
    <2>1. IsFiniteSet(S) /\ Cardinality(S) <= Cardinality(pending)
      BY <1>1, FS_Subset DEF PendingTyped
    <2>2. Cardinality(S) \in Nat /\ Cardinality(pending) \in Nat
      BY <2>1, FS_CardinalityType DEF PendingTyped
    <2> QED BY <2>1, <2>2, TenantsAssumption DEF PendingTyped
  <1>2. OrgsUnderway \subseteq pending /\ \A o \in Orgs : TeamsUnderway(o) \subseteq pending
    BY DEF OrgsUnderway, TeamsUnderway
  <1> QED BY <1>1, <1>2 DEF FewUnderway

\* The same after the step.
LEMMA UnderwayFiniteNext == PendingTyped' => FewUnderway'
  BY UnderwayFinite, PTL

\* A step without new creations, live organisations or live teams keeps within
\* the licence.
LEMMA FewerPending ==
    ASSUME PendingTyped, pending' \subseteq pending
    PROVE  PendingTyped'
  <1>1. IsFiniteSet(pending') /\ Cardinality(pending') <= Cardinality(pending)
    BY FS_Subset DEF PendingTyped
  <1>2. Cardinality(pending') \in Nat /\ Cardinality(pending) \in Nat
    BY <1>1, FS_CardinalityType DEF PendingTyped
  <1> QED BY <1>1, <1>2, TenantsAssumption DEF PendingTyped

\* See FewerPending.
LEMMA FewerOrgs ==
    ASSUME PendingTyped, OrgsFit, pending' \subseteq pending, LiveOrgs' \subseteq LiveOrgs
    PROVE  OrgsFit'
  <1>1. OrgsUnderway' \subseteq OrgsUnderway
    BY DEF OrgsUnderway
  <1>2. IsFiniteSet(LiveOrgs) /\ IsFiniteSet(LiveOrgs')
    BY FS_Subset DEF OrgsFit
  <1>3. IsFiniteSet(OrgsUnderway)
    BY UnderwayFinite DEF FewUnderway
  <1>4. ASSUME MaxOrgs > 0
        PROVE  Cardinality(LiveOrgs') + Cardinality(OrgsUnderway') <= MaxOrgs + MaxInFlight - 1
    <2>1. MaxOrgs + MaxInFlight - 1 \in Nat
      BY <1>4, TenantsAssumption
    <2>2. Cardinality(LiveOrgs) + Cardinality(OrgsUnderway) <= MaxOrgs + MaxInFlight - 1
      BY <1>4 DEF OrgsFit
    <2> QED BY <1>1, <1>2, <1>3, <2>1, <2>2, StillFits
  <1> QED BY <1>2, <1>4 DEF OrgsFit

\* See FewerPending.
LEMMA FewerTeams ==
    ASSUME PendingTyped, NEW o \in Orgs, pending' \subseteq pending,
           LiveTeams(o)' \subseteq LiveTeams(o), TeamsFitIn(o)
    PROVE  TeamsFitIn(o)'
  <1>1. TeamsUnderway(o)' \subseteq TeamsUnderway(o)
    BY DEF TeamsUnderway
  <1>2. IsFiniteSet(LiveTeams(o)) /\ IsFiniteSet(LiveTeams(o)')
    BY FS_Subset DEF TeamsFitIn
  <1>3. IsFiniteSet(TeamsUnderway(o))
    BY UnderwayFinite DEF FewUnderway
  <1>4. ASSUME MaxTeams > 0
        PROVE  Cardinality(LiveTeams(o)') + Cardinality(TeamsUnderway(o)') <= MaxTeams + MaxInFlight - 1
    <2>1. MaxTeams + MaxInFlight - 1 \in Nat
      BY <1>4, TenantsAssumption
    <2>2. Cardinality(LiveTeams(o)) + Cardinality(TeamsUnderway(o)) <= MaxTeams + MaxInFlight - 1
      BY <1>4 DEF TeamsFitIn
    <2> QED BY <1>1, <1>2, <1>3, <2>1, <2>2, StillFits
  <1> QED BY <1>2, <1>4 DEF TeamsFitIn

\* A creation is counted: there was room below the limit, and those under way
\* are at most MaxInFlight.
LEMMA CountFits ==
    ASSUME NEW L, NEW U, NEW max \in Nat, IsFiniteSet(L), IsFiniteSet(U),
           Cardinality(L) < max, Cardinality(U) <= MaxInFlight
    PROVE  Cardinality(L) + Cardinality(U) <= max + MaxInFlight - 1
  <1>1. Cardinality(L) \in Nat /\ Cardinality(U) \in Nat
    BY FS_CardinalityType
  <1> QED BY <1>1, TenantsAssumption

\* What the two counts count.
LEMMA CountsAreLive ==
    /\ DB!CountOrgs = Cardinality(LiveOrgs)
    /\ \A o \in Orgs : DB!CountTeams(o) = Cardinality(LiveTeams(o))
  <1>1. DB!CountOrgs = Cardinality(LiveOrgs)
    BY DEF DB!CountOrgs, LiveOrgs, DB!Live, DB!Cardinality, Cardinality
  <1>2. ASSUME NEW o \in Orgs PROVE DB!CountTeams(o) = Cardinality(LiveTeams(o))
    BY DEF DB!CountTeams, LiveTeams, DB!Live, DB!Cardinality, Cardinality
  <1> QED BY <1>1, <1>2

\* The counts of the two creations, which change no table.
LEMMA CountHandlers ==
    ASSUME TenantsInv, NEW c \in TenantKeys, NEW o \in Orgs,
           CountForOrg(c, o) \/ \E t \in Teams : CountForTeam(c, o, t)
    PROVE  TenantsInv'
  <1>1. PICK id \in Orgs \cup Teams :
           /\ pending' = pending \cup {[id |-> id, org |-> o]}
           /\ Cardinality(pending) < MaxInFlight
           /\ \/ id \in Orgs /\ (MaxOrgs > 0 => Cardinality(LiveOrgs) < MaxOrgs)
              \/ id \in Teams /\ (MaxTeams > 0 => Cardinality(LiveTeams(o)) < MaxTeams)
    <2>1. DB!CountOrgs = Cardinality(LiveOrgs) /\ DB!CountTeams(o) = Cardinality(LiveTeams(o))
      BY CountsAreLive
    <2>2. CASE CountForOrg(c, o)
      <3>1. /\ pending' = pending \cup {[id |-> o, org |-> o]}
            /\ Cardinality(pending) < MaxInFlight
            /\ MaxOrgs > 0 => Cardinality(LiveOrgs) < MaxOrgs
        BY <2>1, <2>2 DEF CountForOrg
      <3> QED BY <3>1, Zenon
    <2>3. CASE \E t \in Teams : CountForTeam(c, o, t)
      <3>1. PICK t \in Teams :
               /\ pending' = pending \cup {[id |-> t, org |-> o]}
               /\ Cardinality(pending) < MaxInFlight
               /\ MaxTeams > 0 => Cardinality(LiveTeams(o)) < MaxTeams
        BY <2>1, <2>3 DEF CountForTeam
      <3> QED BY <3>1, Zenon
    <2> QED BY <2>2, <2>3
  <1>2. UNCHANGED <<orgs, teams, users, members, teamMembers, accounts, keys, cache>>
    BY DEF CountForOrg, CountForTeam, tables
  <1>3. StoreTyped' /\ CacheSound'
    BY <1>2, CacheKept DEF TenantsInv, StoreTyped, DB!Live
  <1>4. LiveOrgs' = LiveOrgs /\ \A x \in Orgs : LiveTeams(x)' = LiveTeams(x)
    BY <1>2 DEF LiveOrgs, LiveTeams, DB!Live
  <1>5. PendingTyped'
    <2>1. IsFiniteSet(pending) /\ Cardinality(pending) \in Nat
      BY FS_CardinalityType DEF TenantsInv, LicenceKept, PendingTyped
    <2>2. /\ IsFiniteSet(pending')
          /\ Cardinality(pending') = IF [id |-> id, org |-> o] \in pending
                                     THEN Cardinality(pending) ELSE Cardinality(pending) + 1
      BY <1>1, <2>1, FS_AddElement
    <2>3. Cardinality(pending') <= MaxInFlight
      BY <1>1, <2>1, <2>2, TenantsAssumption
    <2> QED BY <1>1, <2>2, <2>3 DEF TenantsInv, LicenceKept, PendingTyped
  <1>6. FewUnderway'
    BY <1>5, UnderwayFiniteNext
  <1>7. OrgsFit'
    <2>1. CASE id \in Orgs
      BY <1>1, <1>4, <1>5, <1>6, <2>1, CountFits, TenantsAssumption
      DEF TenantsInv, LicenceKept, OrgsFit, FewUnderway
    <2>2. CASE id \in Teams
      <3>1. OrgsUnderway' = OrgsUnderway
        BY <1>1, <2>2, TenantsAssumption DEF OrgsUnderway
      <3> QED BY <1>4, <3>1 DEF TenantsInv, LicenceKept, OrgsFit
    <2> QED BY <2>1, <2>2
  <1>8. ASSUME NEW x \in Orgs PROVE TeamsFitIn(x)'
    <2>1. CASE id \in Teams /\ x = o
      BY <1>1, <1>4, <1>5, <1>6, <2>1, CountFits, TenantsAssumption
      DEF TenantsInv, LicenceKept, TeamsFitIn, FewUnderway
    <2>2. CASE ~(id \in Teams /\ x = o)
      <3>1. TeamsUnderway(x)' = TeamsUnderway(x)
        BY <1>1, <2>2 DEF TeamsUnderway
      <3> QED BY <1>4, <3>1 DEF TenantsInv, LicenceKept, TeamsFitIn
    <2> QED BY <2>1, <2>2
  <1> QED BY <1>3, <1>5, <1>7, <1>8 DEF TenantsInv, LicenceKept

\* An organisation that was counted is inserted.
LEMMA OrgCreated ==
    ASSUME TenantsInv, NEW o \in Orgs, NEW s \in Slugs, CreateOrg(o, s)
    PROVE  LicenceKept'
  <1>1. PICK p \in pending : p.id = o /\ pending' = pending \ {p}
    BY DEF CreateOrg
  <1>2. orgs' = [orgs EXCEPT ![o] = [slug |-> s, org |-> o, status |-> "live"]] /\ UNCHANGED teams
    BY DEF CreateOrg, DB!CreateOrg
  <1>3. LiveOrgs' = LiveOrgs \cup {o}
    BY <1>2 DEF LiveOrgs, DB!Live, TenantsInv, StoreTyped
  <1>4. OrgsUnderway' = OrgsUnderway \ {p} /\ p \in OrgsUnderway
    BY <1>1 DEF OrgsUnderway
  <1>5. IsFiniteSet(LiveOrgs) /\ IsFiniteSet(OrgsUnderway)
    BY UnderwayFinite DEF TenantsInv, LicenceKept, OrgsFit, FewUnderway
  <1>6. OrgsFit'
    <2>1. IsFiniteSet(LiveOrgs')
      BY <1>3, <1>5, FS_AddElement
    <2>2. ASSUME MaxOrgs > 0
          PROVE  Cardinality(LiveOrgs') + Cardinality(OrgsUnderway') <= MaxOrgs + MaxInFlight - 1
      <3>1. MaxOrgs + MaxInFlight - 1 \in Nat
        BY <2>2, TenantsAssumption
      <3>2. Cardinality(LiveOrgs) + Cardinality(OrgsUnderway) <= MaxOrgs + MaxInFlight - 1
        BY <2>2 DEF TenantsInv, LicenceKept, OrgsFit
      <3>3. Cardinality(LiveOrgs \cup {o}) + Cardinality(OrgsUnderway \ {p}) <= MaxOrgs + MaxInFlight - 1
        BY <1>4, <1>5, <3>1, <3>2, MovesIn
      <3> QED BY <1>3, <1>4, <3>3
    <2> QED BY <2>1, <2>2 DEF OrgsFit
  <1>7. PendingTyped' /\ \A x \in Orgs : TeamsFitIn(x)'
    <2>1. \A x \in Orgs : LiveTeams(x)' \subseteq LiveTeams(x)
      BY <1>2 DEF LiveTeams, DB!Live
    <2> QED BY <1>1, <2>1, FewerPending, FewerTeams DEF TenantsInv, LicenceKept
  <1> QED BY <1>6, <1>7 DEF LicenceKept

\* A team that was counted is inserted.
LEMMA TeamCreated ==
    ASSUME TenantsInv, NEW t \in Teams, NEW s \in Slugs, CreateTeam(t, s)
    PROVE  LicenceKept'
  <1>1. PICK p \in pending : p.id = t /\ pending' = pending \ {p} /\ DB!CreateTeam(t, p.org, s)
    BY DEF CreateTeam
  <1>2. /\ teams' = [teams EXCEPT ![t] = [slug |-> s, org |-> p.org, status |-> "live"]]
        /\ ~DB!Live(teams, t) /\ UNCHANGED orgs
    BY <1>1 DEF CreateTeam, DB!CreateTeam, DB!Exists, DB!Live
  <1>3. PendingTyped' /\ OrgsFit'
    <2>1. LiveOrgs' \subseteq LiveOrgs
      BY <1>2 DEF LiveOrgs, DB!Live
    <2> QED BY <1>1, <2>1, FewerPending, FewerOrgs DEF TenantsInv, LicenceKept
  <1>4. ASSUME NEW x \in Orgs, x # p.org PROVE TeamsFitIn(x)'
    <2>1. LiveTeams(x)' \subseteq LiveTeams(x)
      BY <1>2, <1>4 DEF LiveTeams, DB!Live, TenantsInv, StoreTyped
    <2> QED BY <1>1, <2>1, FewerTeams DEF TenantsInv, LicenceKept
  <1>5. ASSUME NEW x \in Orgs, x = p.org PROVE TeamsFitIn(x)'
    <2>1. LiveTeams(x)' = LiveTeams(x) \cup {t}
      BY <1>2, <1>5 DEF LiveTeams, DB!Live, TenantsInv, StoreTyped
    <2>2. TeamsUnderway(x)' = TeamsUnderway(x) \ {p} /\ p \in TeamsUnderway(x)
      BY <1>1, <1>5 DEF TeamsUnderway
    <2>3. IsFiniteSet(LiveTeams(x)) /\ IsFiniteSet(TeamsUnderway(x))
      BY UnderwayFinite DEF TenantsInv, LicenceKept, TeamsFitIn, FewUnderway
    <2>4. IsFiniteSet(LiveTeams(x)')
      BY <2>1, <2>3, FS_AddElement
    <2>5. ASSUME MaxTeams > 0
          PROVE  Cardinality(LiveTeams(x)') + Cardinality(TeamsUnderway(x)') <= MaxTeams + MaxInFlight - 1
      <3>1. MaxTeams + MaxInFlight - 1 \in Nat
        BY <2>5, TenantsAssumption
      <3>2. Cardinality(LiveTeams(x)) + Cardinality(TeamsUnderway(x)) <= MaxTeams + MaxInFlight - 1
        BY <2>5 DEF TenantsInv, LicenceKept, TeamsFitIn
      <3>3. Cardinality(LiveTeams(x) \cup {t}) + Cardinality(TeamsUnderway(x) \ {p})
              <= MaxTeams + MaxInFlight - 1
        BY <2>2, <2>3, <3>1, <3>2, MovesIn
      <3> QED BY <2>1, <2>2, <3>3
    <2> QED BY <2>4, <2>5 DEF TeamsFitIn
  <1> QED BY <1>3, <1>4, <1>5 DEF LicenceKept

\* Any step that neither counts nor inserts.
LEMMA NothingCreated ==
    ASSUME LicenceKept, pending' \subseteq pending, LiveOrgs' \subseteq LiveOrgs,
           \A o \in Orgs : LiveTeams(o)' \subseteq LiveTeams(o)
    PROVE  LicenceKept'
  BY FewerPending, FewerOrgs, FewerTeams DEF LicenceKept

-----------------------------------------------------------------------------
\* The bootstrap stores one organisation, its administrator and that user's key.
LEMMA TenantsInitially == Init => TenantsInv
  <1> SUFFICES ASSUME NEW o \in Orgs, NEW u \in Users, NEW s \in Slugs, NEW e \in Emails,
                      Bootstrap(o, u, s, e)
               PROVE  TenantsInv
    BY DEF Init
  <1>1. StoreTyped
    BY DEF Bootstrap, StoreTyped, OrgRow, TeamRow, UserRow, AccountRow, OrgRoles
  <1>2. CacheSound
    <2> DEFINE k == [kind |-> "user_key", owner |-> u, org |-> o, team |-> None]
    <2>1. k \in keys /\ users[u].sys = TRUE /\ DB!Live(users, u)
      BY DEF Bootstrap, DB!Live
    <2>2. /\ KeyInfoFromRecord(k) \in KeyInfos
          /\ KeyInfoFromRecord(k).role = "system_admin"
      BY <2>1 DEF KeyInfoFromRecord, KeyInfos, AllRoles
    <2>3. Sound(k, KeyInfoFromRecord(k))
      BY <2>1, <2>2 DEF Sound
    <2>4. cache = [x \in TenantKeys |-> IF x = k THEN KeyInfoFromRecord(k) ELSE Out]
      BY DEF Bootstrap
    <2> HIDE DEF k
    <2> QED BY <2>3, <2>4 DEF CacheSound, Sound
  <1>3. PendingTyped
    BY FS_EmptySet, TenantsAssumption DEF Bootstrap, PendingTyped
  <1>4. OrgsFit
    <2>1. LiveOrgs = {o} /\ OrgsUnderway = {}
      BY DEF Bootstrap, LiveOrgs, OrgsUnderway, DB!Live, DB!AbsentOrg
    <2>2. IsFiniteSet({o}) /\ Cardinality({o}) = 1
      BY FS_Singleton
    <2>3. Cardinality({}) = 0
      BY FS_EmptySet
    <2>4. IsFiniteSet(LiveOrgs) /\ Cardinality(LiveOrgs) = 1 /\ Cardinality(OrgsUnderway) = 0
      BY <2>1, <2>2, <2>3
    <2> QED BY <2>4, TenantsAssumption DEF OrgsFit
  <1>5. ASSUME NEW x \in Orgs PROVE TeamsFitIn(x)
    <2>1. LiveTeams(x) = {} /\ TeamsUnderway(x) = {}
      BY DEF Bootstrap, LiveTeams, TeamsUnderway, DB!Live, DB!AbsentTeam
    <2>2. IsFiniteSet({}) /\ Cardinality({}) = 0
      BY FS_EmptySet
    <2>3. /\ IsFiniteSet(LiveTeams(x))
          /\ Cardinality(LiveTeams(x)) = 0 /\ Cardinality(TeamsUnderway(x)) = 0
      BY <2>1, <2>2
    <2> QED BY <2>3, TenantsAssumption DEF TeamsFitIn
  <1> QED BY <1>1, <1>2, <1>3, <1>4, <1>5 DEF TenantsInv, LicenceKept

\* Every request of a caller, by the handler it reaches.
LEMMA CallKeeps ==
    ASSUME TenantsInv, NEW c \in Callers, CallBy(c)
    PROVE  TenantsInv'
  <1> USE DEF TenantsInv
  <1>1. c \in TenantKeys
    BY CallerKnown
  <1>2. ASSUME NEW o \in NewId(Orgs, orgs), CountForOrg(c, o) PROVE TenantsInv'
    BY <1>1, <1>2, NewIdIsId, CountHandlers
  <1>3. ASSUME NEW o \in Orgs, NEW t \in NewId(Teams, teams), CountForTeam(c, o, t) PROVE TenantsInv'
    BY <1>1, <1>3, NewIdIsId, CountHandlers
  <1>4. ASSUME NEW o \in Orgs, DeleteOrg(c, o) \/ \E s \in Slugs : UpdateOrg(c, o, s)
        PROVE  TenantsInv'
    <2>1. StoreTyped' /\ CacheSound'
      BY <1>1, <1>4, OrgHandlers
    <2>2. UNCHANGED <<teams, pending>>
      BY <1>4 DEF UpdateOrg, DeleteOrg
    <2>3. LiveOrgs' \subseteq LiveOrgs /\ \A x \in Orgs : LiveTeams(x)' \subseteq LiveTeams(x)
      BY <1>4, <2>2 DEF UpdateOrg, DeleteOrg, DB!UpdateOrg, DB!DeleteOrg, StoreTyped,
                        LiveOrgs, LiveTeams, DB!Live
    <2> QED BY <2>1, <2>2, <2>3, NothingCreated
  <1>5. ASSUME NEW o \in Orgs, NEW t \in Teams,
               DeleteTeam(c, o, t) \/ \E s \in Slugs : UpdateTeam(c, o, t, s)
        PROVE  TenantsInv'
    <2>1. StoreTyped' /\ CacheSound'
      BY <1>1, <1>5, TeamHandlers DEF LicenceKept, PendingTyped
    <2>2. UNCHANGED <<orgs, pending>>
      BY <1>5 DEF UpdateTeam, DeleteTeam
    <2>3. LiveOrgs' \subseteq LiveOrgs /\ \A x \in Orgs : LiveTeams(x)' \subseteq LiveTeams(x)
      <3>1. teams[t] \in [slug : Slugs, org : Orgs, status : {"live"}]
        BY <1>5 DEF UpdateTeam, DeleteTeam, DB!UpdateTeam, DB!DeleteTeam, DB!Live, StoreTyped,
                    TeamRow, DB!AbsentTeam
      <3>2. \A y \in Teams : y # t => teams'[y] = teams[y]
        BY <1>5 DEF UpdateTeam, DeleteTeam, DB!UpdateTeam, DB!DeleteTeam, StoreTyped
      <3>3. teams'[t].org = teams[t].org
        BY <1>5, <3>1 DEF UpdateTeam, DeleteTeam, DB!UpdateTeam, DB!DeleteTeam, StoreTyped
      <3> QED BY <2>2, <3>1, <3>2, <3>3 DEF LiveOrgs, LiveTeams, DB!Live
    <2> QED BY <2>1, <2>2, <2>3, NothingCreated
  <1>6. ASSUME UNCHANGED <<orgs, teams, pending>>, StoreTyped', CacheSound' PROVE TenantsInv'
    <2>1. LiveOrgs' \subseteq LiveOrgs /\ \A x \in Orgs : LiveTeams(x)' \subseteq LiveTeams(x)
      BY <1>6 DEF LiveOrgs, LiveTeams, DB!Live
    <2> QED BY <1>6, <2>1, NothingCreated
  <1>7. ASSUME NEW u \in Users, UserCall(c, u) PROVE TenantsInv'
    <2>1. StoreTyped' /\ CacheSound'
      BY <1>1, <1>7, UserHandlers
    <2>2. UNCHANGED <<orgs, teams, pending>>
      BY <1>7 DEF UserCall, CreateUser, UpdateUser, DeleteUser
    <2> QED BY <1>6, <2>1, <2>2
  <1>8. ASSUME NEW o \in Orgs, NEW u \in Users, MembershipCall(c, o, u) PROVE TenantsInv'
    <2>1. StoreTyped' /\ CacheSound'
      BY <1>1, <1>8, MembershipHandlers
    <2>2. UNCHANGED <<orgs, teams, pending>>
      BY <1>8 DEF MembershipCall, CreateOrgMembership, UpdateOrgMembership, DeleteOrgMembership
    <2> QED BY <1>6, <2>1, <2>2
  <1>9. ASSUME NEW o \in Orgs, NEW t \in Teams, NEW u \in Users, TeamMembershipCall(c, o, t, u)
        PROVE  TenantsInv'
    <2>1. StoreTyped' /\ CacheSound'
      BY <1>1, <1>9, TeamMembershipHandlers
    <2>2. UNCHANGED <<orgs, teams, pending>>
      BY <1>9 DEF TeamMembershipCall, CreateTeamMembership, UpdateTeamMembership, DeleteTeamMembership
    <2> QED BY <1>6, <2>1, <2>2
  <1>10. ASSUME NEW o \in Orgs, NEW a \in Accounts,
                \/ \E t \in Teams \cup {None} : CreateServiceAccount(c, o, a, t)
                \/ DeleteServiceAccount(c, o, a)
         PROVE  TenantsInv'
    <2>1. StoreTyped' /\ CacheSound'
      BY <1>10, AccountHandlers
    <2>2. UNCHANGED <<orgs, teams, pending>>
      BY <1>10 DEF CreateServiceAccount, DeleteServiceAccount
    <2> QED BY <1>6, <2>1, <2>2
  <1>11. ASSUME NEW o \in Orgs, NEW k \in TenantKeys, CreateAPIKey(c, o, k) \/ DeleteAPIKey(c, o, k)
         PROVE  TenantsInv'
    <2>1. StoreTyped' /\ CacheSound'
      BY <1>1, <1>11, KeyHandlers
    <2>2. UNCHANGED <<orgs, teams, pending>>
      BY <1>11 DEF CreateAPIKey, DeleteAPIKey, tables
    <2> QED BY <1>6, <2>1, <2>2
  <1> HIDE DEF TenantsInv
  <1>12. ASSUME NEW x \in NewId(Users, users) PROVE x \in Users
    BY <1>12, NewIdIsId
  <1>13. ASSUME NEW x \in NewId(Accounts, accounts) PROVE x \in Accounts
    BY <1>13, NewIdIsId
  <1> QED
    BY <1>2, <1>3, <1>4, <1>5, <1>7, <1>8, <1>9, <1>10, <1>11, <1>12, <1>13
    DEF CallBy, UserCall, MembershipCall, TeamMembershipCall, OrgRoles

\* Every step keeps the invariant.
LEMMA TenantsStep == TenantsInv /\ [Next]_vars => TenantsInv'
  <1> SUFFICES ASSUME TenantsInv, [Next]_vars PROVE TenantsInv'
    OBVIOUS
  <1>1. ASSUME NEW c \in Callers, CallBy(c) PROVE TenantsInv'
    BY <1>1, CallKeeps
  <1>2. ASSUME NEW o \in Orgs, NEW s \in Slugs, CreateOrg(o, s) PROVE TenantsInv'
    <2>1. StoreTyped' /\ CacheSound'
      BY <1>2, OrgHandlers DEF TenantsInv
    <2> QED BY <1>2, <2>1, OrgCreated DEF TenantsInv
  <1>3. ASSUME NEW t \in Teams, NEW s \in Slugs, CreateTeam(t, s) PROVE TenantsInv'
    <2>1. StoreTyped' /\ CacheSound'
      BY <1>3, TeamHandlers DEF TenantsInv, LicenceKept, PendingTyped
    <2> QED BY <1>3, <2>1, TeamCreated DEF TenantsInv
  <1>4. ASSUME pending' \subseteq pending, UNCHANGED tables PROVE StoreTyped' /\ LicenceKept'
    <2>1. LiveOrgs' \subseteq LiveOrgs /\ \A x \in Orgs : LiveTeams(x)' \subseteq LiveTeams(x)
      BY <1>4 DEF tables, LiveOrgs, LiveTeams, DB!Live
    <2>2. StoreTyped'
      BY <1>4 DEF tables, TenantsInv, StoreTyped
    <2> QED BY <1>4, <2>1, <2>2, NothingCreated DEF TenantsInv
  <1>5. ASSUME NEW p \in pending, CreationFails(p) PROVE TenantsInv'
    <2>1. pending' \subseteq pending /\ UNCHANGED <<tables, keys, cache>>
      BY <1>5 DEF CreationFails
    <2>2. CacheSound'
      BY <2>1, CacheKept DEF tables, TenantsInv, DB!Live
    <2> QED BY <1>4, <2>1, <2>2 DEF TenantsInv
  <1>6. CASE Refresh
    <2>1. cache' = Fresh /\ UNCHANGED <<tables, keys, pending>>
      BY <1>6 DEF Refresh
    <2>2. ReloadSound
      BY FreshSound DEF TenantsInv
    <2>3. CacheSound'
      <3> SUFFICES ASSUME NEW k \in TenantKeys PROVE Sound(k, cache[k])'
        BY <2>1, <2>2 DEF CacheSound, ReloadSound
      <3>1. Sound(k, Fresh[k])
        BY <2>2 DEF ReloadSound
      <3> QED BY <2>1, <3>1 DEF tables, Sound, DB!Live
    <2> QED BY <1>4, <2>1, <2>3 DEF TenantsInv
  <1>7. CASE UNCHANGED vars
    <2>1. UNCHANGED <<tables, keys, cache, pending>>
      BY <1>7 DEF vars
    <2>2. CacheSound'
      BY <2>1, CacheKept DEF tables, TenantsInv, DB!Live
    <2> QED BY <1>4, <2>1, <2>2 DEF TenantsInv
  <1> QED BY <1>1, <1>2, <1>3, <1>5, <1>6, <1>7 DEF Next

\* The tables hold rows of the right kind, deleted ones renamed; the cache holds
\* only stored keys whose owners are there; live rows and creations under way
\* exceed the licence by at most those in flight besides the last.
THEOREM TenantsInvariance == Spec => []TenantsInv
  BY TenantsInitially, TenantsStep, PTL DEF Spec

\* A user who was deleted or removed from the organisation, and a service account
\* that was deleted, is out at once: no order of requests, reloads that fail, and
\* new keys leaves a key of theirs in the cache.
THEOREM GoneAreOut == Spec => []GoneMeansOut
  <1>1. TenantsInv => GoneMeansOut
    BY DEF TenantsInv, CacheSound, Sound, GoneMeansOut
  <1> QED BY <1>1, TenantsInvariance, PTL

\* However many creations run at a time, the licence is overrun only by those in
\* flight besides the last.
THEOREM LicenceOverrunBounded == Spec => []LicenceOverrun
  <1>1. TenantsInv => LicenceOverrun
    <2> SUFFICES ASSUME TenantsInv PROVE LicenceOverrun
      OBVIOUS
    <2>1. /\ Cardinality(OrgsUnderway) \in Nat /\ Cardinality(LiveOrgs) \in Nat
          /\ \A o \in Orgs : Cardinality(TeamsUnderway(o)) \in Nat /\ Cardinality(LiveTeams(o)) \in Nat
      BY UnderwayFinite, FS_CardinalityType
      DEF TenantsInv, LicenceKept, FewUnderway, OrgsFit, TeamsFitIn
    <2>2. MaxOrgs > 0 => Cardinality(LiveOrgs) <= MaxOrgs + MaxInFlight - 1
      BY <2>1, TenantsAssumption DEF TenantsInv, LicenceKept, OrgsFit
    <2>3. MaxTeams > 0 => \A o \in Orgs : Cardinality(LiveTeams(o)) <= MaxTeams + MaxInFlight - 1
      BY <2>1, TenantsAssumption DEF TenantsInv, LicenceKept, TeamsFitIn
    <2> QED BY <2>2, <2>3, CountsAreLive DEF LicenceOverrun
  <1> QED BY <1>1, TenantsInvariance, PTL

-----------------------------------------------------------------------------
\* A caller who is no system administrator reaches only organisations of its own.
LEMMA OrdinaryCaller ==
    ASSUME CacheSound, NEW c \in Callers, NEW required, Call(c, required),
           by' # Out /\ by'.role # "system_admin"
    PROVE  /\ by' = Ki(c) /\ ~IsSystemAdmin(c) /\ required # "system_admin"
           /\ \A o \in Orgs : /\ requireOrgAccess(c, o) => Ki(c).org = o
                              /\ requireOrgAdmin(c, o) => Ki(c).org = o
  <1>1. by' = Ki(c) /\ Ki(c).role \in AllRoles /\ HasRole(Ki(c).role, required)
    BY CallerKnown DEF Call, RequireRole, KeyInfos
  <1>2. ~HasRole(Ki(c).role, "system_admin")
    BY <1>1, RoleOrder
  <1> QED BY <1>1, <1>2 DEF IsSystemAdmin, requireOrgAccess, requireOrgAdmin

\* The rows of an organisation stay if none of them changes or joins it.
LEMMA RowsStay ==
    ASSUME NEW o \in Orgs, orgs'[o] = orgs[o],
           \A t \in Teams : teams[t].org = o \/ teams'[t].org = o => teams'[t] = teams[t],
           \A t \in Teams, u \in Users :
               teams[t].org = o => teamMembers'[<<t, u>>] = teamMembers[<<t, u>>],
           \A u \in Users : members'[<<o, u>>] = members[<<o, u>>],
           \A a \in Accounts : accounts[a].org = o \/ accounts'[a].org = o => accounts'[a] = accounts[a],
           {k \in keys' : k.org = o} = {k \in keys : k.org = o}
    PROVE  RowsOf(o)' = RowsOf(o)
  <1> DEFINE T == {x \in Teams : teams[x].org = o}
             A == {x \in Accounts : accounts[x].org = o}
  <1>1. {x \in Teams : teams'[x].org = o} = T /\ {x \in Accounts : accounts'[x].org = o} = A
    OBVIOUS
  <1>2. ASSUME NEW t \in T
        PROVE  <<teams'[t], [u \in Users |-> teamMembers'[<<t, u>>]]>>
                 = <<teams[t], [u \in Users |-> teamMembers[<<t, u>>]]>>
    <2>1. [u \in Users |-> teamMembers'[<<t, u>>]] = [u \in Users |-> teamMembers[<<t, u>>]]
      OBVIOUS
    <2> QED BY <2>1
  <1>3. [t \in T |-> <<teams'[t], [u \in Users |-> teamMembers'[<<t, u>>]]>>]
          = [t \in T |-> <<teams[t], [u \in Users |-> teamMembers[<<t, u>>]]>>]
    <2> HIDE DEF T
    <2> QED BY <1>2
  <1>4. [u \in Users |-> members'[<<o, u>>]] = [u \in Users |-> members[<<o, u>>]]
    OBVIOUS
  <1>5. [a \in A |-> accounts'[a]] = [a \in A |-> accounts[a]]
    OBVIOUS
  <1> QED BY <1>1, <1>3, <1>4, <1>5 DEF RowsOf

\* What OwnTenantOnly and NoEscalation demand of a step of an ordinary caller.
Isolated ==
    /\ \A o \in Orgs \ {by'.org} : RowsOf(o)' = RowsOf(o)
    /\ \A u \in Users : users'[u] # users[u] => \/ DB!GetUserOrgRole(u, by'.org) # None
                                                \/ ~DB!Exists(users, u)
    /\ \A u \in Users : users'[u].sys => users[u].sys
    /\ \A o \in Orgs, u \in Users :
           members'[<<o, u>>] = "org_admin" => members[<<o, u>>] = "org_admin"

\* No request of an ordinary caller reaches beyond its organisation or its role,
\* handler by handler.
LEMMA CallIsolated ==
    ASSUME TenantsInv, NEW c \in Callers, CallBy(c), by' # Out /\ by'.role # "system_admin"
    PROVE  Isolated
  <1>1. StoreTyped /\ CacheSound /\ c \in TenantKeys
    BY CallerKnown DEF TenantsInv
  <1>2. ASSUME NEW o \in NewId(Orgs, orgs), CountForOrg(c, o) PROVE Isolated
    BY <1>2, RowsStay DEF CountForOrg, tables, Isolated
  <1>3. ASSUME NEW o \in Orgs, NEW t \in NewId(Teams, teams), CountForTeam(c, o, t) PROVE Isolated
    BY <1>3, RowsStay DEF CountForTeam, tables, Isolated
  <1>4. ASSUME NEW o \in Orgs, DeleteOrg(c, o) PROVE Isolated
    <2>1. Call(c, "system_admin")
      BY <1>4 DEF DeleteOrg, Route
    <2> QED BY <1>1, <2>1, OrdinaryCaller
  <1>5. ASSUME NEW o \in Orgs, NEW s \in Slugs, UpdateOrg(c, o, s) PROVE Isolated
    <2>1. by'.org = o
      BY <1>1, <1>5, OrdinaryCaller DEF UpdateOrg
    <2>2. /\ \A x \in Orgs : x # o => orgs'[x] = orgs[x]
          /\ UNCHANGED <<teams, users, members, teamMembers, accounts, keys>>
      BY <1>1, <1>5 DEF UpdateOrg, DB!UpdateOrg, StoreTyped
    <2> QED BY <2>1, <2>2, RowsStay DEF Isolated
  <1>6. ASSUME NEW o \in Orgs, NEW t \in Teams,
               DeleteTeam(c, o, t) \/ \E s \in Slugs : UpdateTeam(c, o, t, s)
        PROVE  Isolated
    <2>1. by'.org = o /\ teams[t].org = o
      BY <1>1, <1>6, OrdinaryCaller DEF DeleteTeam, UpdateTeam, requireTeamAccess
    <2>2. teams[t] \in [slug : Slugs, org : Orgs, status : {"live"}]
      BY <1>1, <1>6 DEF UpdateTeam, DeleteTeam, DB!UpdateTeam, DB!DeleteTeam, DB!Live, StoreTyped,
                        TeamRow, DB!AbsentTeam
    <2>3. /\ \A x \in Teams : x # t => teams'[x] = teams[x]
          /\ UNCHANGED <<orgs, users, members, teamMembers, accounts, keys>>
      BY <1>1, <1>6 DEF UpdateTeam, DeleteTeam, DB!UpdateTeam, DB!DeleteTeam, StoreTyped
    <2>4. teams'[t].org = o
      BY <1>1, <1>6, <2>1, <2>2 DEF UpdateTeam, DeleteTeam, DB!UpdateTeam, DB!DeleteTeam, StoreTyped
    <2> QED BY <2>1, <2>3, <2>4, RowsStay DEF Isolated
  <1>7. ASSUME NEW u \in Users, NEW e \in Emails, NEW sys \in BOOLEAN, NEW o \in Orgs,
               NEW role \in OrgRoles, CreateUser(c, u, e, sys, o, role)
        PROVE  Isolated
    <2>1. by'.org = o /\ ~sys /\ role # "org_admin"
      BY <1>1, <1>7, OrdinaryCaller DEF CreateUser
    <2>2. /\ users' = [users EXCEPT ![u] = [email |-> e, sys |-> sys, status |-> "live"]]
          /\ members' = [members EXCEPT ![<<o, u>>] = role]
          /\ ~DB!Exists(users, u)
          /\ UNCHANGED <<orgs, teams, teamMembers, accounts, keys>>
      BY <1>7 DEF CreateUser, DB!CreateUserWithMembership
    <2>3. /\ \A x \in Users : x # u => users'[x] = users[x]
          /\ users'[u].sys = sys
      BY <1>1, <2>2 DEF StoreTyped
    <2>4. \A x \in Orgs, y \in Users :
             members'[<<x, y>>] = IF x = o /\ y = u THEN role ELSE members[<<x, y>>]
      BY <1>1, <2>2 DEF StoreTyped
    <2>5. \A x \in Orgs \ {o} : RowsOf(x)' = RowsOf(x)
      BY <2>2, <2>4, RowsStay
    <2> QED BY <2>1, <2>2, <2>3, <2>4, <2>5 DEF Isolated
  <1>8. ASSUME NEW u \in Users, NEW e \in Emails, NEW sys \in {"keep", "yes", "no"},
               UpdateUser(c, u, e, sys)
        PROVE  Isolated
    <2>1. by'.org = Ki(c).org /\ DB!GetUserOrgRole(u, Ki(c).org) # None /\ sys = "keep"
      BY <1>1, <1>8, OrdinaryCaller DEF UpdateUser
    <2>2. /\ users' = [users EXCEPT ![u].email = e, ![u].sys = users[u].sys]
          /\ DB!Live(users, u)
          /\ UNCHANGED <<orgs, teams, members, teamMembers, accounts, keys>>
      BY <1>8, <2>1 DEF UpdateUser, DB!UpdateUser
    <2>3. users[u] \in [email : Emails, sys : BOOLEAN, status : {"live"}]
      BY <1>1, <2>2 DEF StoreTyped, UserRow, DB!Live, DB!AbsentUser
    <2>4. /\ \A x \in Users : x # u => users'[x] = users[x]
          /\ users'[u].sys = users[u].sys
      BY <1>1, <2>2, <2>3 DEF StoreTyped
    <2>5. \A x \in Orgs : RowsOf(x)' = RowsOf(x)
      BY <2>2, RowsStay
    <2> QED BY <2>1, <2>2, <2>4, <2>5 DEF Isolated
  <1>9. ASSUME NEW u \in Users, DeleteUser(c, u) PROVE Isolated
    <2>1. Call(c, "system_admin")
      BY <1>9 DEF DeleteUser, Route
    <2> QED BY <1>1, <2>1, OrdinaryCaller
  <1>10. ASSUME NEW o \in Orgs, NEW u \in Users, MembershipCall(c, o, u) PROVE Isolated
    <2>1. by'.org = o
      BY <1>1, <1>10, OrdinaryCaller
      DEF MembershipCall, CreateOrgMembership, UpdateOrgMembership, DeleteOrgMembership
    <2>2. UNCHANGED <<orgs, teams, users, teamMembers, accounts, keys>>
      BY <1>10 DEF MembershipCall, CreateOrgMembership, UpdateOrgMembership, DeleteOrgMembership
    <2>3. PICK role \in {"member", None} : members' = [members EXCEPT ![<<o, u>>] = role]
      BY <1>1, <1>10, OrdinaryCaller
      DEF MembershipCall, CreateOrgMembership, UpdateOrgMembership, DeleteOrgMembership, MayAssign,
          DB!CreateOrgMembership, DB!UpdateOrgMembership, DB!DeleteOrgMembership, None
    <2>4. \A x \in Orgs, y \in Users :
             members'[<<x, y>>] = IF x = o /\ y = u THEN role ELSE members[<<x, y>>]
      BY <1>1, <2>3 DEF StoreTyped
    <2>5. \A x \in Orgs \ {o} : RowsOf(x)' = RowsOf(x)
      BY <2>2, <2>4, RowsStay
    <2> QED BY <2>1, <2>2, <2>3, <2>4, <2>5 DEF Isolated, None, DB!None
  <1>11. ASSUME NEW o \in Orgs, NEW t \in Teams, NEW u \in Users, TeamMembershipCall(c, o, t, u)
         PROVE  Isolated
    <2>1. by'.org = o /\ teams[t].org = o
      BY <1>1, <1>11, OrdinaryCaller
      DEF TeamMembershipCall, CreateTeamMembership, UpdateTeamMembership, DeleteTeamMembership,
          requireTeamAccess
    <2>2. UNCHANGED <<orgs, teams, users, members, accounts, keys>>
      BY <1>11 DEF TeamMembershipCall, CreateTeamMembership, UpdateTeamMembership, DeleteTeamMembership
    <2>3. \E role : teamMembers' = [teamMembers EXCEPT ![<<t, u>>] = role]
      BY <1>11
      DEF TeamMembershipCall, CreateTeamMembership, UpdateTeamMembership, DeleteTeamMembership,
          DB!CreateTeamMembership, DB!UpdateTeamMembership, DB!DeleteTeamMembership
    <2>4. \A x \in Teams, y \in Users : x # t => teamMembers'[<<x, y>>] = teamMembers[<<x, y>>]
      BY <1>1, <2>3 DEF StoreTyped
    <2>5. \A x \in Orgs \ {o} : RowsOf(x)' = RowsOf(x)
      BY <2>1, <2>2, <2>4, RowsStay
    <2> QED BY <2>1, <2>2, <2>5 DEF Isolated
  <1>12. ASSUME NEW o \in Orgs, NEW a \in Accounts,
                \/ \E t \in Teams \cup {None} : CreateServiceAccount(c, o, a, t)
                \/ DeleteServiceAccount(c, o, a)
         PROVE  Isolated
    <2>1. by'.org = o
      BY <1>1, <1>12, OrdinaryCaller DEF CreateServiceAccount, DeleteServiceAccount, OwnsAccount
    <2>2. /\ \A x \in Accounts : x # a => accounts'[x] = accounts[x]
          /\ UNCHANGED <<orgs, teams, users, members, teamMembers, keys>>
      BY <1>1, <1>12 DEF CreateServiceAccount, DeleteServiceAccount, DB!CreateServiceAccount,
                         DB!DeleteServiceAccount, StoreTyped
    <2>3. accounts'[a].org = o
      <3>1. ASSUME NEW t \in Teams \cup {None}, CreateServiceAccount(c, o, a, t) PROVE accounts'[a].org = o
        BY <1>1, <3>1 DEF CreateServiceAccount, DB!CreateServiceAccount, StoreTyped
      <3>2. CASE DeleteServiceAccount(c, o, a)
        <4>1. accounts[a].org = o /\ DB!Live(accounts, a)
          BY <3>2 DEF DeleteServiceAccount, OwnsAccount, DB!GetServiceAccount
        <4>2. accounts[a] \in [org : Orgs, team : Teams \cup {None}, by : Users, status : {"live", "deleted"}]
          BY <1>1, <4>1 DEF StoreTyped, AccountRow, DB!Live, DB!AbsentAccount
        <4> QED BY <1>1, <3>2, <4>1, <4>2 DEF DeleteServiceAccount, DB!DeleteServiceAccount, StoreTyped
      <3> QED BY <1>12, <3>1, <3>2
    <2>4. accounts[a].org \in {o, None}
      BY <1>1, <1>12 DEF CreateServiceAccount, DeleteServiceAccount, DB!CreateServiceAccount, OwnsAccount,
                         DB!Exists, StoreTyped, AccountRow, DB!AbsentAccount, None
    <2>5. \A x \in Orgs \ {o} : RowsOf(x)' = RowsOf(x)
      BY <2>2, <2>3, <2>4, RowsStay, TenantsAssumption
    <2> QED BY <2>1, <2>2, <2>5 DEF Isolated
  <1>13. ASSUME NEW o \in Orgs, NEW k \in TenantKeys, CreateAPIKey(c, o, k) \/ DeleteAPIKey(c, o, k)
         PROVE  Isolated
    <2>1. by'.org = o /\ k.org = o
      BY <1>1, <1>13, OrdinaryCaller DEF CreateAPIKey, DeleteAPIKey
    <2>2. (keys' = keys \cup {k} \/ keys' = keys \ {k}) /\ UNCHANGED tables
      BY <1>13 DEF CreateAPIKey, DeleteAPIKey
    <2>3. \A x \in Orgs : x # o => {y \in keys' : y.org = x} = {y \in keys : y.org = x}
      BY <2>1, <2>2
    <2>4. \A x \in Orgs \ {o} : RowsOf(x)' = RowsOf(x)
      BY <2>2, <2>3, RowsStay DEF tables
    <2> QED BY <2>1, <2>2, <2>4 DEF Isolated, tables
  <1>14. ASSUME NEW x \in NewId(Users, users) PROVE x \in Users
    BY <1>14, NewIdIsId
  <1>15. ASSUME NEW x \in NewId(Accounts, accounts) PROVE x \in Accounts
    BY <1>15, NewIdIsId
  <1> QED
    BY <1>2, <1>3, <1>4, <1>5, <1>6, <1>7, <1>8, <1>9, <1>10, <1>11, <1>12, <1>13, <1>14, <1>15
    DEF CallBy, MembershipCall, TeamMembershipCall, OrgRoles

\* No request of a caller who is not a system administrator changes a row of
\* another organisation, touches a user its organisation has no role for, makes a
\* system administrator or gives anybody the org_admin role.
THEOREM TenantsAreIsolated == Spec => TenantIsolation
  <1>1. TenantsInv /\ [Next]_vars => [OwnTenantOnly /\ NoEscalation]_vars
    <2> SUFFICES ASSUME TenantsInv, Next PROVE OwnTenantOnly /\ NoEscalation
      OBVIOUS
    <2>1. CASE \E c \in Callers : CallBy(c)
      BY <2>1, CallIsolated DEF OwnTenantOnly, NoEscalation, Isolated
    <2>2. CASE by' = Out
      BY <2>2 DEF OwnTenantOnly, NoEscalation
    <2> QED BY <2>1, <2>2 DEF Next, CreateOrg, CreateTeam, CreationFails, Refresh
  <1> QED BY <1>1, TenantsInvariance, PTL DEF Spec, TenantIsolation

-----------------------------------------------------------------------------
\* A deleted row is shown under the name it had.
LEMMA NamesAreStripped ==
    ASSUME NEW id, NEW n \in {<<>>} \cup Slugs \cup Emails
                               \cup {Append(s, id) : s \in Slugs \cup Emails}
    PROVE  ~DB!ContainsTombstoneMarker(DB!StripTombstone(n, id))
  <1>1. CASE n = <<>>
    BY <1>1 DEF DB!ContainsTombstoneMarker, DB!StripTombstone
  <1>2. CASE n \in Slugs \cup Emails
    <2>1. PICK x : n = <<x>>
      BY <1>2, TenantsAssumption
    <2> QED BY <2>1 DEF DB!ContainsTombstoneMarker, DB!StripTombstone
  <1>3. CASE n \in {Append(s, id) : s \in Slugs \cup Emails}
    <2>1. PICK s \in Slugs \cup Emails : n = Append(s, id)
      BY <1>3
    <2>2. PICK x : s = <<x>>
      BY TenantsAssumption
    <2>3. <<x>> \in Seq({x, id}) /\ Len(<<x>>) = 1
      OBVIOUS
    <2>4. n \in Seq({x, id}) /\ Len(n) = 2 /\ n[2] = id
      BY <2>1, <2>2, <2>3
    <2>5. Len(SubSeq(n, 1, 1)) = 1
      BY <2>4
    <2> QED BY <2>4, <2>5 DEF DB!ContainsTombstoneMarker, DB!StripTombstone
  <1> QED BY <1>1, <1>2, <1>3

\* The lists and the gets of a caller whose key is in the cache.
LEMMA ListsAgree ==
    ASSUME TenantsInv, NEW c \in TenantKeys, Ki(c) # Out
    PROVE  /\ {o \in ListOrgs(c) : DB!Live(orgs, o)} = GetOrg(c)
           /\ \A o \in Orgs :
               /\ {t \in ListTeams(c, o) : DB!Live(teams, t)} = {t \in GetTeam(c) : teams[t].org = o}
               /\ {a \in ListServiceAccounts(c, o) : DB!Live(accounts, a)} = GetServiceAccount(c, o)
               /\ ListAPIKeys(c, o) \subseteq GetAPIKey(c, o)
               /\ {u \in ListOrgMemberships(c, o) : DB!Live(users, u)} \subseteq GetUser(c)
               /\ \A t \in Teams : ListTeamMemberships(c, o, t) # {} => t \in GetTeam(c)
           /\ {u \in ListUsers(c) : DB!Live(users, u)} \subseteq GetUser(c)
  <1> DEFINE r == Ki(c).role
  <1>1. StoreTyped /\ Ki(c) \in KeyInfos /\ r \in AllRoles
    BY DEF TenantsInv, CacheSound, Sound, Ki, KeyInfos
  <1>2. /\ HasRole(r, "member")
        /\ HasRole(r, "team_admin") <=> r # "member"
        /\ HasRole(r, "org_admin") <=> r \in {"org_admin", "system_admin"}
        /\ HasRole(r, "system_admin") <=> r = "system_admin"
    BY <1>1, RoleOrder
  <1>3. /\ \A required : RequireRole(c, required) <=> HasRole(r, required)
        /\ IsSystemAdmin(c) <=> r = "system_admin"
        /\ \A o \in Orgs : requireOrgAccess(c, o) <=> r = "system_admin" \/ Ki(c).org = o
    BY <1>2 DEF RequireRole, IsSystemAdmin, requireOrgAccess
  <1> HIDE DEF r
  <1>4. {o \in ListOrgs(c) : DB!Live(orgs, o)} = GetOrg(c)
    <2>1. Route.GetOrg = "org_admin" /\ Route.ListOrgs = "org_admin"
      BY DEF Route
    <2>2. \A o \in Orgs : DB!Live(orgs, o) => DB!Exists(orgs, o)
      BY DEF DB!Live, DB!Exists
    <2> QED BY <1>1, <1>2, <1>3, <2>1, <2>2 DEF ListOrgs, GetOrg, DB!ListOrgs, DB!GetOrg
  <1>5. ASSUME NEW o \in Orgs
        PROVE  {t \in ListTeams(c, o) : DB!Live(teams, t)} = {t \in GetTeam(c) : teams[t].org = o}
    <2>1. Route.GetTeam = "member" /\ Route.ListTeams = "member"
      BY DEF Route
    <2>2. \A t \in Teams : t \in GetTeam(c) /\ teams[t].org = o <=> requireTeamAccess(c, o, t)
      BY <1>2, <1>3, <2>1 DEF GetTeam, requireTeamAccess
    <2>3. \A t \in Teams : t \in ListTeams(c, o) /\ DB!Live(teams, t) <=> requireTeamAccess(c, o, t)
      <3> DEFINE admin == HasRole(Ki(c).role, "org_admin")
      <3>1. \A t \in Teams : DB!Live(teams, t) => DB!Exists(teams, t)
        BY DEF DB!Live, DB!Exists
      <3>2. CASE ~requireOrgAccess(c, o)
        BY <3>2 DEF ListTeams, requireTeamAccess
      <3>3. CASE requireOrgAccess(c, o) /\ ~admin
        BY <1>2, <1>3, <2>1, <3>3 DEF ListTeams, requireTeamAccess, DB!ListUserTeams, DB!IsTeamMember, DB!GetTeam, r, None
      <3>4. CASE requireOrgAccess(c, o) /\ admin
        BY <1>2, <1>3, <2>1, <3>1, <3>4 DEF ListTeams, requireTeamAccess, DB!ListTeams, DB!GetTeam, r
      <3> QED BY <3>2, <3>3, <3>4
    <2>4. ListTeams(c, o) \subseteq Teams /\ GetTeam(c) \subseteq Teams
      BY DEF ListTeams, GetTeam, DB!ListTeams, DB!ListUserTeams
    <2> QED BY <2>2, <2>3, <2>4
  <1>6. ASSUME NEW o \in Orgs
        PROVE  {a \in ListServiceAccounts(c, o) : DB!Live(accounts, a)} = GetServiceAccount(c, o)
    <2>1. Route.GetServiceAccount = "member" /\ Route.ListServiceAccounts = "member"
      BY DEF Route
    <2>2. \A a \in Accounts : a \in GetServiceAccount(c, o) <=> OwnsAccount(c, o, a)
      BY <1>2, <1>3, <2>1 DEF GetServiceAccount
    <2>3. \A a \in Accounts : a \in ListServiceAccounts(c, o) /\ DB!Live(accounts, a) <=> OwnsAccount(c, o, a)
      <3> DEFINE admin == HasRole(Ki(c).role, "org_admin")
      <3>1. \A a \in Accounts : DB!Live(accounts, a) => DB!Exists(accounts, a) /\ accounts[a].by \in Users
        BY <1>1 DEF DB!Live, DB!Exists, StoreTyped, AccountRow, DB!AbsentAccount
      <3>2. None \notin Users
        BY TenantsAssumption
      <3>3. CASE ~requireOrgAccess(c, o)
        BY <3>3 DEF ListServiceAccounts, OwnsAccount
      <3>4. CASE requireOrgAccess(c, o) /\ ~admin
        BY <1>2, <1>3, <2>1, <3>1, <3>2, <3>4
        DEF ListServiceAccounts, OwnsAccount, DB!ListServiceAccounts, DB!GetServiceAccount, r, None
      <3>5. CASE requireOrgAccess(c, o) /\ admin
        BY <1>2, <1>3, <2>1, <3>1, <3>5
        DEF ListServiceAccounts, OwnsAccount, DB!ListServiceAccounts, DB!GetServiceAccount, r, None
      <3> QED BY <3>3, <3>4, <3>5
    <2>4. ListServiceAccounts(c, o) \subseteq Accounts /\ GetServiceAccount(c, o) \subseteq Accounts
      BY DEF ListServiceAccounts, GetServiceAccount, DB!ListServiceAccounts
    <2> QED BY <2>2, <2>3, <2>4
  <1>7. ASSUME NEW o \in Orgs PROVE ListAPIKeys(c, o) \subseteq GetAPIKey(c, o)
    BY DEF ListAPIKeys, GetAPIKey, apiKeyVisibleToCallerKey
  <1>8. Route.GetUser = "org_admin" /\ Route.ListOrgMemberships = "org_admin"
        /\ Route.ListUsers = "system_admin" /\ Route.ListTeamMemberships = "team_admin"
        /\ Route.GetTeam = "member"
    BY DEF Route
  <1>9. ASSUME NEW o \in Orgs
        PROVE  {u \in ListOrgMemberships(c, o) : DB!Live(users, u)} \subseteq GetUser(c)
    <2> SUFFICES ASSUME NEW u \in ListOrgMemberships(c, o), DB!Live(users, u) PROVE u \in GetUser(c)
      OBVIOUS
    <2>1. /\ HasRole(r, "org_admin") /\ requireOrgAccess(c, o)
          /\ u \in Users /\ members[<<o, u>>] # None
      BY <1>3, <1>8 DEF ListOrgMemberships, DB!ListOrgMemberships, None
    <2>2. DB!GetUserOrgRole(u, o) # None
      BY <2>1 DEF DB!GetUserOrgRole, None, DB!None
    <2> QED BY <1>3, <1>8, <2>1, <2>2 DEF GetUser, DB!GetUser
  <1>10. ASSUME NEW o \in Orgs, NEW t \in Teams, ListTeamMemberships(c, o, t) # {} PROVE t \in GetTeam(c)
    BY <1>2, <1>3, <1>8, <1>10 DEF ListTeamMemberships, GetTeam
  <1>11. {u \in ListUsers(c) : DB!Live(users, u)} \subseteq GetUser(c)
    BY <1>2, <1>3, <1>8 DEF ListUsers, GetUser, DB!ListUsers, DB!GetUser
  <1> QED BY <1>4, <1>5, <1>6, <1>7, <1>9, <1>10, <1>11

\* Every list shows a caller what the gets show it, whatever handlers, filters in
\* SQL and checks of the loaded row it goes through, and no list shows the suffix
\* of a deletion.
THEOREM ListsAgreeWithGets == Spec => []ListAgreesWithGet
  <1>1. TenantsInv => ListAgreesWithGet
    <2> SUFFICES ASSUME TenantsInv, NEW c \in TenantKeys, Ki(c) # Out
                 PROVE  /\ \A o \in ListOrgs(c) :
                             /\ ~DB!ContainsTombstoneMarker(orgToResponse(o))
                             /\ \A t \in ListTeams(c, o) : ~DB!ContainsTombstoneMarker(teamToResponse(t))
                        /\ \A u \in ListUsers(c) : ~DB!ContainsTombstoneMarker(userToResponse(u))
      BY ListsAgree DEF ListAgreesWithGet
    <2>1. StoreTyped
      BY DEF TenantsInv
    <2>2. ASSUME NEW o \in Orgs PROVE ~DB!ContainsTombstoneMarker(orgToResponse(o))
      <3>1. orgs[o].slug \in {<<>>} \cup Slugs \cup {Append(s, o) : s \in Slugs}
        BY <2>1 DEF StoreTyped, OrgRow, DB!AbsentOrg
      <3> QED BY <3>1, NamesAreStripped DEF orgToResponse
    <2>3. ASSUME NEW t \in Teams PROVE ~DB!ContainsTombstoneMarker(teamToResponse(t))
      <3>1. teams[t].slug \in {<<>>} \cup Slugs \cup {Append(s, t) : s \in Slugs}
        BY <2>1 DEF StoreTyped, TeamRow, DB!AbsentTeam
      <3> QED BY <3>1, NamesAreStripped DEF teamToResponse
    <2>4. ASSUME NEW u \in Users PROVE ~DB!ContainsTombstoneMarker(userToResponse(u))
      <3>1. users[u].email \in {<<>>} \cup Emails \cup {Append(s, u) : s \in Emails}
        BY <2>1 DEF StoreTyped, UserRow, DB!AbsentUser
      <3> QED BY <3>1, NamesAreStripped DEF userToResponse
    <2>5. /\ ListOrgs(c) \subseteq Orgs /\ ListUsers(c) \subseteq Users
          /\ \A o \in Orgs : ListTeams(c, o) \subseteq Teams
      BY DEF ListOrgs, ListUsers, ListTeams, DB!ListOrgs, DB!ListUsers, DB!ListTeams, DB!ListUserTeams
    <2> QED BY <2>2, <2>3, <2>4, <2>5
  <1> QED BY <1>1, TenantsInvariance, PTL
=============================================================================
