---------------------------- MODULE TenantStore ----------------------------
(***************************************************************************)
(* The tables of organisations, teams, users, memberships and service      *)
(* accounts and the functions of internal/db that write them. A function   *)
(* runs in one transaction and is one formula here: its guard is what the  *)
(* UNIQUE and REFERENCES clauses and the WHERE clause let through, an      *)
(* error leaves the table as it was and is a step that does not happen.    *)
(*                                                                         *)
(* Rows are never removed from organisations, teams, users and service     *)
(* accounts: status says whether a row is there, live or soft-deleted. A   *)
(* unique column is a sequence <<name>>; deleting appends the row's id,    *)
(* which is the suffix ":deleted:" || id. Names given by callers have      *)
(* length 1, because ContainsTombstoneMarker rejects the others.           *)
(***************************************************************************)
EXTENDS Naturals, Sequences, FiniteSets

CONSTANTS Orgs, Teams, Users, Accounts

VARIABLES orgs, teams, users, members, teamMembers, accounts

None == "none"

AbsentOrg == [slug |-> <<>>, org |-> None, status |-> "none"]
AbsentTeam == [slug |-> <<>>, org |-> None, status |-> "none"]
AbsentUser == [email |-> <<>>, sys |-> FALSE, status |-> "none"]
AbsentAccount == [org |-> None, team |-> None, by |-> None, status |-> "none"]

Live(table, id) == table[id].status = "live"
Exists(table, id) == table[id].status # "none"

Tombstone(name, id) == Append(name, id)

StripTombstone(name, id) ==
    IF Len(name) > 1 /\ name[Len(name)] = id THEN SubSeq(name, 1, Len(name) - 1) ELSE name

(* A rejected value never reaches the table. *)
ContainsTombstoneMarker(name) == Len(name) > 1

(***************************************************************************)
(* Organisations.                                                          *)
(***************************************************************************)
SlugFree(slug) == \A o \in Orgs : orgs[o].slug # slug

CreateOrg(o, slug) ==
    /\ ~ContainsTombstoneMarker(slug)
    /\ ~Exists(orgs, o)
    /\ SlugFree(slug)
    /\ orgs' = [orgs EXCEPT ![o] = [slug |-> slug, org |-> o, status |-> "live"]]

UpdateOrg(o, slug) ==
    /\ ~ContainsTombstoneMarker(slug)
    /\ Live(orgs, o)
    /\ orgs[o].slug = slug \/ SlugFree(slug)
    /\ orgs' = [orgs EXCEPT ![o].slug = slug]

DeleteOrg(o) ==
    /\ Live(orgs, o)
    /\ SlugFree(Tombstone(orgs[o].slug, o))
    /\ orgs' = [orgs EXCEPT ![o].slug = Tombstone(@, o), ![o].status = "deleted"]

GetOrg(o) == Live(orgs, o)

CountOrgs == Cardinality({o \in Orgs : Live(orgs, o)})

ListOrgs(includeDeleted) ==
    {o \in Orgs : Exists(orgs, o) /\ (includeDeleted \/ Live(orgs, o))}

(***************************************************************************)
(* Teams: the slug is unique within the organisation.                      *)
(***************************************************************************)
TeamSlugFree(o, slug) == \A t \in Teams : ~(teams[t].org = o /\ teams[t].slug = slug)

CreateTeam(t, o, slug) ==
    /\ ~ContainsTombstoneMarker(slug)
    /\ ~Exists(teams, t)
    /\ Exists(orgs, o)
    /\ TeamSlugFree(o, slug)
    /\ teams' = [teams EXCEPT ![t] = [slug |-> slug, org |-> o, status |-> "live"]]

UpdateTeam(t, slug) ==
    /\ ~ContainsTombstoneMarker(slug)
    /\ Live(teams, t)
    /\ teams[t].slug = slug \/ TeamSlugFree(teams[t].org, slug)
    /\ teams' = [teams EXCEPT ![t].slug = slug]

DeleteTeam(t) ==
    /\ Live(teams, t)
    /\ TeamSlugFree(teams[t].org, Tombstone(teams[t].slug, t))
    /\ teams' = [teams EXCEPT ![t].slug = Tombstone(@, t), ![t].status = "deleted"]

GetTeam(t) == Live(teams, t)

CountTeams(o) == Cardinality({t \in Teams : Live(teams, t) /\ teams[t].org = o})

ListTeams(o, includeDeleted) ==
    {t \in Teams : /\ Exists(teams, t) /\ teams[t].org = o
                   /\ includeDeleted \/ Live(teams, t)}

ListUserTeams(o, u) ==
    {t \in Teams : Live(teams, t) /\ teams[t].org = o /\ u \in Users /\ teamMembers[<<t, u>>] # None}

(***************************************************************************)
(* Users.                                                                  *)
(***************************************************************************)
EmailFree(email) == \A u \in Users : users[u].email # email

CreateUserWithMembership(u, email, sys, o, role) ==
    /\ ~ContainsTombstoneMarker(email)
    /\ ~Exists(users, u)
    /\ EmailFree(email)
    /\ Exists(orgs, o)
    /\ users' = [users EXCEPT ![u] = [email |-> email, sys |-> sys, status |-> "live"]]
    /\ members' = [members EXCEPT ![<<o, u>>] = role]

UpdateUser(u, email, sys) ==
    /\ ~ContainsTombstoneMarker(email)
    /\ Live(users, u)
    /\ users[u].email = email \/ EmailFree(email)
    /\ users' = [users EXCEPT ![u].email = email, ![u].sys = sys]

DeleteUser(u) ==
    /\ Live(users, u)
    /\ EmailFree(Tombstone(users[u].email, u))
    /\ users' = [users EXCEPT ![u].email = Tombstone(@, u), ![u].status = "deleted"]

GetUser(u) == Live(users, u)

ListUsers(includeDeleted) ==
    {u \in Users : Exists(users, u) /\ (includeDeleted \/ Live(users, u))}

(***************************************************************************)
(* Memberships. One row per pair, removed by DELETE.                       *)
(***************************************************************************)
CreateOrgMembership(o, u, role) ==
    /\ Exists(orgs, o) /\ Exists(users, u)
    /\ members[<<o, u>>] = None
    /\ members' = [members EXCEPT ![<<o, u>>] = role]

UpdateOrgMembership(o, u, role) ==
    /\ members[<<o, u>>] # None
    /\ members' = [members EXCEPT ![<<o, u>>] = role]

DeleteOrgMembership(o, u) ==
    /\ members[<<o, u>>] # None
    /\ members' = [members EXCEPT ![<<o, u>>] = None]

ListOrgMemberships(o) == {u \in Users : members[<<o, u>>] # None}

(* A system administrator has that role in every organisation. *)
GetUserOrgRole(u, o) ==
    IF u \notin Users \/ ~Live(users, u) THEN None
    ELSE IF users[u].sys THEN "system_admin" ELSE members[<<o, u>>]

CreateTeamMembership(t, u, role) ==
    /\ Exists(teams, t) /\ Exists(users, u)
    /\ teamMembers[<<t, u>>] = None
    /\ teamMembers' = [teamMembers EXCEPT ![<<t, u>>] = role]

UpdateTeamMembership(t, u, role) ==
    /\ teamMembers[<<t, u>>] # None
    /\ teamMembers' = [teamMembers EXCEPT ![<<t, u>>] = role]

DeleteTeamMembership(t, u) ==
    /\ teamMembers[<<t, u>>] # None
    /\ teamMembers' = [teamMembers EXCEPT ![<<t, u>>] = None]

ListTeamMemberships(t) == {u \in Users : teamMembers[<<t, u>>] # None}

IsTeamMember(u, t) == u \in Users /\ teamMembers[<<t, u>>] # None

(***************************************************************************)
(* Service accounts. The name is not unique and is left out.               *)
(***************************************************************************)
CreateServiceAccount(a, o, t, u) ==
    /\ ~Exists(accounts, a)
    /\ Exists(orgs, o)
    /\ t # None => Exists(teams, t)
    /\ accounts' = [accounts EXCEPT ![a] = [org |-> o, team |-> t, by |-> u, status |-> "live"]]

GetServiceAccount(a) == Live(accounts, a)

DeleteServiceAccount(a) ==
    /\ Live(accounts, a)
    /\ accounts' = [accounts EXCEPT ![a].status = "deleted"]

(* createdBy "" (None) selects the accounts of every creator. *)
ListServiceAccounts(o, createdBy, includeDeleted) ==
    {a \in Accounts : /\ Exists(accounts, a) /\ accounts[a].org = o
                      /\ includeDeleted \/ Live(accounts, a)
                      /\ createdBy = None \/ accounts[a].by = createdBy}
=============================================================================
