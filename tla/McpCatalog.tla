------------------------------ MODULE McpCatalog ------------------------------
(***************************************************************************)
(* Which MCP server an alias names for a caller, decided in five places:   *)
(* the scoped query (db/mcp_servers.go), the server cache                  *)
(* (proxy/mcp_server_cache.go), the code mode listing and its in-memory    *)
(* mirror for notifications (app/code_mode.go), and the proxy              *)
(* (admin/mcp_proxy.go). A team's server hides an organisation's of the    *)
(* same alias, which hides a global one.                                   *)
(*                                                                         *)
(* A row has the columns id, alias, org, team, active, deleted, source,    *)
(* codeMode and the settings of its transport; "" is SQL's NULL and Go's   *)
(* empty string. A caller has org, team, role and key. A query that may    *)
(* find nothing returns a set of at most one row.                          *)
(***************************************************************************)
EXTENDS Naturals, FiniteSets

Null == ""

Active(sv) == sv.active /\ ~sv.deleted
IsGlobal(sv) == sv.org = Null /\ sv.team = Null

-----------------------------------------------------------------------------
(* The queries. A comparison with NULL is never true. *)
GetMCPServer(rows, id) == {sv \in rows : sv.id = id /\ ~sv.deleted}

GetMCPServerByAlias(rows, a) == {sv \in rows : sv.alias = a /\ Active(sv) /\ IsGlobal(sv)}

ListMCPServers(rows) == {sv \in rows : Active(sv) /\ IsGlobal(sv)}

ListMCPServersByOrg(rows, o) == {sv \in rows : Active(sv) /\ sv.team = Null /\ sv.org \in {o, Null}}

OfTeam(sv, t, o) == t # Null /\ o # Null /\ sv.team = t /\ sv.org = o
OfOrg(sv, o) == o # Null /\ sv.team = Null /\ sv.org = o

ListMCPServersByTeam(rows, t, o) ==
    {sv \in rows : Active(sv) /\ (OfTeam(sv, t, o) \/ OfOrg(sv, o) \/ IsGlobal(sv))}

(* ORDER BY team, organisation, global LIMIT 1. *)
QueryRank(sv) == IF sv.team # Null THEN 1 ELSE IF sv.org # Null THEN 2 ELSE 3

GetMCPServerByAliasScoped(rows, a, o, t) ==
    LET found == {sv \in ListMCPServersByTeam(rows, t, o) : sv.alias = a}
    IN {sv \in found : \A other \in found : QueryRank(sv) <= QueryRank(other)}

LoadAllActiveMCPServers(rows) == {sv \in rows : Active(sv)}

-----------------------------------------------------------------------------
(* MCPServerCache: the rows of one snapshot by alias, organisation, team. *)
CacheKey(sv) == <<sv.alias, sv.org, sv.team>>
At(cache, key) == {sv \in cache : CacheKey(sv) = key}

CacheGet(cache, a, o, t) ==
    LET team == IF t # Null /\ o # Null THEN At(cache, <<a, o, t>>) ELSE {}
        org == IF o # Null THEN At(cache, <<a, o, Null>>) ELSE {}
    IN IF team # {} THEN team ELSE IF org # {} THEN org ELSE At(cache, <<a, Null, Null>>)

CacheGetByID(cache, id) == {sv \in cache : sv.id = id}

-----------------------------------------------------------------------------
(* Code mode. *)
serverScopePriority(sv) ==
    CASE sv.team # Null -> 1 [] sv.team = Null /\ sv.org # Null -> 2 [] OTHER -> 3

Beats(sv, other) == sv.alias = other.alias /\ serverScopePriority(sv) < serverScopePriority(other)

(* The slip: filtering by code mode before the winners are chosen. *)
resolveAmongEnabled(servers) ==
    LET open == {sv \in servers : sv.codeMode}
    IN {sv \in open : ~\E other \in open : Beats(other, sv)}

resolveServersByAlias(servers) == {sv \in servers : ~\E other \in servers : Beats(other, sv)}

(* Past alias resolution: whose own a server is, the built-in, an admin, a grant. *)
MayUse(sv, ki, grants) ==
    \/ ~IsGlobal(sv)
    \/ sv.source = "builtin"
    \/ ki.role = "system_admin"
    \/ <<ki.key, sv.id>> \in grants

accessibleServers(rows, ki, grants, codeModeOnly) ==
    LET listed == IF ki.team # Null THEN ListMCPServersByTeam(rows, ki.team, ki.org)
                  ELSE IF ki.org # Null THEN ListMCPServersByOrg(rows, ki.org)
                  ELSE ListMCPServers(rows)
    IN {sv \in resolveServersByAlias(listed) :
            (codeModeOnly => sv.codeMode) /\ MayUse(sv, ki, grants)}

(* The tools an execution, a search and a listing are given, by alias.     *)
(* wanted = {} stands for every server; a server whose blocklist could not *)
(* be read is left out.                                                    *)
Offered(rows, ki, grants, wanted, unread, tools, blocked) ==
    {o \in accessibleServers(rows, ki, grants, TRUE) \X UNION {tools[i] : i \in DOMAIN tools} :
        /\ wanted # {} => o[1].alias \in wanted
        /\ o[1].id \notin unread
        /\ o[2] \in tools[o[1].id] /\ <<o[1].id, o[2]>> \notin blocked}

(* The mirror: the same decision from the cache alone. *)
visibleMCPServersForCaller(all, ki) ==
    {sv \in all :
        CASE ki.team # Null -> \/ sv.team = ki.team /\ sv.org = ki.org
                               \/ sv.team = Null /\ sv.org \in {ki.org, Null}
          [] ki.team = Null /\ ki.org # Null -> sv.team = Null /\ sv.org \in {ki.org, Null}
          [] OTHER -> IsGlobal(sv)}

aliasWinnerForCaller(all, ki, id) ==
    {sv \in resolveServersByAlias(visibleMCPServersForCaller(all, ki)) : sv.id = id}

accessDecisionForWinner(winner, ki, grants) == winner.codeMode /\ MayUse(winner, ki, grants)

(* The row as it was, put back among the others. A sibling that has taken  *)
(* its alias in the meantime comes first in the list and keeps it.         *)
excludeServerID(all, id) == {sv \in all : sv.id # id}

snapshotAccessible(cache, ki, grants, snapshot) ==
    LET siblings == excludeServerID(cache, snapshot.id)
        taken == \E sv \in visibleMCPServersForCaller(siblings, ki) : CacheKey(sv) = CacheKey(snapshot)
    IN /\ snapshot.active
       /\ ~taken
       /\ \E winner \in aliasWinnerForCaller(siblings \cup {snapshot}, ki, snapshot.id) :
            accessDecisionForWinner(winner, ki, grants)

codeModeAccessChecker(cache, ki, grants, id) ==
    \E winner \in aliasWinnerForCaller(cache, ki, id) : accessDecisionForWinner(winner, ki, grants)

(* The proxy and a code mode tool call: the cache, else the query. *)
ResolveForCall(cache, rows, a, ki) ==
    LET hit == CacheGet(cache, a, ki.org, ki.team)
    IN IF hit # {} THEN hit ELSE GetMCPServerByAliasScoped(rows, a, ki.org, ki.team)

AllowedToCall(sv, ki, grants) ==
    /\ sv.active
    /\ \/ ~IsGlobal(sv)
       \/ ki.role = "system_admin"
       \/ <<ki.key, sv.id>> \in grants
=============================================================================
