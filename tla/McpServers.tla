------------------------------ MODULE McpServers ------------------------------
(***************************************************************************)
(* The administration of MCP servers (admin/mcp_servers.go) over its table *)
(* (db/mcp_servers.go), and the caches a change must reach: the server and *)
(* the transport cache (proxy/), refreshed by every handler and by a       *)
(* ticker, and the tool listings. Handlers run side by side; a refresh is  *)
(* a query followed by one swap per cache, so a slow one can put an older  *)
(* snapshot back.                                                          *)
(*                                                                         *)
(* A request body is a function from the fields it sets; an update leaves  *)
(* the other columns alone. A token or secret stands for its ciphertext.   *)
(* Access grants are fixed here; AccessLists is about their changes.       *)
(***************************************************************************)
EXTENDS McpCatalog

CONSTANTS
    Ids,        \* the server ids of a run
    Stored,     \* the tables the process may find when it starts
    Callers,    \* identities: org, team, role, key
    Reqs,       \* handlers that may be in flight together
    NewServers, \* bodies of create requests
    Updates,    \* bodies of update requests
    Yaml,       \* the servers of the configuration file
    Grants,     \* <<key, id>>: global servers a key may use
    Tools,      \* tool names
    Private,    \* URLs on private addresses
    SSEOnly,    \* URLs whose server speaks only the deprecated transport
    Unreadable, \* ciphertexts that do not decrypt
    MaxOps      \* bound on requests, restarts, fetches and failed statements

VARIABLES
    table,      \* id -> row
    blocklist,  \* <<id, tool>>
    cache,      \* MCPServerCache: the rows of one snapshot
    transports, \* MCPTransportCache: id -> settings, or NoTransport
    listed,     \* tool cache: the servers whose tools it holds
    stage, arg, \* each handler, and the ticker
    up,         \* the process runs
    ops

serverVars == <<table, blocklist, cache, transports, listed, stage, arg, up, ops>>

Ticker == "ticker"
Actors == Reqs \cup {Ticker}
Settings == {"url", "auth", "header", "token", "secret", "version"}
NoTransport == [url |-> Null]
NoRow(id) == [id |-> id, alias |-> Null, org |-> Null, team |-> Null, active |-> FALSE,
              deleted |-> TRUE, source |-> Null, codeMode |-> FALSE, url |-> Null,
              auth |-> "none", header |-> Null, token |-> Null, secret |-> Null,
              version |-> "auto"]
NoRequest == [op |-> "none", id |-> Null, body |-> <<>>, before |-> NoRow(Null),
         servers |-> {}, status |-> 0, lone |-> FALSE]

RowsOf(t) == {t[id] : id \in Ids}
Rows == RowsOf(table)
Unused == {id \in Ids : table[id].alias = Null}
SettingsOf(sv) == [f \in Settings |-> sv[f]]
Set(row, body) == [f \in DOMAIN row |-> IF f \in DOMAIN body THEN body[f] ELSE row[f]]

-----------------------------------------------------------------------------
(* Validation, field by field of a body. *)
validMCPProtocolVersion(v) == v \in {"", "auto", "2025-03-26", "2026-06-30"}
validateMCPAlias(a) == a # "voidllm"
validateMCPServerURL(u) == u # Null /\ u \notin Private
validMCPAuthTypes == {"none", "bearer", "header", "oauth"}
(* Structural headers, and those of the protocol itself. *)
ReservedHeaders == {"Host", "Content-Type", "Mcp-Session-Id", "Mcp-Method"}
Has(body, f) == f \in DOMAIN body /\ body[f] # Null

validateAndNormalizeMCPServerRequest(body) ==
    /\ Has(body, "alias") /\ Has(body, "url")
    /\ validateMCPServerURL(body.url) /\ validateMCPAlias(body.alias)
    /\ validMCPProtocolVersion(body.version)
    /\ body.auth \in validMCPAuthTypes \cup {""}
    /\ body.auth = "header" => Has(body, "header") /\ body.header \notin ReservedHeaders
    /\ body.auth = "oauth" => Has(body, "secret")

ValidUpdate(existing, body) ==
    /\ "url" \in DOMAIN body => validateMCPServerURL(body.url)
    /\ "alias" \in DOMAIN body => validateMCPAlias(body.alias)
    /\ "auth" \in DOMAIN body => body.auth \in validMCPAuthTypes
    /\ "header" \in DOMAIN body => body.header \notin ReservedHeaders
    /\ "version" \in DOMAIN body => validMCPProtocolVersion(body.version)
    /\ "auth" \in DOMAIN body /\ body.auth = "oauth" /\ existing.auth # "oauth" => Has(body, "secret")

Normalized(row) == [row EXCEPT !.auth = IF @ = "" THEN "none" ELSE @,
                               !.version = IF @ = "" THEN "auto" ELSE @]

-----------------------------------------------------------------------------
(* The table. The alias is unique in its scope among rows not deleted. *)
Unique(t) == \A i, j \in Ids : i # j /\ ~t[i].deleted /\ ~t[j].deleted => CacheKey(t[i]) # CacheKey(t[j])

(* The row of a create request, without its credentials. *)
CreateMCPServer(t, id, body, o, tm, source) ==
    [t EXCEPT ![id] = Normalized(Set([NoRow(id) EXCEPT !.org = o, !.team = tm, !.active = TRUE,
                                        !.deleted = FALSE, !.source = source, !.codeMode = TRUE],
                                     [f \in DOMAIN body \ {"token", "secret"} |-> body[f]]))]

UpdateMCPServer(t, id, body) == [t EXCEPT ![id] = Normalized(Set(@, body))]

DeleteMCPServer(t, id) == [t EXCEPT ![id].deleted = TRUE]

CreateToolBlocklistEntry(id, x) == blocklist \cup {<<id, x>>}
DeleteToolBlocklistEntry(id, x) == blocklist \ {<<id, x>>}

-----------------------------------------------------------------------------
(* The tables of a run: rows by id, each with every column, and unique. A  *)
(* request body names no column that a handler sets itself, and whoever is *)
(* in a team is in its organisation.                                       *)
Columns == DOMAIN NoRow(Null)
IsTable(t) == DOMAIN t = Ids /\ \A id \in Ids : DOMAIN t[id] = Columns /\ t[id].id = id
Catalogue(t) == IsTable(t) /\ Unique(t)
Settable == Settings \cup {"alias", "codeMode"}

ServerParameters ==
    /\ \A t \in Stored : Catalogue(t)
    /\ \A body \in NewServers \cup Updates \cup Yaml : DOMAIN body \subseteq Settable
    /\ \A ki \in Callers : ki.team # Null => ki.org # Null

-----------------------------------------------------------------------------
(* The caches of a refresh. *)
CanBuild(sv) == sv.url # Null /\ sv.token \notin Unreadable /\ (sv.auth = "oauth" => sv.secret \notin Unreadable)

(* A transport is kept while its settings are the same, rebuilt when they  *)
(* are not, and missing while its credentials do not decrypt.              *)
TransportsOf(servers) ==
    [id \in Ids |->
        LET found == CacheGetByID(servers, id)
        IN IF \E sv \in found : CanBuild(sv) THEN SettingsOf(CHOOSE sv \in found : TRUE)
           ELSE NoTransport]

Starts(a) == [x \in Actors |-> IF x # a /\ stage[x] # "idle" THEN [arg[x] EXCEPT !.lone = FALSE] ELSE arg[x]]
Alone(a) == \A x \in Actors \ {a} : stage[x] = "idle"

EndRequest(r) == stage' = [stage EXCEPT ![r] = "idle"] /\ arg' = [arg EXCEPT ![r] = NoRequest]
GoTo(r, step) == stage' = [stage EXCEPT ![r] = step]
Counted == up /\ ops < MaxOps /\ ops' = ops + 1

-----------------------------------------------------------------------------
(* Who may change a server, and who may read it. *)
checkMCPServerScopePermission(sv, ki) ==
    \/ ki.role = "system_admin"
    \/ /\ sv.team # Null /\ sv.org = ki.org
       /\ ki.role = "org_admin" \/ (ki.role = "team_admin" /\ ki.team = sv.team)
    \/ sv.team = Null /\ sv.org # Null /\ ki.role = "org_admin" /\ sv.org = ki.org

checkMCPServerReadPermission(sv, ki) ==
    \/ ki.role = "system_admin"
    \/ sv.org # Null /\ sv.org = ki.org /\ (sv.team # Null => ki.role = "org_admin" \/ ki.team = sv.team)

(* POST: a valid body becomes a row without credentials, unless its alias  *)
(* is taken in its scope.                                                  *)
Insert(r, body, o, t) ==
    /\ stage[r] = "idle" /\ Counted
    /\ validateAndNormalizeMCPServerRequest(body)
    /\ Unused # {}
    /\ LET id == CHOOSE i \in Unused : TRUE
           created == CreateMCPServer(table, id, body, o, t, "api")
       IN /\ Unique(created)
          /\ table' = created
          /\ arg' = [Starts(r) EXCEPT ![r] = [NoRequest EXCEPT !.op = "create", !.id = id, !.before = NoRow(id),
                        !.body = [f \in DOMAIN body \cap {"token", "secret"} |-> body[f]],
                        !.status = 201, !.lone = Alone(r)]]
          /\ GoTo(r, IF Has(body, "token") \/ Has(body, "secret") THEN "secret" ELSE "query")
    /\ UNCHANGED <<blocklist, cache, transports, listed, up>>

CreateGlobalMCPServer(r, ki, body) == ki.role = "system_admin" /\ Insert(r, body, Null, Null)

CreateOrgMCPServer(r, ki, body, o) ==
    /\ ki.role = "system_admin" \/ (ki.role = "org_admin" /\ ki.org = o)
    /\ Insert(r, body, o, Null)

CreateTeamMCPServer(r, ki, body, o, t) ==
    /\ \/ ki.role = "system_admin"
       \/ ki.role = "org_admin" /\ ki.org = o
       \/ ki.role = "team_admin" /\ ki.org = o /\ ki.team = t
    /\ Insert(r, body, o, t)

(* Its credentials, in a second statement. When that fails, or the row is  *)
(* gone by then, the request ends with what the first one left.            *)
SetCredentials(r) ==
    /\ stage[r] = "secret"
    /\ \/ /\ ~table[arg[r].id].deleted
          /\ table' = UpdateMCPServer(table, arg[r].id, arg[r].body)
          /\ GoTo(r, "query") /\ UNCHANGED <<arg, ops>>
       \/ table[arg[r].id].deleted /\ EndRequest(r) /\ UNCHANGED <<table, ops>>
       \/ Counted /\ EndRequest(r) /\ UNCHANGED table
    /\ UNCHANGED <<blocklist, cache, transports, listed, up>>

(* Every other handler first reads the row and checks the caller. The      *)
(* check answers 403 and returns no error, so the handler goes on.         *)
PermissionAnswer(op, sv, ki) ==
    IF IF op = "refresh" THEN checkMCPServerReadPermission(sv, ki) ELSE checkMCPServerScopePermission(sv, ki)
    THEN 200 ELSE 403

GetServer(r, ki, op, id, body) ==
    /\ stage[r] = "idle" /\ Counted
    /\ GetMCPServer(Rows, id) # {}
    /\ op = "update" => ValidUpdate(table[id], body)
    /\ arg' = [Starts(r) EXCEPT ![r] = [NoRequest EXCEPT !.op = op, !.id = id, !.before = table[id], !.body = body,
                    !.status = PermissionAnswer(op, table[id], ki), !.lone = Alone(r)]]
    /\ GoTo(r, "write")
    /\ UNCHANGED <<table, blocklist, cache, transports, listed, up>>

(* PATCH, DELETE, activate, deactivate: one statement. A row that is gone  *)
(* or an alias that is taken ends the request.                             *)
WriteRow(r, written) ==
    /\ stage[r] = "write"
    /\ IF table[arg[r].id].deleted \/ ~Unique(written) THEN EndRequest(r) /\ UNCHANGED table
       ELSE table' = written /\ GoTo(r, "query") /\ UNCHANGED arg
    /\ UNCHANGED <<blocklist, cache, transports, listed, up, ops>>

Update(r) == arg[r].op = "update" /\ WriteRow(r, UpdateMCPServer(table, arg[r].id, arg[r].body))

Delete(r) == arg[r].op = "delete" /\ WriteRow(r, DeleteMCPServer(table, arg[r].id))

setMCPServerActive(r) ==
    /\ arg[r].op \in {"activate", "deactivate"}
    /\ WriteRow(r, UpdateMCPServer(table, arg[r].id, [active |-> arg[r].op = "activate"]))

(* POST test: an ad-hoc transport; a server found to speak only the        *)
(* deprecated transport is deactivated, and nothing is refreshed.          *)
TestMCPServerConnection(r) ==
    /\ stage[r] = "write" /\ arg[r].op = "test"
    /\ table' = IF arg[r].before.url \in SSEOnly /\ ~table[arg[r].id].deleted
                THEN UpdateMCPServer(table, arg[r].id, [active |-> FALSE]) ELSE table
    /\ EndRequest(r)
    /\ UNCHANGED <<blocklist, cache, transports, listed, up, ops>>

(* The blocklist: the entry, then the notice to whoever sees the server. *)
AddMCPServerBlocklist(r) ==
    /\ stage[r] = "write" /\ arg[r].op = "block"
    /\ \E x \in Tools : blocklist' = CreateToolBlocklistEntry(arg[r].id, x)
    /\ EndRequest(r)
    /\ UNCHANGED <<table, cache, transports, listed, up, ops>>

RemoveMCPServerBlocklist(r) ==
    /\ stage[r] = "write" /\ arg[r].op = "unblock"
    /\ \E x \in Tools : blocklist' = DeleteToolBlocklistEntry(arg[r].id, x)
    /\ EndRequest(r)
    /\ UNCHANGED <<table, cache, transports, listed, up, ops>>

-----------------------------------------------------------------------------
(* refreshMCPCaches, and the ticker's copy of it. A failed query skips the *)
(* rest of the refresh.                                                    *)
Query(a) ==
    /\ stage[a] = "query"
    /\ \/ /\ arg' = [arg EXCEPT ![a].servers = LoadAllActiveMCPServers(Rows)]
          /\ GoTo(a, "servers") /\ UNCHANGED ops
       \/ /\ Counted
          /\ arg' = [arg EXCEPT ![a] = IF a = Ticker THEN NoRequest ELSE [@ EXCEPT !.lone = FALSE]]
          /\ GoTo(a, IF a = Ticker THEN "idle" ELSE "after")
    /\ UNCHANGED <<table, blocklist, cache, transports, listed, up>>

LoadServers(a) ==
    /\ stage[a] = "servers"
    /\ cache' = arg[a].servers
    /\ GoTo(a, "transports")
    /\ UNCHANGED <<table, blocklist, transports, listed, arg, up, ops>>

LoadTransports(a) ==
    /\ stage[a] = "transports"
    /\ transports' = TransportsOf(arg[a].servers)
    /\ IF a = Ticker THEN EndRequest(a)
       ELSE GoTo(a, "after") /\ arg' = [arg EXCEPT ![a].servers = {}]
    /\ UNCHANGED <<table, blocklist, cache, listed, up, ops>>

Tick ==
    /\ up /\ stage[Ticker] = "idle"
    /\ GoTo(Ticker, "query") /\ arg' = Starts(Ticker)
    /\ UNCHANGED <<table, blocklist, cache, transports, listed, up, ops>>

(* After the refresh: the listing of a server that left, or whose settings *)
(* changed, is dropped; the fetch a create or an activation starts is      *)
(* Fetch below.                                                            *)
mcpAuthOrTransportFieldsChanged(before, after) == SettingsOf(before) # SettingsOf(after)
mcpVisibilityScopeChanged(before, after) ==
    \/ CacheKey(before) # CacheKey(after)
    \/ before.codeMode # after.codeMode

Dropped(r) ==
    \/ arg[r].op \in {"delete", "deactivate"}
    \/ arg[r].op = "update" /\ mcpAuthOrTransportFieldsChanged(arg[r].before, table[arg[r].id])

(* NotifyMCPServerScopeChange: the callers its two halves reach. *)
ToldOfBefore(r) == {ki \in Callers : snapshotAccessible(cache, ki, Grants, arg[r].before)}
ToldOfAfter(r) == {ki \in Callers : codeModeAccessChecker(cache, ki, Grants, arg[r].id)}

NotifyMCPServerScopeChangeAfterOnly(r) ==
    CASE arg[r].op \in {"create", "activate"} -> ToldOfAfter(r)
      [] arg[r].op \in {"delete", "deactivate"} -> ToldOfBefore(r)
      [] OTHER -> IF mcpVisibilityScopeChanged(arg[r].before, table[arg[r].id])
                  THEN ToldOfAfter(r) ELSE {}

NotifyMCPServerScopeChange(r) ==
    CASE arg[r].op \in {"create", "activate"} -> ToldOfAfter(r)
      [] arg[r].op \in {"delete", "deactivate"} -> ToldOfBefore(r)
      [] OTHER -> IF mcpVisibilityScopeChanged(arg[r].before, table[arg[r].id])
                  THEN ToldOfBefore(r) \cup ToldOfAfter(r) ELSE {}

After(r) ==
    /\ stage[r] = "after"
    /\ listed' = IF Dropped(r) THEN listed \ {arg[r].id} ELSE listed
    /\ EndRequest(r)
    /\ UNCHANGED <<table, blocklist, cache, transports, up, ops>>

-----------------------------------------------------------------------------
(* RefreshServer, which a create and an activation start in the background *)
(* and a request may ask for, fetches with the cached transport or with    *)
(* one built from the row. ToolCache is about fetches that race.           *)
MakeToolFetcher(id) ==
    /\ ~table[id].deleted
    /\ transports[id] # NoTransport \/ CanBuild(table[id])
    /\ listed' = listed \cup {id}

RefreshServer(id) ==
    /\ Counted /\ MakeToolFetcher(id)
    /\ UNCHANGED <<table, blocklist, cache, transports, stage, arg, up>>

(* Refused while the last fetch is recent, or failed, it changes nothing. *)
HandleRefreshMCPServerTools(r) ==
    /\ stage[r] = "write" /\ arg[r].op = "refresh"
    /\ MakeToolFetcher(arg[r].id) \/ UNCHANGED listed
    /\ EndRequest(r)
    /\ UNCHANGED <<table, blocklist, cache, transports, up, ops>>

-----------------------------------------------------------------------------
(* Startup. The configuration file is merged server by server: one not     *)
(* found among the active global rows is created, one of the file's own is *)
(* updated, one made through the API is left. A conflict ends startup.     *)
SyncYAMLMCPServers(t, body) ==
    LET existing == GetMCPServerByAlias(RowsOf(t), body.alias)
        free == {id \in Ids : t[id].alias = Null}
        id == IF existing # {} THEN (CHOOSE sv \in existing : TRUE).id
              ELSE IF free # {} THEN CHOOSE i \in free : TRUE ELSE Null
    IN IF existing = {} THEN UpdateMCPServer(CreateMCPServer(t, id, body, Null, Null, "yaml"), id,
                                             [f \in DOMAIN body \cap {"token", "secret"} |-> body[f]])
       ELSE IF t[id].source = "yaml" THEN UpdateMCPServer(t, id, body) ELSE t

(* Deactivated at startup: global servers that speak the old transport only. *)
Probed(t) == [id \in Ids |-> IF t[id] \in ListMCPServers(RowsOf(t)) /\ t[id].url \in SSEOnly
                             THEN [t[id] EXCEPT !.active = FALSE] ELSE t[id]]

(* One server of the file in an instance, so the merge is one step. *)
Synced == IF Yaml = {} THEN table ELSE SyncYAMLMCPServers(table, CHOOSE body \in Yaml : TRUE)

Restart ==
    /\ Counted
    /\ stage' = [a \in Actors |-> "idle"] /\ arg' = [a \in Actors |-> NoRequest]
    /\ listed' = {}
    /\ up' = Unique(Synced)
    /\ table' = IF up' THEN Probed(Synced) ELSE table
    /\ cache' = IF up' THEN LoadAllActiveMCPServers(RowsOf(table')) ELSE {}
    /\ transports' = IF up' THEN TransportsOf(cache') ELSE [id \in Ids |-> NoTransport]
    /\ UNCHANGED blocklist

ServersInit ==
    /\ table \in Stored
    /\ blocklist = {}
    /\ cache = LoadAllActiveMCPServers(Rows)
    /\ transports = TransportsOf(cache)
    /\ listed = {}
    /\ stage = [a \in Actors |-> "idle"] /\ arg = [a \in Actors |-> NoRequest]
    /\ up = TRUE /\ ops = 0

Orgs == {ki.org : ki \in Callers}
Teams == {<<ki.org, ki.team>> : ki \in {c \in Callers : c.team # Null}}
Bare == {"activate", "deactivate", "delete", "test", "block", "unblock", "refresh"}

RefreshStep(a) == Query(a) \/ LoadServers(a) \/ LoadTransports(a)
HandlerStep(r) ==
    \/ SetCredentials(r) \/ Update(r) \/ Delete(r) \/ setMCPServerActive(r)
    \/ TestMCPServerConnection(r)
    \/ AddMCPServerBlocklist(r) \/ RemoveMCPServerBlocklist(r)
    \/ HandleRefreshMCPServerTools(r) \/ After(r)

Begins(r) ==
    \/ \E ki \in Callers, body \in NewServers :
        \/ CreateGlobalMCPServer(r, ki, body)
        \/ \E o \in Orgs : CreateOrgMCPServer(r, ki, body, o)
        \/ \E t \in Teams : CreateTeamMCPServer(r, ki, body, t[1], t[2])
    \/ \E ki \in Callers, id \in Ids :
        \/ \E body \in Updates : GetServer(r, ki, "update", id, body)
        \/ \E op \in Bare : GetServer(r, ki, op, id, <<>>)

ServersNext ==
    \/ \E r \in Reqs : stage[r] = "idle" /\ ops < MaxOps /\ Begins(r)
    \/ \E r \in Reqs : HandlerStep(r)
    \/ \E a \in Actors : RefreshStep(a)
    \/ Tick
    \/ \E id \in Ids : RefreshServer(id)
    \/ Restart

ServersSpec == ServersInit /\ [][ServersNext]_serverVars

-----------------------------------------------------------------------------
(***************************************************************************)
(* An alias names one server for a caller, wherever it is decided: the     *)
(* cache and the scoped query agree, what code mode lists is what a call   *)
(* of that alias reaches and may use (the built-in server is called in the *)
(* process and asks for no grant), and the checker that decides who is     *)
(* notified, which sees only the cache, allows exactly the servers code    *)
(* mode lists from the table.                                              *)
(***************************************************************************)
OneServerPerAlias ==
    LET loaded == LoadAllActiveMCPServers(Rows)
        tools == [id \in Ids |-> IF id \in listed THEN Tools ELSE {}]
    IN \A ki \in Callers :
        LET shown == accessibleServers(Rows, ki, Grants, TRUE)
        IN /\ \A sv \in loaded : CacheGet(loaded, sv.alias, ki.org, ki.team)
                                = GetMCPServerByAliasScoped(Rows, sv.alias, ki.org, ki.team)
           /\ \A sv \in shown :
                /\ ResolveForCall(loaded, Rows, sv.alias, ki) = {sv}
                /\ AllowedToCall(sv, ki, Grants) \/ sv.source = "builtin"
           /\ \A offer \in Offered(Rows, ki, Grants, {}, {}, tools, blocklist) :
                \A sv \in ResolveForCall(loaded, Rows, offer[1].alias, ki) :
                    offer[2] \in tools[sv.id] /\ <<sv.id, offer[2]>> \notin blocklist
           /\ {sv.id : sv \in shown} = {id \in Ids : codeModeAccessChecker(loaded, ki, Grants, id)}

(***************************************************************************)
(* A handler that had the catalogue to itself tells every caller for whom  *)
(* the server appeared in, left or was renamed in the code mode listing,   *)
(* though by then only the row it read before its own write remembers who  *)
(* could see it (mcp_servers.go:1081-1098, 1224-1233, 1330-1356).          *)
(***************************************************************************)
ListedAs(rows, ki, id) == {sv.alias : sv \in {s \in accessibleServers(rows, ki, Grants, TRUE) : s.id = id}}

Affected(r) ==
    LET id == arg[r].id
        before == (Rows \ {table[id]}) \cup {arg[r].before}
    IN {ki \in Callers : ListedAs(before, ki, id) # ListedAs(Rows, ki, id)}

AffectedAreTold ==
    \A r \in Reqs : stage[r] = "after" /\ arg[r].lone => Affected(r) \subseteq NotifyMCPServerScopeChange(r)

(***************************************************************************)
(* "Servers that only support SSE are auto-deactivated with a warning"     *)
(* (app.go:250): the process can be started again, whatever happened.      *)
(***************************************************************************)
Restartable == up

(***************************************************************************)
(* A request answered 403 changes nothing: the permission check "writes    *)
(* the appropriate 401/403 response and returns an error when access is    *)
(* denied" (mcp_servers.go:436-437).                                       *)
(***************************************************************************)
RefusedChangesNothing ==
    [][\A r \in Reqs : stage[r] = "write" /\ stage'[r] # "write" /\ arg[r].status = 403
            => UNCHANGED <<table, blocklist>>]_serverVars
=============================================================================
