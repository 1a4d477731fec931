----------------------------- MODULE AccessLists -----------------------------
(***************************************************************************)
(* Who may use which model and which global MCP server, and by what alias: *)
(* three kinds of lists with the same life. A list is a table row set per  *)
(* scope (organisation, team, key); a handler replaces or edits it, reloads*)
(* the cache of its own instance with one query per scope, and publishes.  *)
(* The other instances reload on the message, which may be lost, and every *)
(* instance on a ticker. Reloads run side by side; each swaps the cache in *)
(* whole with what its queries returned.                                   *)
(*                                                                         *)
(* One organisation, one team of it, and one key of that team. An item is  *)
(* a model name, a server or an alias.                                     *)
(***************************************************************************)
EXTENDS Naturals, FiniteSets, Sequences

CONSTANTS
    Instances, Handlers, Items,
    Known,  \* the items the registry or the server table knows
    MaxChanges \* bound on the requests of a run

VARIABLES
    kind,   \* "model", "mcp" or "alias"
    tables, \* scope -> items
    caches, \* instance -> scope -> items
    phase,  \* per request, subscriber and ticker: the next step
    arg,    \* what it will write, and where
    got,    \* what its queries have returned so far
    inbox,  \* instances with a message to handle
    changes

accessVars == <<kind, tables, caches, phase, arg, got, inbox, changes>>

Scopes == IF kind = "alias" THEN <<"org", "team">> ELSE <<"org", "team", "key">>
Subscriber(n) == <<"subscriber", n>>
Ticker(n) == <<"ticker", n>>
Loops == {Subscriber(n) : n \in Instances} \cup {Ticker(n) : n \in Instances}
Actors == Handlers \cup Loops
NodeOf(a) == IF a \in Handlers THEN arg[a].node ELSE a[2]

Nothing == [scope \in {"org", "team", "key"} |-> {}]
NoRequest == [node |-> "none", scope |-> "none", items |-> {}]

(***************************************************************************)
(* The tables.                                                             *)
(***************************************************************************)
GetOrgAccess == tables["org"]
GetTeamAccess == tables["team"]
GetKeyAccess == tables["key"]

(* Delete and insert in one transaction. *)
SetModelAccess(scope, items) == [tables EXCEPT ![scope] = items]
SetMCPAccess(scope, items) == [tables EXCEPT ![scope] = items]

(* An empty list of the organisation allows every model and no MCP server. *)
CheckModelAccess(inTeam, x) ==
    /\ GetOrgAccess # {} => x \in GetOrgAccess
    /\ inTeam => (GetTeamAccess # {} => x \in GetTeamAccess)
    /\ GetKeyAccess # {} => x \in GetKeyAccess

CheckMCPAccess(inTeam, x) ==
    /\ GetOrgAccess # {} /\ x \in GetOrgAccess
    /\ inTeam => (GetTeamAccess # {} => x \in GetTeamAccess)
    /\ GetKeyAccess # {} => x \in GetKeyAccess

(***************************************************************************)
(* The caches' decisions. Load kept only the scopes that have rows.        *)
(***************************************************************************)
toSetMap(c) == [scope \in {s \in DOMAIN c : c[s] # {}} |-> c[scope]]

ModelCheck(c, inTeam, x) ==
    LET allow == toSetMap(c) IN
    ~ \/ "org" \in DOMAIN allow /\ x \notin allow["org"]
      \/ inTeam /\ "team" \in DOMAIN allow /\ x \notin allow["team"]
      \/ "key" \in DOMAIN allow /\ x \notin allow["key"]

\* Mutant: the organisation's level is open by default, like the others.
MCPCheckOpen(c, inTeam, x) ==
    LET allow == toSetMap(c) IN
    ~ \/ "org" \in DOMAIN allow /\ x \notin allow["org"]
      \/ inTeam /\ "team" \in DOMAIN allow /\ x \notin allow["team"]
      \/ "key" \in DOMAIN allow /\ x \notin allow["key"]

MCPCheck(c, inTeam, x) ==
    LET allow == toSetMap(c) IN
    ~ \/ "org" \notin DOMAIN allow
      \/ x \notin allow["org"]
      \/ inTeam /\ "team" \in DOMAIN allow /\ x \notin allow["team"]
      \/ "key" \in DOMAIN allow /\ x \notin allow["key"]

(***************************************************************************)
(* Handlers: the checks, then the statement, then the reload.              *)
(***************************************************************************)
BeginChange(r, n, scope, items) ==
    /\ phase[r] = "idle" /\ changes < MaxChanges
    /\ changes' = changes + 1
    /\ phase' = [phase EXCEPT ![r] = "write"]
    /\ arg' = [arg EXCEPT ![r] = [node |-> n, scope |-> scope, items |-> items]]
    /\ UNCHANGED <<kind, tables, caches, got, inbox>>

validateModelNames(items) == items \subseteq Known
validateMCPServerIDs(items) == items \subseteq Known

requireSubsetOfOrgModels(items) == GetOrgAccess # {} => items \subseteq GetOrgAccess
requireSubsetOfOrgMCPServers(items) == GetOrgAccess # {} /\ items \subseteq GetOrgAccess
requireSubsetOfKeyEffectiveModels(items) ==
    /\ GetTeamAccess # {} => items \subseteq GetTeamAccess
    /\ requireSubsetOfOrgModels(items)
requireSubsetOfKeyEffectiveMCPServers(items) ==
    /\ GetTeamAccess # {} => items \subseteq GetTeamAccess
    /\ requireSubsetOfOrgMCPServers(items)

SetOrgModelAccess(r, n, items) ==
    kind = "model" /\ validateModelNames(items) /\ BeginChange(r, n, "org", items)

(* An empty list needs no check: it lifts the restriction. *)
SetTeamModelAccess(r, n, items) ==
    /\ kind = "model" /\ validateModelNames(items)
    /\ items # {} => requireSubsetOfOrgModels(items)
    /\ BeginChange(r, n, "team", items)

SetKeyModelAccess(r, n, items) ==
    /\ kind = "model" /\ validateModelNames(items)
    /\ items # {} => requireSubsetOfKeyEffectiveModels(items)
    /\ BeginChange(r, n, "key", items)

SetOrgMCPAccess(r, n, items) ==
    kind = "mcp" /\ validateMCPServerIDs(items) /\ BeginChange(r, n, "org", items)

SetTeamMCPAccess(r, n, items) ==
    /\ kind = "mcp" /\ validateMCPServerIDs(items)
    /\ items # {} => requireSubsetOfOrgMCPServers(items)
    /\ BeginChange(r, n, "team", items)

SetKeyMCPAccess(r, n, items) ==
    /\ kind = "mcp" /\ validateMCPServerIDs(items)
    /\ items # {} => requireSubsetOfKeyEffectiveMCPServers(items)
    /\ BeginChange(r, n, "key", items)

(* An alias may not be spelled like a model; Known are the aliases that are not. *)
CreateOrgAlias(r, n, x) == kind = "alias" /\ x \in Known /\ BeginChange(r, n, "org", {x})
CreateTeamAlias(r, n, x) == kind = "alias" /\ x \in Known /\ BeginChange(r, n, "team", {x})

(* ErrConflict when the scope has the alias. *)
CreateModelAlias(scope, x) == x \notin tables[scope] /\ tables' = [tables EXCEPT ![scope] = @ \cup {x}]

(* The DELETE names the scope: a row of another scope is not found. *)
DeleteModelAlias(scope, x) == x \in tables[scope] /\ tables' = [tables EXCEPT ![scope] = @ \ {x}]

DeleteAlias(r, n, scope, x) ==
    /\ kind = "alias" /\ phase[r] = "idle" /\ changes < MaxChanges
    /\ DeleteModelAlias(scope, x)
    /\ changes' = changes + 1
    /\ phase' = [phase EXCEPT ![r] = "read"]
    /\ arg' = [arg EXCEPT ![r] = [node |-> n, scope |-> scope, items |-> {x}]]
    /\ UNCHANGED <<kind, caches, got, inbox>>

DeleteOrgAlias(r, n, x) == DeleteAlias(r, n, "org", x)
DeleteTeamAlias(r, n, x) == DeleteAlias(r, n, "team", x)

Write(r) ==
    LET scope == arg[r].scope items == arg[r].items IN
    /\ phase[r] = "write"
    /\ IF kind # "alias"
       THEN /\ tables' = IF kind = "model" THEN SetModelAccess(scope, items) ELSE SetMCPAccess(scope, items)
            /\ phase' = [phase EXCEPT ![r] = "read"] /\ UNCHANGED arg
       ELSE \E x \in items :
              IF x \notin tables[scope]
              THEN CreateModelAlias(scope, x) /\ phase' = [phase EXCEPT ![r] = "read"] /\ UNCHANGED arg
              ELSE /\ UNCHANGED tables
                   /\ phase' = [phase EXCEPT ![r] = "idle"] /\ arg' = [arg EXCEPT ![r] = NoRequest]
    /\ UNCHANGED <<kind, caches, got, inbox, changes>>

(***************************************************************************)
(* Reloads.                                                                *)
(***************************************************************************)
(* A query per scope: what the k-th one returns. *)
LoadAllModelAccess(k) == tables[<<"org", "team", "key">>[k]]
LoadAllMCPAccess(k) == tables[<<"org", "team", "key">>[k]]
LoadAllModelAliases(k) == tables[<<"org", "team">>[k]]

Read(a) ==
    LET k == Len(got[a]) + 1 IN
    /\ phase[a] = "read" /\ Len(got[a]) < Len(Scopes)
    /\ got' = [got EXCEPT ![a] = Append(@, CASE kind = "model" -> LoadAllModelAccess(k)
                                             [] kind = "mcp" -> LoadAllMCPAccess(k)
                                             [] kind = "alias" -> LoadAllModelAliases(k))]
    /\ UNCHANGED <<kind, tables, caches, phase, arg, inbox, changes>>

(* The swap, under the cache's lock. *)
Load(a) ==
    /\ phase[a] = "read" /\ Len(got[a]) = Len(Scopes)
    /\ caches' = [caches EXCEPT ![NodeOf(a)] = [s \in DOMAIN Nothing |->
          IF \E k \in DOMAIN Scopes : Scopes[k] = s
          THEN got[a][CHOOSE k \in DOMAIN Scopes : Scopes[k] = s] ELSE {}]]
    /\ got' = [got EXCEPT ![a] = <<>>]
    /\ phase' = [phase EXCEPT ![a] = IF a \in Handlers THEN "publish" ELSE "idle"]
    /\ UNCHANGED <<kind, tables, arg, inbox, changes>>

(* publishAccessInvalidation, publishAliasInvalidation: any instance may    *)
(* miss it. No instance reloads its MCP lists on it.                        *)
PublishLists(r) ==
    /\ phase[r] = "publish"
    /\ \E reached \in SUBSET Instances :
          inbox' = inbox \cup (IF kind = "mcp" THEN {} ELSE reached)
    /\ phase' = [phase EXCEPT ![r] = "idle"] /\ arg' = [arg EXCEPT ![r] = NoRequest]
    /\ UNCHANGED <<kind, tables, caches, got, changes>>

ReceiveLists(n) ==
    /\ n \in inbox /\ phase[Subscriber(n)] = "idle"
    /\ inbox' = inbox \ {n}
    /\ phase' = [phase EXCEPT ![Subscriber(n)] = "read"]
    /\ UNCHANGED <<kind, tables, caches, arg, got, changes>>

(* startTicker: the next tick waits for the last one's work. *)
Tick(n) ==
    /\ phase[Ticker(n)] = "idle"
    /\ phase' = [phase EXCEPT ![Ticker(n)] = "read"]
    /\ UNCHANGED <<kind, tables, caches, arg, got, inbox, changes>>

AccessInit ==
    /\ kind \in {"model", "mcp", "alias"}
    /\ tables = Nothing
    /\ caches = [n \in Instances |-> Nothing]
    /\ phase = [a \in Actors |-> "idle"]
    /\ arg = [r \in Handlers |-> NoRequest]
    /\ got = [a \in Actors |-> <<>>]
    /\ inbox = {}
    /\ changes = 0

Handler(r, n) ==
    \/ \E items \in SUBSET Items :
          \/ SetOrgModelAccess(r, n, items)
          \/ SetTeamModelAccess(r, n, items)
          \/ SetKeyModelAccess(r, n, items)
          \/ SetOrgMCPAccess(r, n, items)
          \/ SetTeamMCPAccess(r, n, items)
          \/ SetKeyMCPAccess(r, n, items)
    \/ \E x \in Items :
          \/ CreateOrgAlias(r, n, x)
          \/ CreateTeamAlias(r, n, x)
          \/ DeleteOrgAlias(r, n, x)
          \/ DeleteTeamAlias(r, n, x)

AccessNext ==
    \/ \E r \in Handlers, n \in Instances : Handler(r, n)
    \/ \E r \in Handlers : Write(r) \/ PublishLists(r)
    \/ \E n \in Instances : ReceiveLists(n) \/ Tick(n)
    \/ \E a \in Actors : Read(a) \/ Load(a)

(* The tickers run until shutdown, and a handler or a reload goes on. *)
AccessFairness ==
    /\ \A a \in Actors : WF_accessVars(Read(a) \/ Load(a))
    /\ \A n \in Instances : WF_accessVars(Tick(n))
    /\ \A r \in Handlers : WF_accessVars(Write(r) \/ PublishLists(r))

AccessSpec == AccessInit /\ [][AccessNext]_accessVars /\ AccessFairness

(***************************************************************************)
(* Properties.                                                             *)
(***************************************************************************)
CaughtUp == \A n \in Instances : caches[n] = tables

(* Every instance's cache ends up with the tables' lists and keeps them,   *)
(* although messages are lost, reloads overtake each other and a slow one  *)
(* swaps in what it read before the last change.                           *)
CachesCatchUp == <>[]CaughtUp

(* On the same lists the caches and the database queries decide alike, for *)
(* a key in a team and for one that is not: the order of the levels and    *)
(* what an empty level means are written twice, and differ between models  *)
(* and MCP servers.                                                        *)
SameDecision ==
    \A x \in Items, inTeam \in BOOLEAN :
        /\ kind = "model" => (ModelCheck(tables, inTeam, x) <=> CheckModelAccess(inTeam, x))
        /\ kind = "mcp" => (MCPCheck(tables, inTeam, x) <=> CheckMCPAccess(inTeam, x))
=============================================================================
