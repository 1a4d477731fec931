-------------------------- MODULE SessionRegistry --------------------------
(***************************************************************************)
(* Which legacy MCP sessions an upstream has issued to which caller        *)
(* (internal/mcp/session_registry.go). The proxy path records a session it *)
(* sees in a response (Record) and relays a caller's session only if it is *)
(* Known; a cache refresh reconciles the servers with the active ones.     *)
(*                                                                         *)
(* Three bounds are nested: organisations of a server and keys of an       *)
(* organisation leave in least-recently-used order, sessions of a scope in *)
(* the order they were recorded. Record and Known take a server's registry *)
(* under r.mu and use it under its own lock later, so a Reconcile may have *)
(* dropped it in between; what it then holds is reachable from nowhere.    *)
(***************************************************************************)
EXTENDS Naturals, Sequences, FiniteSets, SequencesExt

CONSTANTS
    Workers,             \* requests that use the registry together
    Servers,
    RegistryScopes,      \* records [org, key, client]
    Lookups,             \* triples <<server, scope, session>>
    Oversized,           \* the empty session and those over MaxSessionIDLength
    maxSessionsPerScope, maxOrgsPerServer, maxKeysPerOrg, maxRemovedServers,
    Watched,             \* the lookup whose session is followed
    MaxReconciles        \* bound on the refreshes of a run

VARIABLES
    servers, \* the registry a server's ID leads to, or Absent
    removed, \* removedLRU, the newest tombstone first
    busy, sought, \* each worker's place and lookup
    attached, \* the registry it took is still the server's
    sweep,   \* the running Reconcile, which holds r.mu
    watch,   \* what Watched has met since it was recorded (history)
    out,     \* servers removed and not active again, and the servers
             \* removed after each (history)
    reconciles

registryVars == <<servers, removed, busy, sought, attached, sweep, watch, out, reconciles>>

\* The bounds leave room, and lookups are of servers and scopes.
RegistryParameters ==
    /\ maxSessionsPerScope \in Nat \ {0} /\ maxOrgsPerServer \in Nat \ {0}
    /\ maxKeysPerOrg \in Nat \ {0} /\ maxRemovedServers \in Nat \ {0}
    /\ \A req \in Lookups : req[1] \in Servers /\ req[2] \in RegistryScopes
    /\ Watched \in Lookups

(***************************************************************************)
(* A client scope carries its organisation and key; any other scope is a   *)
(* bucket of its own, with an empty key.                                   *)
(***************************************************************************)
scopeBucket(scope) ==
    IF scope.client THEN <<scope.org, scope.key>> ELSE <<scope.org, "">>

BucketOrgs == {scopeBucket(sc)[1] : sc \in RegistryScopes}
BucketKeys == {scopeBucket(sc)[2] : sc \in RegistryScopes}

(* serverSessionRegistry: the lists of the three levels. *)
NewRegistry == [live |-> TRUE, orgLRU |-> <<>>, keyLRU |-> [o \in BucketOrgs |-> <<>>],
          sessions |-> [sc \in RegistryScopes |-> <<>>]]
Absent == [NewRegistry EXCEPT !.live = FALSE]

(* container/list: MoveToFront of the element in the i-th place, and        *)
(* MoveToFront or PushFront of e.                                           *)
MoveToFront(l, i) ==
    [j \in 1..Len(l) |-> IF j = 1 THEN l[i] ELSE IF j <= i THEN l[j - 1] ELSE l[j]]
PlaceOf(l, e) == CHOOSE i \in 1..Len(l) : l[i] = e
ToFront(l, e) == IF Contains(l, e) THEN MoveToFront(l, PlaceOf(l, e)) ELSE <<e>> \o l

(* The last organisation leaves with its keys, the last key with its scopes. *)
EvictOrg(srv) ==
    LET o == Last(srv.orgLRU) IN
    [srv EXCEPT !.orgLRU = Front(@), !.keyLRU[o] = <<>>,
                !.sessions = [sc \in RegistryScopes |->
                    IF scopeBucket(sc)[1] = o THEN <<>> ELSE @[sc]]]
EvictKey(srv, o) ==
    LET k == Last(srv.keyLRU[o]) IN
    [srv EXCEPT !.keyLRU[o] = Front(@),
                !.sessions = [sc \in RegistryScopes |->
                    IF scopeBucket(sc) = <<o, k>> THEN <<>> ELSE @[sc]]]

touchOrg(srv, o) ==
    LET full == ~Contains(srv.orgLRU, o) /\ Len(srv.orgLRU) >= maxOrgsPerServer
        kept == IF full THEN EvictOrg(srv) ELSE srv
    IN  [kept EXCEPT !.orgLRU = ToFront(@, o)]

\* Mutant: a key that is used again keeps its place.
touchKeyInPlace(srv, o, k) ==
    LET there == Contains(srv.keyLRU[o], k)
        full == ~there /\ Len(srv.keyLRU[o]) >= maxKeysPerOrg
        kept == IF full THEN EvictKey(srv, o) ELSE srv
    IN  [kept EXCEPT !.keyLRU[o] = IF there THEN @ ELSE ToFront(@, k)]

touchKey(srv, o, k) ==
    LET full == ~Contains(srv.keyLRU[o], k) /\ Len(srv.keyLRU[o]) >= maxKeysPerOrg
        kept == IF full THEN EvictKey(srv, o) ELSE srv
    IN  [kept EXCEPT !.keyLRU[o] = ToFront(@, k)]

(* A session recorded twice keeps its place; the oldest leaves a full scope. *)
record(list, sid) ==
    IF Contains(list, sid) THEN list
    ELSE Append(IF Len(list) >= maxSessionsPerScope THEN Tail(list) ELSE list, sid)

(* touch(scope).record(sessionID), under the server's lock. *)
Recorded(srv, scope, sid) ==
    LET b == scopeBucket(scope)
        touched == touchKey(touchOrg(srv, b[1]), b[1], b[2])
    IN  [touched EXCEPT !.sessions[scope] = record(@, sid)]

(* What Known moves: only levels that exist, and each only if the one above *)
(* does.                                                                    *)
HasOrg(srv, b) == Contains(srv.orgLRU, b[1])
HasKey(srv, b) == Contains(srv.keyLRU[b[1]], b[2])
Looked(srv, scope) ==
    LET b == scopeBucket(scope) IN
    [srv EXCEPT !.orgLRU = IF HasOrg(srv, b) THEN ToFront(@, b[1]) ELSE @,
                !.keyLRU[b[1]] = IF HasOrg(srv, b) /\ HasKey(srv, b) THEN ToFront(@, b[2]) ELSE @]

entryKnown(srv, scope, sid) == Contains(srv.sessions[scope], sid)

tombstone(list, id) ==
    IF Contains(list, id) THEN list
    ELSE <<id>> \o (IF Len(list) >= maxRemovedServers THEN Front(list) ELSE list)

untombstone(list, id) == IF Contains(list, id) THEN RemoveAt(list, PlaceOf(list, id)) ELSE list

-----------------------------------------------------------------------------
Unissued == [yes |-> FALSE, orgs |-> {}, keys |-> {}, sessions |-> {}]
In == [out |-> FALSE, since |-> {}]
Unlocked == [on |-> FALSE, keep |-> {}]

RegistryInit ==
    /\ servers = [s \in Servers |-> Absent]
    /\ removed = <<>>
    /\ busy = [c \in Workers |-> "idle"]
    /\ sought = [c \in Workers |-> Watched]
    /\ attached = [c \in Workers |-> FALSE]
    /\ sweep = Unlocked
    /\ watch = Unissued
    /\ out = [s \in Servers |-> In]
    /\ reconciles = 0

(***************************************************************************)
(* Record, first half (serverForIfNotRemoved, under r.mu): an empty or     *)
(* oversized session and a tombstoned server are refused; a server met for *)
(* the first time gets a registry.                                         *)
(***************************************************************************)
Record(c, req) ==
    /\ busy[c] = "idle" /\ req[3] \notin Oversized /\ ~sweep.on
    /\ ~Contains(removed, req[1])
    /\ busy' = [busy EXCEPT ![c] = "recording"]
    /\ servers' = [servers EXCEPT ![req[1]] = IF @.live THEN @ ELSE NewRegistry]
    /\ sought' = [sought EXCEPT ![c] = req]
    /\ attached' = [attached EXCEPT ![c] = TRUE]
    /\ UNCHANGED <<removed, sweep, watch, out, reconciles>>

(***************************************************************************)
(* What Watched has met once a scope of its server is used: it is followed *)
(* no further when as many others have passed as a level holds.            *)
(***************************************************************************)
Met(scope, sid, key, recorded) ==
    LET b == scopeBucket(scope)
        w == scopeBucket(Watched[2])
        i == [yes |-> TRUE,
              orgs |-> IF b[1] = w[1] THEN {} ELSE watch.orgs \cup {b[1]},
              keys |-> IF b = w THEN {}
                       ELSE IF b[1] = w[1] /\ key THEN watch.keys \cup {b[2]}
                       ELSE watch.keys,
              sessions |-> IF recorded /\ scope = Watched[2] /\ sid # Watched[3]
                           THEN watch.sessions \cup {sid}
                           ELSE watch.sessions]
    IN  IF /\ watch.yes
           /\ Cardinality(i.orgs) < maxOrgsPerServer
           /\ Cardinality(i.keys) < maxKeysPerOrg
           /\ Cardinality(i.sessions) < maxSessionsPerScope
        THEN i ELSE Unissued

Release(c) ==
    /\ busy' = [busy EXCEPT ![c] = "idle"]
    /\ attached' = [attached EXCEPT ![c] = FALSE]
    /\ sought' = [sought EXCEPT ![c] = Watched]
    /\ UNCHANGED <<removed, sweep, out, reconciles>>

recordUnderLock(c) ==
    LET s == sought[c][1] IN
    /\ busy[c] = "recording" /\ Release(c)
    /\ servers' = IF attached[c]
                  THEN [servers EXCEPT ![s] = Recorded(@, sought[c][2], sought[c][3])]
                  ELSE servers
    /\ watch' = IF ~attached[c] \/ s # Watched[1] THEN watch
                ELSE IF sought[c] = Watched /\ ~watch.yes
                     THEN [Unissued EXCEPT !.yes =
                              ~entryKnown(servers[s], Watched[2], Watched[3])]
                ELSE Met(sought[c][2], sought[c][3], TRUE, TRUE)

(* Known, first half: a server without a registry knows nothing. *)
Known(c, req) ==
    /\ busy[c] = "idle" /\ req[3] \notin Oversized /\ ~sweep.on
    /\ servers[req[1]].live
    /\ busy' = [busy EXCEPT ![c] = "looking"]
    /\ sought' = [sought EXCEPT ![c] = req]
    /\ attached' = [attached EXCEPT ![c] = TRUE]
    /\ UNCHANGED <<servers, removed, sweep, watch, out, reconciles>>

knownUnderLock(c) ==
    LET s == sought[c][1]
        b == scopeBucket(sought[c][2])
    IN
    /\ busy[c] = "looking" /\ Release(c)
    /\ servers' = IF attached[c] THEN [servers EXCEPT ![s] = Looked(@, sought[c][2])]
                  ELSE servers
    /\ watch' = IF attached[c] /\ s = Watched[1] /\ HasOrg(servers[s], b)
                THEN Met(sought[c][2], sought[c][3], HasKey(servers[s], b), FALSE)
                ELSE watch

(***************************************************************************)
(* Reconcile(activeServerIDs), in one hold of r.mu: registries of servers  *)
(* that are no longer active are dropped and their IDs tombstoned, in the  *)
(* order Go's map iteration picks; then tombstones of active servers are   *)
(* lifted. Whoever took a registry before goes on meanwhile.               *)
(***************************************************************************)
Reconcile(active) ==
    /\ ~sweep.on /\ reconciles < MaxReconciles
    /\ reconciles' = reconciles + 1
    /\ sweep' = [on |-> TRUE, keep |-> active]
    /\ out' = [s \in Servers |-> IF s \in active THEN In ELSE out[s]]
    /\ UNCHANGED <<servers, removed, busy, sought, attached, watch>>

ToDrop == {s \in Servers : servers[s].live /\ s \notin sweep.keep}
ToLift == {s \in sweep.keep : Contains(removed, s)}

DropServer(s) ==
    /\ sweep.on /\ s \in ToDrop
    /\ servers' = [servers EXCEPT ![s] = Absent]
    /\ removed' = tombstone(removed, s)
    /\ attached' = [c \in Workers |-> attached[c] /\ sought[c][1] # s]
    /\ watch' = IF Watched[1] = s THEN Unissued ELSE watch
    /\ out' = [t \in Servers |->
                 IF t = s THEN [out |-> TRUE, since |-> {}]
                 ELSE [out[t] EXCEPT !.since = @ \cup {s}]]
    /\ UNCHANGED <<busy, sought, sweep, reconciles>>

LiftTombstone(s) ==
    /\ sweep.on /\ ToDrop = {} /\ s \in ToLift
    /\ removed' = untombstone(removed, s)
    /\ UNCHANGED <<servers, busy, sought, attached, sweep, watch, out, reconciles>>

ReconcileReturns ==
    /\ sweep.on /\ ToDrop = {} /\ ToLift = {}
    /\ sweep' = Unlocked
    /\ UNCHANGED <<servers, removed, busy, sought, attached, watch, out, reconciles>>

SessionStep(c) ==
    \/ \E req \in Lookups : Record(c, req) \/ Known(c, req)
    \/ recordUnderLock(c) \/ knownUnderLock(c)

RegistryNext ==
    \/ \E c \in Workers : SessionStep(c)
    \/ \E active \in SUBSET Servers : Reconcile(active)
    \/ \E s \in Servers : DropServer(s) \/ LiftTombstone(s)
    \/ ReconcileReturns

RegistrySpec == RegistryInit /\ [][RegistryNext]_registryVars

-----------------------------------------------------------------------------
(***************************************************************************)
(* A session stays known until its own bounds push it out: it is there     *)
(* unless, since it was recorded or last used, as many other organisations *)
(* of the server, other keys of the same organisation or newer sessions of *)
(* the same scope were used as the bound of that level. In particular no   *)
(* other organisation's keys or sessions, however many, take the place of  *)
(* this one's (session_registry.go:46-87, 503-546).                        *)
(***************************************************************************)
KeptUntilOutnumbered ==
    watch.yes => entryKnown(servers[Watched[1]], Watched[2], Watched[3])

(***************************************************************************)
(* A server whose registry was dropped has none until a refresh sees it    *)
(* active again, whatever Record was in flight, unless maxRemovedServers   *)
(* other servers were dropped after it (session_registry.go:106-127).      *)
(***************************************************************************)
RemovedStaysOut ==
    \A s \in Servers :
        out[s].out /\ Cardinality(out[s].since) < maxRemovedServers
          => ~servers[s].live

(***************************************************************************)
(* Neither a session nor a tombstone gives way before its own bound: the   *)
(* two statements above.                                                   *)
(***************************************************************************)
SessionsKept == KeptUntilOutnumbered /\ RemovedStaysOut
=============================================================================
