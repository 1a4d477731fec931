---------------------------- MODULE McpEndpoint ----------------------------
(***************************************************************************)
(* VoidLLM's own MCP endpoint: how a POST is checked and dispatched        *)
(* (api/admin/mcp_handler.go, mcp/negotiate.go, mcp/server.go, the two     *)
(* server dialects), and the subscriptions/listen streams it opens         *)
(* (mcp/subscriptions.go): their slots per key, organisation and server,   *)
(* the notifications fanned out to them, the revalidation of their key,    *)
(* and the drain at shutdown.                                              *)
(*                                                                         *)
(* A request is a record of what the checks tell apart; "agrees" fields    *)
(* say how a header compares with the body.                                *)
(***************************************************************************)
EXTENDS Naturals, FiniteSets

CONSTANTS
    Clients,          \* connections; each posts at most one request
    Owner,            \* Owner[c]: the identity [key, team, org] of c's key
    Posts,            \* the requests a client may post
    Scopes,           \* the NotifyScopes of the changes
    SeenBy,           \* SeenBy[s]: the identities AccessChecker lets see server s
    Enabled,          \* SetToolsListChangedSource(true): the Code Mode server
    maxListenStreamsPerKey, maxListenStreamsPerOrg, maxListenStreamsPerServer,
    MaxChanges        \* bound on the changes of a run

VARIABLES
    available, \* MCPListenMaxDuration > 0: streams are offered
    at,       \* each client's place
    answer,   \* the status of a request that opened no stream
    all, byKey, byOrg, closed, \* subscriberRegistry
    honored,  \* the subscribers whose filter includes tools/list_changed
    events,   \* the one-slot channel of each subscriber is full
    live,     \* the keys keyRevalidator finds in the cache, unchanged
    fan,      \* the running notify: its scope and the subscribers left
    changes,
    owed,     \* clients a change was for and that have not been told (history)
    drain     \* WaitForSubscriptionsDrain

vars == <<available, at, answer, all, byKey, byOrg, closed, honored, events, live, fan,
          changes, owed, drain>>

Keys == {Owner[c].key : c \in Clients}
Organisations == {Owner[c].org : c \in Clients}

\* Connections are finitely many.
EndpointParameters == IsFiniteSet(Clients)

-----------------------------------------------------------------------------
(***************************************************************************)
(* The checks of a POST.                                                   *)
(*   header, body: the protocol version each names ("none", "legacy",      *)
(*                 "modern", "unknown")                                    *)
(*   parses, rpc2: the body is JSON, and JSON-RPC 2.0                      *)
(*   id:           FALSE for a notification                                *)
(*   method, target: each "agrees" with its header, or is "missing", badly *)
(*                 encoded or different ("differs")                        *)
(*   meta:         the modern envelope: "ok", "missing" or of a bad type   *)
(*   params, filter: what the method reads                                 *)
(***************************************************************************)
Valid(v) == v \in {"legacy", "modern"}
Era(v) == IF v = "modern" THEN "modern" ELSE "legacy"
isModernProtocolVersion(v) == Valid(v) /\ Era(v) = "modern"

(* Methods whose request has a target in its parameters. *)
TargetParamKey(m) == m = "tools/call"

validateMCPHeaders(r) ==
    LET body == IF r.parses THEN r.body ELSE "none" IN
    /\ ~(r.header = "none" /\ isModernProtocolVersion(body))
    /\ ~(r.header # "none" /\ body # "none" /\ r.header # body)
    /\ isModernProtocolVersion(r.header)
         => /\ r.parses /\ r.methodHeader = "agrees"
            /\ TargetParamKey(r.method) => r.targetHeader = "agrees"

(* A header decides the version; without one the request is legacy. *)
Negotiate(r) ==
    CASE r.header = "none" -> "legacy"
      [] ~Valid(r.header) -> "refused"
      [] OTHER -> Era(r.header)

(* The status an error maps to: its own hint, or by code and era. *)
statusHintFor(code, era) ==
    CASE code \in {"version", "mismatch", "capability", "badParams"} -> 400
      [] code = "method" /\ era = "modern" -> 404
      [] code = "tooMany" -> 429
      [] code = "closed" -> 503
      [] OTHER -> 200

(* Decode: both dialects want JSON-RPC 2.0; the modern one insists on its  *)
(* _meta fields too.                                                       *)
DecodeModern(r) ==
    CASE r.meta = "missing" -> "badParams"
      [] r.meta = "type" -> "meta"
      [] OTHER -> "ok"

Decode(r, era) ==
    CASE ~r.parses \/ ~r.rpc2 -> "parse"
      [] era = "modern" -> DecodeModern(r)
      [] OTHER -> "ok"

(* handleToolsCall: an unknown tool, a missing extension, or a parameter   *)
(* header that disagrees with the arguments.                               *)
handleToolsCall(r, era) ==
    CASE r.params \in {"bad", "unknownTool"} -> "params"
      [] r.params = "noExtension" -> "capability"
      [] era = "modern" /\ r.params = "paramHeaderDiffers" -> "mismatch"
      [] OTHER -> "ok"

dispatch(r, era) ==
    CASE r.method = "tools/list" ->
            IF r.params # "cursor" THEN "ok"
            ELSE IF era = "modern" THEN "badParams" ELSE "params"
      [] r.method = "tools/call" -> handleToolsCall(r, era)
      [] era = "legacy" -> IF r.method \in {"initialize", "ping"} THEN "ok" ELSE "method"
      [] r.method = "server/discover" -> "ok"
      [] r.method = "subscriptions/listen" ->
            IF ~r.id THEN "ok" ELSE IF r.filter = "bad" THEN "badParams" ELSE "listen"
      [] OTHER -> "method"

(* Handle: what a request comes to, before a stream is registered. *)
Handle(r) ==
    LET era == Negotiate(r)
        read == Decode(r, era)
        ran == dispatch(r, era)
    IN  CASE ~validateMCPHeaders(r) -> 400
          [] era = "refused" -> 400
          [] read # "ok" -> statusHintFor(read, era)
          [] ~r.id -> 202
          [] ran = "ok" -> 200
          [] ran = "listen" -> 0
          [] OTHER -> statusHintFor(ran, era)

-----------------------------------------------------------------------------
Idle == [on |-> FALSE, scope |-> CHOOSE s \in Scopes : TRUE, left |-> {}]

Init ==
    /\ available \in BOOLEAN
    /\ at = [c \in Clients |-> "idle"]
    /\ answer = [c \in Clients |-> 0]
    /\ all = {} /\ closed = FALSE
    /\ byKey = [k \in Keys |-> 0]
    /\ byOrg = [o \in Organisations |-> 0]
    /\ honored = {} /\ events = [c \in Clients |-> FALSE]
    /\ live = Keys
    /\ fan = Idle /\ changes = 0 /\ owed = {}
    /\ drain = "no"

(* KeyValidator: the subscriber's identity against the key cache. *)
keyRevalidator(c) == Owner[c].key \in live

(* NotifyScope.matches: exactly one field of a scope is set. *)
matches(scope, c) ==
    CASE scope.kind = "server" -> Owner[c] \in SeenBy[scope.of]
      [] scope.kind = "key" -> Owner[c].key = scope.of
      [] scope.kind = "team" -> Owner[c].team = scope.of
      [] scope.kind = "org" -> Owner[c].org = scope.of

(***************************************************************************)
(* register, in one hold of the registry's lock; the refusals in order.    *)
(***************************************************************************)
RegisterEvenClosed(c) ==
    CASE Cardinality(all) >= maxListenStreamsPerServer -> "tooMany"
      [] byOrg[Owner[c].org] >= maxListenStreamsPerOrg -> "tooMany"
      [] byKey[Owner[c].key] >= maxListenStreamsPerKey -> "tooMany"
      [] OTHER -> "ok"

register(c) ==
    CASE closed -> "closed"
      [] Cardinality(all) >= maxListenStreamsPerServer -> "tooMany"
      [] byOrg[Owner[c].org] >= maxListenStreamsPerOrg -> "tooMany"
      [] byKey[Owner[c].key] >= maxListenStreamsPerKey -> "tooMany"
      [] OTHER -> "ok"

Unregistered(c) ==
    /\ all' = all \ {c}
    /\ byKey' = [byKey EXCEPT ![Owner[c].key] = @ - 1]
    /\ byOrg' = [byOrg EXCEPT ![Owner[c].org] = @ - 1]

Refuse(c, status) ==
    /\ at' = [at EXCEPT ![c] = "answered"]
    /\ answer' = [answer EXCEPT ![c] = status]
    /\ UNCHANGED <<all, byKey, byOrg, closed, honored, events, live, fan,
                   changes, owed, drain>>

(* handleSubscriptionsListen honours a filter only for what it can send. *)
honoredFilter(r) == Enabled /\ r.filter = "tools"

(* handleMCPRequest: a request whose key was authenticated. *)
handleMCPRequest(c, r) ==
    /\ at[c] = "idle" /\ Owner[c].key \in live
    /\ \/ Handle(r) # 0 /\ Refuse(c, Handle(r))
       \/ Handle(r) = 0 /\ register(c) # "ok"
          /\ Refuse(c, statusHintFor(register(c), "modern"))
       \/ /\ Handle(r) = 0 /\ register(c) = "ok"
          /\ at' = [at EXCEPT ![c] = "opening"]
          /\ all' = all \cup {c}
          /\ byKey' = [byKey EXCEPT ![Owner[c].key] = @ + 1]
          /\ byOrg' = [byOrg EXCEPT ![Owner[c].org] = @ + 1]
          /\ honored' = IF honoredFilter(r) THEN honored \cup {c}
                        ELSE honored
          /\ UNCHANGED <<answer, closed, events, live, fan, changes, owed, drain>>

(***************************************************************************)
(* handleMCPListenStream. Unregister is deferred: every way out frees the  *)
(* slot. The acknowledgement is the first write.                           *)
(***************************************************************************)
End(c) ==
    /\ at' = [at EXCEPT ![c] = "ended"]
    /\ Unregistered(c)
    /\ UNCHANGED <<answer, closed, honored, events, live, fan, changes, owed, drain>>

Unavailable(c) ==
    /\ at[c] = "opening" /\ ~available
    /\ at' = [at EXCEPT ![c] = "answered"]
    /\ answer' = [answer EXCEPT ![c] = 503]
    /\ Unregistered(c)
    /\ UNCHANGED <<closed, honored, events, live, fan, changes, owed, drain>>

Open(c) ==
    /\ at[c] = "opening" /\ available
    /\ at' = [at EXCEPT ![c] = "select"]
    /\ UNCHANGED <<answer, all, byKey, byOrg, closed, honored, events, live,
                   fan, changes, owed, drain>>

(* A write that fails, or misses its deadline, ends the stream. *)
WriteFails(c) == at[c] \in {"opening", "writing", "select"} /\ available /\ End(c)

TakeEvent(c) ==
    /\ at[c] = "select" /\ events[c]
    /\ at' = [at EXCEPT ![c] = "writing"]
    /\ events' = [events EXCEPT ![c] = FALSE]
    /\ owed' = owed \ {c}
    /\ UNCHANGED <<answer, all, byKey, byOrg, closed, honored, live, fan,
                   changes, drain>>

WriteEvent(c) ==
    /\ at[c] = "writing"
    /\ at' = [at EXCEPT ![c] = "select"]
    /\ UNCHANGED <<answer, all, byKey, byOrg, closed, honored, events, live,
                   fan, changes, owed, drain>>

(* The revalidate tick finds the key gone; the two ways a stream is over.  *)
(* Each writes the completion message, best effort, and returns.           *)
Revalidate(c) == at[c] = "select" /\ ~keyRevalidator(c) /\ End(c)
MaxDuration(c) == at[c] = "select" /\ End(c)
Done(c) == at[c] = "select" /\ closed /\ End(c)

Stream(c) == /\ Open(c) \/ Unavailable(c) \/ TakeEvent(c) \/ WriteEvent(c)
                \/ Revalidate(c) \/ Done(c)
             /\ UNCHANGED available

(***************************************************************************)
(* notify: a snapshot of the subscribers under the lock, then each checked *)
(* and told outside it. A full channel already holds a notification.       *)
(***************************************************************************)
notify(scope) ==
    /\ ~fan.on /\ changes < MaxChanges /\ changes' = changes + 1
    /\ fan' = [on |-> TRUE, scope |-> scope, left |-> all]
    /\ owed' = owed \cup {c \in all \cap honored : matches(scope, c)}
    /\ UNCHANGED <<at, answer, all, byKey, byOrg, closed, honored, events,
                   live, drain>>

deliverIfListening(c) ==
    events' = [events EXCEPT ![c] = @ \/ at[c] = "select"]

(* deliver: a send that never blocks. *)
deliver(c) == events' = [events EXCEPT ![c] = TRUE]

Tell(c) ==
    /\ fan.on /\ c \in fan.left
    /\ fan' = [fan EXCEPT !.left = @ \ {c}]
    /\ \/ /\ c \in honored /\ matches(fan.scope, c) /\ keyRevalidator(c)
          /\ deliver(c)
       \/ /\ ~(c \in honored /\ matches(fan.scope, c) /\ keyRevalidator(c))
          /\ UNCHANGED events
    /\ UNCHANGED <<at, answer, all, byKey, byOrg, closed, honored, live,
                   changes, owed, drain>>

Told == /\ fan.on /\ fan.left = {} /\ fan' = Idle
        /\ UNCHANGED <<at, answer, all, byKey, byOrg, closed, honored, events,
                       live, changes, owed, drain>>

(* The key cache drops a key that was revoked, has expired or changed. *)
Revoke(k) == /\ k \in live /\ live' = live \ {k}
             /\ UNCHANGED <<at, answer, all, byKey, byOrg, closed, honored,
                            events, fan, changes, owed, drain>>

(***************************************************************************)
(* Shutdown: CloseSubscriptions, then a bounded wait for the streams.      *)
(***************************************************************************)
CloseSubscriptions ==
    /\ ~closed /\ closed' = TRUE
    /\ UNCHANGED <<at, answer, all, byKey, byOrg, honored, events, live, fan,
                   changes, owed, drain>>

wait ==
    /\ closed /\ drain = "no"
    /\ \/ all = {} /\ drain' = "drained"
       \/ drain' = "timeout"
    /\ UNCHANGED <<at, answer, all, byKey, byOrg, closed, honored, events,
                   live, fan, changes, owed>>

Client(c) == (\E r \in Posts : handleMCPRequest(c, r)) \/ WriteFails(c) \/ MaxDuration(c)

FanOut == (Told \/ \E c \in Clients : Tell(c)) /\ UNCHANGED available

Next == \/ \E c \in Clients : Stream(c)
        \/ FanOut
        \/ /\ UNCHANGED available
           /\ \/ \E c \in Clients : Client(c)
              \/ \E s \in Scopes : notify(s)
              \/ CloseSubscriptions \/ wait
              \/ \E k \in Keys : Revoke(k)

Spec == Init /\ [][Next]_vars

-----------------------------------------------------------------------------
Ended(c) == at[c] \in {"ended", "answered"}

(***************************************************************************)
(* No change is lost to the one-slot channel: a subscriber a change was    *)
(* for has a notification waiting, is still to be told by the fan-out, has *)
(* ended, or its key is no longer valid (subscriptions.go:306-318,         *)
(* 493-523).                                                               *)
(***************************************************************************)
NoLostChange ==
    \A c \in owed : events[c] \/ c \in fan.left \/ Ended(c) \/ ~keyRevalidator(c)

(***************************************************************************)
(* Slots and streams come and go together: the registry holds exactly the  *)
(* streams that are open, its two counters say so, and once the drain at   *)
(* shutdown has succeeded there is none and will be none                   *)
(* (subscriptions.go:395-491, mcp_handler.go:237-308).                     *)
(***************************************************************************)
SlotsAreStreams ==
    /\ all = {c \in Clients : at[c] \in {"opening", "select", "writing"}}
    /\ \A k \in Keys : byKey[k] = Cardinality({c \in all : Owner[c].key = k})
    /\ \A o \in Organisations : byOrg[o] = Cardinality({c \in all : Owner[c].org = o})
    /\ drain = "drained" => all = {}
=============================================================================
