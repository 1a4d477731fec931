------------------------------- MODULE McpProxy -------------------------------
(***************************************************************************)
(* A call to an external MCP server and its record: HandleMCPProxy and     *)
(* CallMCPTool (admin/mcp_proxy.go) with the usage logger behind them      *)
(* (usage/mcp_logger.go, db/mcp_tool_calls.go).                            *)
(*                                                                         *)
(* A proxied answer is copied to the client by a stream writer that runs   *)
(* after the handler has returned. The transport of a call is the cached   *)
(* one or one built for this call, to be closed by whoever is last to need *)
(* it. Which server an alias names and who may call it is McpCatalog's     *)
(* matter. The registry of sessions forgets by SessionRegistry's rules:    *)
(* here it may forget at any time.                                         *)
(*                                                                         *)
(* fasthttp and net/http are external: an answer is a status, a session    *)
(* id, a content type and a number of pieces of body, after which the      *)
(* connection may break.                                                   *)
(***************************************************************************)
EXTENDS McpCatalog, Sequences

CONSTANTS
    ProxyCalls,         \* calls, each made once
    Requests,           \* what may be called, with kind "proxy" or "tool"
    ServerRows, ServerGrants, \* the MCP servers, and who may use the global ones
    Broken,             \* server ids whose credentials cannot be decrypted
    Answers,            \* what an upstream server may answer
    MCPStreamMaxBytes,  \* 0: no limit
    legacySSEWrapReadCap,
    MaxParamHeaders,
    BufferSize, BatchSize   \* the logger's, 1000 and 100 in the code

VARIABLES
    cached,     \* MCPTransportCache: ids of servers with a transport
    registry,   \* SessionRegistry: <<server id, scope, session id>>
    relay,      \* per call: where it is and what it holds
    logger,     \* MCPLogger: queue, batch, state
    stored,     \* rows of mcp_tool_calls
    dropped,    \* events refused by a full queue or lost with a failed insert
    issued,     \* history: sessions whose id was sent to a caller
    sent        \* history: sessions a caller's id was forwarded for

proxyVars == <<cached, registry, relay, logger, stored, dropped, issued, sent>>

NoAnswer == [status |-> 0, sid |-> Null, json |-> FALSE, size |-> 0, breaks |-> FALSE]

NotMade == [at |-> "idle", req |-> Null, id |-> Null, transport |-> "none", body |-> "none",
            answer |-> NoAnswer, got |-> 0, reply |-> Null]

CalledIds == {sv.id : sv \in ServerRows}

ProxyInit ==
    /\ cached \in SUBSET CalledIds
    /\ registry = {} /\ issued = {} /\ sent = {}
    /\ relay = [c \in ProxyCalls |-> NotMade]
    /\ logger = [queue |-> <<>>, batch |-> <<>>, state |-> "running"]
    /\ stored = <<>> /\ dropped = <<>>

-----------------------------------------------------------------------------
(* MCPLogger. Log never blocks. *)
LogTo(lg, event) == IF Len(lg.queue) < BufferSize THEN [lg EXCEPT !.queue = Append(@, event)] ELSE lg

Log(event) ==
    /\ logger' = LogTo(logger, event)
    /\ dropped' = IF Len(logger.queue) < BufferSize THEN dropped ELSE Append(dropped, event)

recordMCPForwardOutcome(c, status) == Log([call |-> c, status |-> status])

(* One insert of several rows: all are stored or none. *)
InsertMCPToolCalls(batch) ==
    \/ stored' = stored \o batch /\ UNCHANGED dropped
    \/ dropped' = dropped \o batch /\ UNCHANGED stored

LoggerTake ==
    /\ logger.state \in {"running", "closing"} /\ logger.queue # <<>>
    /\ LET batch == Append(logger.batch, Head(logger.queue)) IN
       IF Len(batch) >= BatchSize
       THEN /\ logger' = [logger EXCEPT !.queue = Tail(@), !.batch = <<>>]
            /\ InsertMCPToolCalls(batch)
       ELSE /\ logger' = [logger EXCEPT !.queue = Tail(@), !.batch = batch]
            /\ UNCHANGED <<stored, dropped>>
    /\ UNCHANGED <<cached, registry, relay, issued, sent>>

LoggerTick ==
    /\ logger.state \in {"running", "closing"} /\ logger.batch # <<>>
    /\ logger' = [logger EXCEPT !.batch = <<>>]
    /\ InsertMCPToolCalls(logger.batch)
    /\ UNCHANGED <<cached, registry, relay, issued, sent>>

(* cleanup calls Stop once the server has closed every connection, the     *)
(* streamed ones included.                                                 *)
LoggerStop ==
    /\ logger.state = "running"
    /\ \A c \in ProxyCalls : relay[c].at \in {"idle", "done"}
    /\ logger' = [logger EXCEPT !.state = "closing"]
    /\ UNCHANGED <<cached, registry, relay, stored, dropped, issued, sent>>

LoggerDone ==
    /\ logger.state = "closing" /\ logger.queue = <<>>
    /\ logger' = [logger EXCEPT !.state = "stopped", !.batch = <<>>]
    /\ IF logger.batch = <<>> THEN UNCHANGED <<stored, dropped>> ELSE InsertMCPToolCalls(logger.batch)
    /\ UNCHANGED <<cached, registry, relay, issued, sent>>

-----------------------------------------------------------------------------
(* The headers a caller's request takes with it. params is a sequence of   *)
(* headers, by lower-cased name; a value is good, bad or long.             *)
collectMCPParamHeaders(params, authHeader) ==
    LET named == {i \in DOMAIN params : params[i].valid}
        candidates == {i \in named : params[i].value = "good" /\ params[i].lower # authHeader}
        deduped == {i \in candidates : \A j \in candidates : params[j].lower = params[i].lower => i = j}
    IN IF (\E i \in named : params[i].value = "long") \/ Cardinality(deduped) > MaxParamHeaders
       THEN [ok |-> FALSE, names |-> {}]
       ELSE [ok |-> TRUE, names |-> {params[i].lower : i \in deduped}]

(* The slip: a scope by organisation alone. *)
ScopeByOrg(ki) == <<ki.org, Null>>
NewClientSessionScope(ki) == <<ki.org, ki.key>>

KnownSession(id, ki, sid) == <<id, NewClientSessionScope(ki), sid>> \in registry

(* The slip: the scrutiny skipped for a transport built for this call. *)
SessionToForwardUnlessAdHoc(req, id) ==
    IF req.sid # Null /\ (id \notin cached \/ KnownSession(id, req.ki, req.sid)) THEN {req.sid} ELSE {}
SessionToForward(req, id) ==
    IF req.sid # Null /\ KnownSession(id, req.ki, req.sid) THEN {req.sid} ELSE {}

-----------------------------------------------------------------------------
(* Up to the request that goes upstream: who is called, with which         *)
(* transport, and every reason to answer at once.                          *)
Resolved(req) == ResolveForCall(LoadAllActiveMCPServers(ServerRows), ServerRows, req.alias, req.ki)

Refused(req) ==
    \/ Resolved(req) = {}
    \/ \E sv \in Resolved(req) : ~AllowedToCall(sv, req.ki, ServerGrants)

buildAdHocTransport(id) == IF id \in Broken THEN "none" ELSE "open"
TransportFor(id) == IF id \in cached THEN "shared" ELSE buildAdHocTransport(id)

BadRequest(req, sv) ==
    /\ req.kind = "proxy"
    /\ \/ req.body = "empty"
       \/ req.body = "mismatch"     \* validateMCPHeaders
       \/ ~collectMCPParamHeaders(req.params, sv.auth).ok

(* The deferred close of a transport built for the call. *)
CloseAdHoc(t) == IF t = "open" THEN "closed" ELSE t

Answered(c, req, t, reply) ==
    relay' = [relay EXCEPT ![c] = [NotMade EXCEPT !.at = "done", !.req = req, !.transport = t, !.reply = reply]]

(* The built-in server is another handler, or another method call. *)
BeginCall(c) ==
    \E req \in Requests :
        /\ relay[c].at = "idle" /\ logger.state = "running"
        /\ \/ /\ req.alias = "voidllm"
              /\ Answered(c, req, "none", "builtin")
              /\ UNCHANGED sent
           \/ /\ req.alias # "voidllm" /\ Refused(req)
              /\ Answered(c, req, "none", "refused")
              /\ UNCHANGED sent
           \/ /\ req.alias # "voidllm" /\ ~Refused(req)
              /\ \E sv \in Resolved(req) :
                   LET t == TransportFor(sv.id)
                       sid == IF req.kind = "proxy" THEN SessionToForward(req, sv.id) ELSE {}
                   IN IF t = "none" \/ BadRequest(req, sv)
                      THEN Answered(c, req, CloseAdHoc(t), "refused") /\ UNCHANGED sent
                      ELSE /\ relay' = [relay EXCEPT ![c] = [NotMade EXCEPT !.at = "forward", !.req = req,
                                                                   !.id = sv.id, !.transport = t]]
                           /\ sent' = sent \cup {<<sv.id, <<req.ki.org, req.ki.key>>, s>> : s \in sid}
        /\ UNCHANGED <<cached, registry, logger, stored, dropped, issued>>

-----------------------------------------------------------------------------
(* The handler goes on when Forward or Call returns. *)
EndCall(c, reply) ==
    relay' = [relay EXCEPT ![c].at = "done", ![c].reply = reply,
                         ![c].transport = CloseAdHoc(@), ![c].body = IF @ = "open" THEN "closed" ELSE @]

ForwardFails(c) ==
    /\ relay[c].at = "forward"
    /\ EndCall(c, "bad_gateway")
    /\ recordMCPForwardOutcome(c, "transport_error")
    /\ UNCHANGED <<cached, registry, stored, issued, sent>>

(* CallMCPTool: the whole answer is in hand. *)
ToolReturns(c) ==
    /\ relay[c].at = "forward" /\ relay[c].req.kind = "tool"
    /\ EndCall(c, "whole")
    /\ recordMCPForwardOutcome(c, "success")
    /\ UNCHANGED <<cached, registry, stored, issued, sent>>

(* An id longer than MaxSessionIDLength is taken off the answer. *)
Usable(sid) == sid \notin {Null, "toolong"}

(* mirrorMCPResponseHeaders: the caller is told the session it was given,  *)
(* and the registry remembers.                                             *)
mirrorMCPResponseHeaders(c, ans) ==
    LET id == relay[c].id
        ki == relay[c].req.ki
    IN IF Usable(ans.sid)
       THEN /\ registry' = registry \cup {<<id, NewClientSessionScope(ki), ans.sid>>}
            /\ issued' = issued \cup {<<id, <<ki.org, ki.key>>, ans.sid>>}
       ELSE UNCHANGED <<registry, issued>>

NoBody(c) ==
    \E ans \in Answers :
        /\ relay[c].at = "forward" /\ relay[c].req.kind = "proxy"
        /\ ans.status \in {202, 300}
        /\ EndCall(c, IF ans.status = 202 THEN "whole" ELSE "bad_gateway")
        /\ recordMCPForwardOutcome(c, IF ans.status = 202 THEN "success" ELSE "transport_error")
        /\ UNCHANGED <<cached, registry, stored, issued, sent>>

acceptsOnlySSE(req, ans) == req.onlySSE /\ ans.json

WrapCap ==
    IF MCPStreamMaxBytes > 0 /\ MCPStreamMaxBytes < legacySSEWrapReadCap THEN MCPStreamMaxBytes
    ELSE legacySSEWrapReadCap

(* The body is read in full before anything is sent. *)
sendLegacySSEWrapped(c) ==
    \E ans \in Answers :
        /\ relay[c].at = "forward" /\ relay[c].req.kind = "proxy"
        /\ ans.status \notin {202, 300} /\ acceptsOnlySSE(relay[c].req, ans)
        /\ IF ans.breaks \/ ans.size > WrapCap
           THEN /\ EndCall(c, "bad_gateway")
                /\ recordMCPForwardOutcome(c, "transport_error")
                /\ UNCHANGED <<registry, issued>>
           ELSE /\ mirrorMCPResponseHeaders(c, ans)
                /\ EndCall(c, "whole")
                /\ recordMCPForwardOutcome(c, "success")
        /\ UNCHANGED <<cached, stored, sent>>

(* The slip: the handler's deferred close is not told of the stream. *)
ReturnClosing(c, ans) ==
    relay' = [relay EXCEPT ![c].at = "stream", ![c].answer = ans, ![c].body = "open",
                         ![c].transport = CloseAdHoc(@)]
ReturnStreaming(c, ans) ==
    relay' = [relay EXCEPT ![c].at = "stream", ![c].answer = ans, ![c].body = "open"]

(* The writer is registered and the handler returns. *)
PassThrough(c) ==
    \E ans \in Answers :
        /\ relay[c].at = "forward" /\ relay[c].req.kind = "proxy"
        /\ ans.status \notin {202, 300} /\ ~acceptsOnlySSE(relay[c].req, ans)
        /\ mirrorMCPResponseHeaders(c, ans)
        /\ ReturnStreaming(c, ans)
        /\ UNCHANGED <<cached, logger, stored, dropped, sent>>

-----------------------------------------------------------------------------
(* The writer: one piece at a time. *)
OverLimit(c) == MCPStreamMaxBytes > 0 /\ relay[c].got + 1 > MCPStreamMaxBytes

flushingWriterWrite(c) ==
    /\ relay[c].at = "stream" /\ relay[c].got < relay[c].answer.size
    /\ ~OverLimit(c)
    /\ relay' = [relay EXCEPT ![c].got = @ + 1]
    /\ UNCHANGED <<cached, registry, logger, stored, dropped, issued, sent>>

(* The slip: the error branch that does not return. *)
CopyFailsLoggedTwice(c) ==
    /\ relay[c].at = "stream"
    /\ \/ relay[c].got < relay[c].answer.size
       \/ relay[c].answer.breaks
    /\ EndCall(c, "cut")
    /\ logger' = LogTo(LogTo(logger, [call |-> c, status |-> "transport_error"]),
                       [call |-> c, status |-> "success"])
    /\ UNCHANGED <<cached, registry, stored, dropped, issued, sent>>

(* Too many bytes, a broken upstream, or a client that is gone. *)
CopyFails(c) ==
    /\ relay[c].at = "stream"
    /\ \/ relay[c].got < relay[c].answer.size
       \/ relay[c].answer.breaks
    /\ EndCall(c, "cut")
    /\ recordMCPForwardOutcome(c, "transport_error")
    /\ UNCHANGED <<cached, registry, stored, issued, sent>>

CopyEnds(c) ==
    /\ relay[c].at = "stream"
    /\ relay[c].got = relay[c].answer.size /\ ~relay[c].answer.breaks
    /\ EndCall(c, "whole")
    /\ recordMCPForwardOutcome(c, "success")
    /\ UNCHANGED <<cached, registry, stored, issued, sent>>

-----------------------------------------------------------------------------
(* A refresh of the transport cache, and an eviction from the registry. *)
ReloadTransports ==
    /\ cached' \in SUBSET CalledIds
    /\ UNCHANGED <<registry, relay, logger, stored, dropped, issued, sent>>

Evict ==
    /\ \E s \in registry : registry' = registry \ {s}
    /\ UNCHANGED <<cached, relay, logger, stored, dropped, issued, sent>>

ProxyNext ==
    \/ LoggerTake \/ LoggerTick \/ LoggerStop \/ LoggerDone \/ ReloadTransports \/ Evict
    \/ \E c \in ProxyCalls :
        \/ BeginCall(c) \/ ForwardFails(c) \/ ToolReturns(c) \/ NoBody(c)
        \/ sendLegacySSEWrapped(c) \/ PassThrough(c)
        \/ flushingWriterWrite(c) \/ CopyFails(c) \/ CopyEnds(c)

ProxySpec == ProxyInit /\ [][ProxyNext]_proxyVars

-----------------------------------------------------------------------------
(* What went on the record, wherever it is by now: in the queue, in the    *)
(* batch, in the table or lost.                                            *)
Logs == <<logger.queue, logger.batch, stored, dropped>>
CallsIn(log) == {log[i].call : i \in DOMAIN log}
OncePerCall(log) == \A i, j \in DOMAIN log : log[i].call = log[j].call => i = j

Reached == {c \in ProxyCalls : relay[c].at = "done" /\ relay[c].reply \in {"whole", "bad_gateway", "cut"}}
Outcome(c) == IF relay[c].reply = "whole" THEN "success" ELSE "transport_error"

\* A call that reached its server is recorded exactly once when it has ended, as
\* a success when the caller was given the whole answer and only then; a call
\* that was refused, and one still running, is not on the record. Nothing is
\* left in the logger when it has stopped (mcp_proxy.go, mcp_logger.go).
OnTheRecord ==
    /\ UNION {CallsIn(Logs[k]) : k \in DOMAIN Logs} = Reached
    /\ \A k \in DOMAIN Logs :
        /\ OncePerCall(Logs[k])
        /\ \A l \in DOMAIN Logs \ {k} : CallsIn(Logs[k]) \cap CallsIn(Logs[l]) = {}
        /\ \A i \in DOMAIN Logs[k] : Logs[k][i].status = Outcome(Logs[k][i].call)
    /\ logger.state = "stopped" => logger.queue = <<>> /\ logger.batch = <<>>

\* A transport built for one call, and the body read through it, stay open as
\* long as the stream writer needs them, although the handler has returned, and
\* are closed once the call has ended, however it ended
\* (HandleMCPProxy's transportClosedAsync).
ClosedWhenDone ==
    \A c \in ProxyCalls :
        /\ relay[c].at \in {"forward", "stream"} => relay[c].transport # "closed"
        /\ relay[c].at = "done" => relay[c].transport # "open" /\ relay[c].body # "open"

\* A call is on the record once, as what it was, and leaves nothing open, although
\* its stream outlives its handler and the logger's queue may be full.
Accounted == OnTheRecord /\ ClosedWhenDone

\* A session id that a caller sends is passed on only when that server gave it
\* to the same key of the same organisation, whatever transport serves the call
\* (HandleMCPProxy's check against the session registry).
OwnSessions == sent \subseteq issued
=============================================================================
