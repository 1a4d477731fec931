------------------------------- MODULE MCMcp --------------------------------
(*****************************************************************************)
(* Small instances of the parts of the MCP gateway: the endpoint with its    *)
(* subscriptions, the transport to an upstream server, the catalogue of      *)
(* servers with its admin API, and the proxy with its usage logger.          *)
(*                                                                           *)
(* They are checked in one state graph: McpInit picks a part, every          *)
(* behaviour is one of that part alone, and the others stay in their initial *)
(* states.                                                                   *)
(*****************************************************************************)
EXTENDS McpEndpoint, McpTransport, McpServers, McpProxy, McpFixtures, TLC

CONSTANTS h1, h2  \* handlers of the admin API, model values

VARIABLE part  \* the component this behaviour is of

\* Two connections of one key and one of another key of the organisation; only
\* the first key may see the server.
Connections ==
    LET first == [key |-> "k1", team |-> "t1", org |-> "o1"]
    IN [c1 |-> first, c2 |-> first, c3 |-> [key |-> "k2", team |-> "", org |-> "o1"]]
Subscribe ==
    [header |-> "modern", body |-> "modern", parses |-> TRUE, rpc2 |-> TRUE, id |-> TRUE,
     method |-> "subscriptions/listen", methodHeader |-> "agrees", targetHeader |-> "agrees",
     meta |-> "ok", params |-> "ok", filter |-> "tools"]
Subscriptions == {Subscribe, [Subscribe EXCEPT !.filter = "other"]}
ChangeScopes == {[kind |-> "server", of |-> "s1"], [kind |-> "org", of |-> "o1"]}
SeenServers == [s1 |-> {Connections.c1}]

\* What may be called: a server of the organisation, and a global one whose
\* credentials cannot be read and of which only one key has a grant; by the
\* proxy and as a tool.
CalledServer(id, alias, org) ==
    [id |-> id, alias |-> alias, org |-> org, team |-> "", active |-> TRUE, deleted |-> FALSE,
     source |-> "api", codeMode |-> TRUE, auth |-> "x-key"]
CalledServers == {CalledServer("s1", "a", "o1"), CalledServer("s2", "g", "")}
Header(n) == [lower |-> n, value |-> "good", valid |-> TRUE]
ProxyCall(kind, alias, k, sid, body, params, sse) ==
    [kind |-> kind, alias |-> alias, ki |-> Identity("o1", "", "member", k), sid |-> sid,
     body |-> body, params |-> params, onlySSE |-> sse]
CallKinds ==
    <<ProxyCall("proxy", "a", "k1", "", "ok", <<Header("p"), Header("q")>>, FALSE),
      ProxyCall("proxy", "a", "k1", "z", "ok", <<Header("x-key")>>, TRUE),
      ProxyCall("proxy", "a", "k2", "z", "ok", <<Header("p"), Header("p")>>, FALSE),
      ProxyCall("proxy", "g", "k1", "", "ok", <<>>, FALSE),
      ProxyCall("proxy", "g", "k2", "", "ok", <<>>, FALSE),
      ProxyCall("proxy", "voidllm", "k2", "", "ok", <<>>, FALSE),
      ProxyCall("tool", "a", "k1", "", "ok", <<>>, FALSE)>>
Kind(req) == CHOOSE i \in DOMAIN CallKinds : CallKinds[i] = req
CallRequests == {CallKinds[i] : i \in DOMAIN CallKinds}
ProxyGrants == {<<"k1", "s2">>}
Answer(status, sid, json, size, breaks) ==
    [status |-> status, sid |-> sid, json |-> json, size |-> size, breaks |-> breaks]
UpstreamAnswers ==
    {Answer(202, "", TRUE, 0, FALSE), Answer(300, "z", TRUE, 1, FALSE), Answer(200, "z", TRUE, 1, FALSE),
     Answer(200, "toolong", FALSE, 1, TRUE), Answer(200, "", TRUE, 2, FALSE)}

Symmetry == Permutations({h1, h2})

\* The connections, the calls and the catalogue are of the kind the theorems
\* are about.
ASSUME McpParameters == EndpointParameters /\ TransportParameters /\ ServerParameters

mcpVars == <<part, vars, transportVars, serverVars, proxyVars>>

McpInit ==
    /\ part \in {"endpoint", "transport", "binding", "servers", "proxy"}
    /\ Init /\ TransportInit /\ ServersInit /\ ProxyInit
    /\ part # "endpoint" => available
    /\ part # "servers" => table = NoServers
    /\ part # "proxy" => cached = {}

\* The endpoint's first two connections are alike: c1 comes first. So are the
\* proxy's calls: c1 is of the kind that comes first. The transport has two
\* calls of two scopes and three sessions, or three calls of one scope and two
\* sessions.
McpNext ==
    \/ /\ part = "endpoint" /\ Next
       /\ at'["c2"] = "idle" \/ at'["c1"] # "idle"
       /\ UNCHANGED <<part, transportVars, serverVars, proxyVars>>
    \/ /\ part = "transport" /\ TransportNext /\ call'["c3"] = NoCall
       /\ UNCHANGED <<part, vars, serverVars, proxyVars>>
    \/ /\ part = "binding" /\ TransportNext
       /\ \A c \in Calls : call'[c].scope # "o2"
       /\ Len(owner') <= 2
       /\ UNCHANGED <<part, vars, serverVars, proxyVars>>
    \/ /\ part = "servers" /\ ServersNext
       /\ UNCHANGED <<part, vars, transportVars, proxyVars>>
    \/ /\ part = "proxy" /\ ProxyNext
       /\ (\A c \in ProxyCalls : relay'[c].at # "idle")
            => Kind(relay'["c1"].req) <= Kind(relay'["c2"].req)
       /\ UNCHANGED <<part, vars, transportVars, serverVars>>

McpSpec == McpInit /\ [][McpNext]_mcpVars
=============================================================================
