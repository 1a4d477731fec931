------------------------------- MODULE MCEdge -------------------------------
(*****************************************************************************)
(* Small instances of what stands between a client and an upstream: sign-in, *)
(* the login throttle, the request rate limiter, the router, the cache of    *)
(* the tools an MCP server offers, and the restoring of pseudonyms in a      *)
(* stream.                                                                   *)
(*                                                                           *)
(* They are checked in one state graph: EdgeInit picks a component, every    *)
(* behaviour is one of that component alone, and the others stay in their    *)
(* initial states. The variables of the router and of the restorer are v1,   *)
(* v2, and so on; those the component at hand does not need are "-".         *)
(*****************************************************************************)
EXTENDS ToolCache, SignIn, LoginThrottle, RateLimiter, TLC

VARIABLES
    part,  \* the component this behaviour is of
    v1, v2, v3, v4, v5, v6, v7, v8

\* Three deployments, two of which share a priority.
Priorities == ("d1" :> 2) @@ ("d2" :> 1) @@ ("d3" :> 2)

\* A user's key and a service-account key of one organisation, which has a
\* daily limit for both.
LimitedScopes == { [key |-> "k1", user |-> "u1", team |-> "", org |-> "o"],
                    [key |-> "k2", user |-> "", team |-> "", org |-> "o"] }
Limits ==
    (<<"key", "k1", "minute">> :> 1) @@ (<<"user", "u1", "minute", "o">> :> 0)
        @@ (<<"org", "o", "day">> :> 2)

\* Pseudonyms are the marker P_ and two letters, and one of them is known. The
\* fragments cut pseudonyms everywhere; lines carry them in the content and in
\* the arguments of tool calls, alone and together with other entries.
Marker == <<"P", "_">>
KnownPseudonyms == <<"P", "_", "a", "a">> :> <<"V">>
Fragments == {<<"P">>, <<"_">>, <<"a">>, <<"b">>, <<"P", "_">>, <<"a", "a">>,
              <<"_", "a">>, <<"b", "P">>}
ChunkEntry(i, field, t, els, fin) ==
    [choice |-> i, field |-> field, text |-> t, elements |-> els, finish |-> fin]
Element(k, h, t) == [index |-> k, header |-> h, hasArgs |-> t # <<>>, args |-> t]
Line(es) == [kind |-> "entries", entries |-> es]
StreamLines ==
    {[kind |-> k] : k \in {"blank", "done", "broken", "usage"}}
    \cup {Line(<<ChunkEntry(1, "chat", t, <<>>, "")>>) : t \in Fragments}
    \cup {Line(<<ChunkEntry(1, "tools", <<>>, <<Element("t1", "complete", t)>>, "")>>) : t \in Fragments}
    \cup {Line(<<ChunkEntry(1, "tools", <<>>, <<Element("t1", "none", t),
                                           Element("t2", "complete", <<"b">>)>>, "")>>)
            : t \in {<<"a", "a">>, <<"P">>}}
    \cup {Line(<<ChunkEntry(1, "none", <<>>, <<>>, "tool_calls")>>),
          Line(<<ChunkEntry(1, "none", <<>>, <<>>, "stop")>>),
          Line(<<ChunkEntry(1, "refusal", <<"b">>, <<>>, "stop")>>),
          Line(<<ChunkEntry(1, "tools", <<>>, <<Element("t2", "other", <<>>)>>, "")>>),
          Line(<<ChunkEntry(1, "chat", <<"a", "a">>, <<>>, ""), ChunkEntry(2, "chat", <<"P">>, <<>>, "")>>),
          Line(<<ChunkEntry(1, "chat", <<"a">>, <<>>, ""), ChunkEntry(1, "chat", <<"P">>, <<>>, "")>>),
          Line(<<ChunkEntry(2, "chat", <<"_", "a", "a">>, <<>>, "length")>>),
          Line(<<ChunkEntry(1, "two fields", <<>>, <<>>, "")>>)}

Route == INSTANCE Routing WITH
    Deployments <- <<"d1", "d2", "d3">>, Latencies <- {0, 1, 2},
    MaxRetriesSet <- {1}, CounterModulus <- 6, model <- v1, permitted <- v2,
    unhealthy <- v3, cooling <- v4, latency <- v5, counter <- v6, picked <- v7,
    firsts <- v8

Pii == INSTANCE PiiStream WITH
    Indexes <- {1, 2}, Tools <- {"t1", "t2"}, pseudonymMarker <- Marker,
    pseudonymLen <- 4, TailLetters <- {"a", "b"}, rev <- KnownPseudonyms,
    Lines <- StreamLines, MaxText <- 5, choices <- v1, inEvent <- v2,
    terminal <- v3, aborted <- v4, received <- v5, emitted <- v6, residue <- v7

\* The instances are of the kind the theorems are about.
ASSUME EdgeParameters == SignInParameters /\ RateParameters /\ ThrottleParameters

routeVars == <<v1, v2, v3, v4, v5, v6, v7, v8>>
Off ==
    /\ v1 = "-" /\ v2 = "-" /\ v3 = "-" /\ v4 = "-"
    /\ v5 = "-" /\ v6 = "-" /\ v7 = "-" /\ v8 = "-"

edgeVars == <<part, vars, signInVars, throttleVars, rateVars, routeVars>>

EdgeInit ==
    /\ Init /\ SignInInit /\ ThrottleInit /\ RateInit
    /\ \/ part = "tools" /\ Off
       \/ part \in {"signin", "throttle", "limiter"} /\ Off /\ store = None
       \/ part = "routing" /\ Route!Init /\ store = None
       \/ part = "restore" /\ Pii!Init /\ v8 = "-" /\ store = None

\* Only one strategy of the router reads the latencies (v5).
EdgeNext ==
    \/ part = "tools" /\ Next /\ UNCHANGED <<part, signInVars, throttleVars, rateVars, routeVars>>
    \/ part = "signin" /\ SignInNext /\ UNCHANGED <<part, vars, throttleVars, rateVars, routeVars>>
    \/ part = "throttle" /\ ThrottleNext /\ UNCHANGED <<part, vars, signInVars, rateVars, routeVars>>
    \/ part = "limiter" /\ RateNext /\ UNCHANGED <<part, vars, signInVars, throttleVars, routeVars>>
    \/ /\ part = "routing" /\ Route!Next /\ (v1.strategy = "least-latency" \/ UNCHANGED v5)
       /\ UNCHANGED <<part, vars, signInVars, throttleVars, rateVars>>
    \/ part = "restore" /\ Pii!Next /\ UNCHANGED <<part, v8, vars, signInVars, throttleVars, rateVars>>

EdgeSpec == EdgeInit /\ [][EdgeNext]_edgeVars

-----------------------------------------------------------------------------
\* The candidates of a request are sound, cooling ones come last, and the
\* strategy's preference holds among the others.
PicksAreSound ==
    part = "routing" => /\ Route!PickIsSound /\ Route!CoolingComesLast
                        /\ Route!PreferenceKept /\ Route!RoundRobinIsEven

\* Wherever the chunks of a stream are cut, the client is sent the original text
\* and never a pseudonym.
RestoredWhole == part = "restore" => Pii!RestoredWhole /\ Pii!NoPseudonymOut
=============================================================================
