----------------------------- MODULE McpTransport -----------------------------
(***************************************************************************)
(* HTTPTransport (mcp/http_transport.go, probe.go): the calls that share   *)
(* one transport to an upstream MCP server. The first call finds out which *)
(* era of the protocol the server speaks and publishes a binding. A legacy *)
(* binding keeps one session per scope (an organisation); a call whose     *)
(* session the server no longer knows opens a new one and tries once more. *)
(*                                                                         *)
(* The server is external: it forgets sessions when it likes, may be       *)
(* upgraded from the legacy era to the modern one, and any exchange with   *)
(* it may fail before or after the server has acted.                       *)
(***************************************************************************)
EXTENDS Naturals, Sequences, FiniteSets

CONSTANTS
    Calls, SessionScopes,
    Pinned,                 \* the era the operator configured, or "" to probe
    maxScopesPerBinding,    \* 4096 in the code
    Echoes,                 \* the server repeats the session id on every answer
    MaxSessions, MaxBindings   \* bounds

VARIABLES
    resolution, \* the published bindingResolution: none, failed or bound
    resolveMu,  \* the call that resolves, or None
    bindings,   \* every eraBinding made: its era and scopes, last used first
    states,     \* every scopedState made: scope, sid, warmed, and its mutex
    call,
    server,     \* external: era, live sessions
    owner,      \* history: the scope each session was opened for
    executed,   \* history: how often the server ran each call
    carried,    \* history: <<scope, session>> of every request
    given       \* history: bindings some call could not open a session with

transportVars == <<resolution, resolveMu, bindings, states, call, server, owner, executed, carried, given>>

None == "none"

\* A binding remembers one scope at least, and None is not the name of a call.
TransportParameters == maxScopesPerBinding \in Nat \ {0} /\ None \notin Calls

Unresolved == [kind |-> "none", b |-> 0]
NoCall == [at |-> "idle", scope |-> None, b |-> 0, ss |-> 0, used |-> 0, retried |-> FALSE, status |-> 0]

TransportInit ==
    /\ resolution = Unresolved /\ resolveMu = None
    /\ bindings = <<>> /\ states = <<>>
    /\ call = [c \in Calls |-> NoCall]
    /\ server = [era |-> "legacy", alive |-> {}]
    /\ owner = <<>>
    /\ executed = [c \in Calls |-> 0]
    /\ carried = {} /\ given = {}

Goto(c, place) == call' = [call EXCEPT ![c].at = place]
Finish(c, ok) == call' = [call EXCEPT ![c] = [NoCall EXCEPT !.at = IF ok THEN "ok" ELSE "error"]]
history == <<owner, executed, carried, given>>

-----------------------------------------------------------------------------
(* resolveBinding. snapshot: a binding, or a failure not yet expired,      *)
(* answers without a probe.                                                *)
FromSnapshot(c) ==
    \/ /\ resolution.kind = "bound"
       /\ call' = [call EXCEPT ![c].at = "bound", ![c].b = resolution.b]
    \/ /\ resolution.kind = "failed"
       /\ Finish(c, FALSE)

Begin(c, s) ==
    /\ call[c].at = "idle"
    /\ call' = [call EXCEPT ![c].at = "load", ![c].scope = s]
    /\ UNCHANGED <<resolution, resolveMu, bindings, states, server, history>>

FastPath(c) ==
    /\ call[c].at = "load"
    /\ \/ FromSnapshot(c)
       \/ resolution.kind = "none" /\ Goto(c, "lock")
    /\ UNCHANGED <<resolution, resolveMu, bindings, states, server, history>>

(* The same question again under the lock. *)
SlowPath(c) ==
    /\ call[c].at = "lock" /\ resolveMu = None
    /\ \/ FromSnapshot(c) /\ UNCHANGED resolveMu
       \/ resolution.kind = "none" /\ resolveMu' = c /\ Goto(c, "probe")
    /\ UNCHANGED <<resolution, bindings, states, server, history>>

(* probeEra: server/discover, then the legacy initialize. A server that    *)
(* gives no clear answer counts as legacy. The era is the server's, unless *)
(* it is pinned.                                                           *)
EraFound == IF Pinned # "" THEN Pinned ELSE server.era

Bind(c) ==
    /\ call[c].at = "probe" /\ Len(bindings) < MaxBindings
    /\ bindings' = Append(bindings, [era |-> EraFound, scopes |-> <<>>])
    /\ resolution' = [kind |-> "bound", b |-> Len(bindings')]
    /\ resolveMu' = None
    /\ call' = [call EXCEPT ![c].at = "bound", ![c].b = Len(bindings')]
    /\ UNCHANGED <<states, server, history>>

(* A canceled caller says nothing about the server: nothing is published. *)
ProbeFails(c) ==
    /\ call[c].at = "probe" /\ Pinned = ""
    /\ resolution' \in {[kind |-> "failed", b |-> 0], resolution}
    /\ resolveMu' = None
    /\ Finish(c, FALSE)
    /\ UNCHANGED <<bindings, states, server, history>>

(* bindingProbeErrorTTL *)
FailureExpires ==
    /\ resolution.kind = "failed"
    /\ resolution' = Unresolved
    /\ UNCHANGED <<resolveMu, bindings, states, call, server, history>>

-----------------------------------------------------------------------------
(* stateFor: the scope's state moves to the front; a new one may push out  *)
(* the least recently used. A call that holds a state keeps it.            *)
StatesFor(b, s) == {i \in DOMAIN bindings[b].scopes : states[bindings[b].scopes[i]].scope = s}
Without(seq, i) == SubSeq(seq, 1, i - 1) \o SubSeq(seq, i + 1, Len(seq))

NewState(s) == [scope |-> s, sid |-> 0, warmed |-> FALSE, mu |-> None]

MakeRoom(scopes) ==
    IF Len(scopes) >= maxScopesPerBinding THEN SubSeq(scopes, 1, Len(scopes) - 1) ELSE scopes

Remembered(c) ==
    LET b == call[c].b
        scopes == bindings[b].scopes
    IN \E i \in StatesFor(b, call[c].scope) :
        /\ bindings' = [bindings EXCEPT ![b].scopes = <<scopes[i]>> \o Without(scopes, i)]
        /\ call' = [call EXCEPT ![c].at = "warm", ![c].ss = scopes[i]]
        /\ UNCHANGED states

(* The slip: the entry pushed out is recycled for the new scope. *)
FirstUseRecycling(c) ==
    LET b == call[c].b
        scopes == bindings[b].scopes
    IN /\ StatesFor(b, call[c].scope) = {}
       /\ IF Len(scopes) >= maxScopesPerBinding
          THEN /\ states' = [states EXCEPT ![scopes[Len(scopes)]].scope = call[c].scope]
               /\ call' = [call EXCEPT ![c].at = "warm", ![c].ss = scopes[Len(scopes)]]
               /\ UNCHANGED bindings
          ELSE /\ states' = Append(states, NewState(call[c].scope))
               /\ bindings' = [bindings EXCEPT ![b].scopes = <<Len(states')>> \o @]
               /\ call' = [call EXCEPT ![c].at = "warm", ![c].ss = Len(states')]

FirstUse(c) ==
    LET b == call[c].b
    IN /\ StatesFor(b, call[c].scope) = {}
       /\ states' = Append(states, NewState(call[c].scope))
       /\ bindings' = [bindings EXCEPT ![b].scopes = <<Len(states')>> \o MakeRoom(@)]
       /\ call' = [call EXCEPT ![c].at = "warm", ![c].ss = Len(states')]

stateFor(c) ==
    /\ call[c].at = "bound" /\ bindings[call[c].b].era = "legacy"
    /\ Remembered(c) \/ FirstUse(c)
    /\ UNCHANGED <<resolution, resolveMu, server, history>>

(* A modern call has no session and no state. *)
ModernCall(c) ==
    /\ call[c].at = "bound" /\ bindings[call[c].b].era = "modern"
    /\ Goto(c, "send")
    /\ UNCHANGED <<resolution, resolveMu, bindings, states, server, history>>

-----------------------------------------------------------------------------
(* ensureWarm, with the state's mutex held during the handshake. *)
ensureWarm(c) ==
    /\ call[c].at = "warm" /\ states[call[c].ss].mu = None
    /\ IF states[call[c].ss].warmed THEN Goto(c, "send") /\ UNCHANGED states
       ELSE /\ states' = [states EXCEPT ![call[c].ss].mu = c]
            /\ Goto(c, "warmup")
    /\ UNCHANGED <<resolution, resolveMu, bindings, server, history>>

(* The initialize that opens a session. *)
Warmup(c) ==
    /\ call[c].at \in {"warmup", "rewarm"}
    /\ server.era = "legacy" /\ Len(owner) < MaxSessions
    /\ owner' = Append(owner, call[c].scope)
    /\ server' = [server EXCEPT !.alive = @ \cup {Len(owner')}]
    /\ states' = [states EXCEPT ![call[c].ss].sid = Len(owner'), ![call[c].ss].warmed = TRUE,
                                ![call[c].ss].mu = None]
    /\ Goto(c, "send")
    /\ UNCHANGED <<resolution, resolveMu, bindings, executed, carried, given>>

(* No answer, an error, or a body that is no result. A state left cold is  *)
(* warmed by the next call; one that could not be warmed again costs the   *)
(* binding.                                                                *)
WarmupFails(c) ==
    /\ call[c].at \in {"warmup", "rewarm"}
    /\ states' = [states EXCEPT ![call[c].ss].mu = None]
    /\ IF call[c].at = "warmup" THEN Finish(c, FALSE) /\ UNCHANGED given
       ELSE Goto(c, "invalidate") /\ given' = given \cup {call[c].b}
    /\ UNCHANGED <<resolution, resolveMu, bindings, server, owner, executed, carried>>

-----------------------------------------------------------------------------
(* doCall: the session is read when the request is prepared. *)
Session(c) == IF call[c].ss = 0 THEN 0 ELSE states[call[c].ss].sid

Send(c) ==
    /\ call[c].at = "send"
    /\ call' = [call EXCEPT ![c].at = "sent", ![c].used = Session(c)]
    /\ carried' = carried \cup {<<call[c].scope, Session(c)>>}
    /\ UNCHANGED <<resolution, resolveMu, bindings, states, server, owner, executed, given>>

Accepts(c) ==
    /\ bindings[call[c].b].era = server.era
    /\ server.era = "legacy" => call[c].used \in server.alive

(* A legacy request for a session the server does not know is a 404; a     *)
(* server of the other era may answer with any refusal.                    *)
Serve(c) ==
    /\ call[c].at = "sent"
    /\ \/ /\ Accepts(c)
          /\ executed' = [executed EXCEPT ![c] = @ + 1]
          /\ \E status \in {200, 500} :
                call' = [call EXCEPT ![c].at = "answered", ![c].status = status]
       \/ /\ ~Accepts(c)
          /\ \E status \in IF bindings[call[c].b].era = server.era THEN {404} ELSE {400, 404} :
                call' = [call EXCEPT ![c].at = "answered", ![c].status = status]
          /\ UNCHANGED executed
    /\ UNCHANGED <<resolution, resolveMu, bindings, states, server, owner, carried, given>>

(* The slip: every refusal is worth a second try. *)
ExpiredOrFailed(c) == bindings[call[c].b].era = "legacy" /\ call[c].status # 200
(* Only a 404 of the legacy era means that the session is gone. *)
Expired(c) == bindings[call[c].b].era = "legacy" /\ call[c].status = 404

(* The session id an answer carries is kept, whatever the state holds now. *)
Receive(c) ==
    /\ call[c].at = "answered"
    /\ IF Echoes /\ call[c].ss # 0 /\ call[c].status \in {200, 500}
       THEN states' = [states EXCEPT ![call[c].ss].sid = call[c].used]
       ELSE UNCHANGED states
    /\ IF Expired(c) /\ ~call[c].retried
       THEN call' = [call EXCEPT ![c].at = "expired", ![c].retried = TRUE]
       ELSE Finish(c, call[c].status = 200)
    /\ UNCHANGED <<resolution, resolveMu, bindings, server, history>>

(* The request or its answer is lost: an error, and never a second try. *)
ExchangeFails(c) ==
    /\ call[c].at \in {"sent", "answered"}
    /\ Finish(c, FALSE)
    /\ UNCHANGED <<resolution, resolveMu, bindings, states, server, history>>

-----------------------------------------------------------------------------
(* reinitAndRetry: another call may have opened a session meanwhile. *)
AlreadyRenewed(c) == states[call[c].ss].sid \notin {0, call[c].used}

reinitAndRetry(c) ==
    /\ call[c].at = "expired" /\ states[call[c].ss].mu = None
    /\ IF AlreadyRenewed(c) THEN Goto(c, "send") /\ UNCHANGED states
       ELSE /\ states' = [states EXCEPT ![call[c].ss].sid = 0, ![call[c].ss].mu = c]
            /\ Goto(c, "rewarm")
    /\ UNCHANGED <<resolution, resolveMu, bindings, server, history>>

(* The slip: a plain store in place of the compare-and-swap. *)
ClearedAnyway(b) == Unresolved
Cleared(b) == IF resolution.kind = "bound" /\ resolution.b = b THEN Unresolved ELSE resolution

invalidateBinding(c) ==
    /\ call[c].at = "invalidate"
    /\ resolution' = Cleared(call[c].b)
    /\ Finish(c, FALSE)
    /\ UNCHANGED <<resolveMu, bindings, states, server, history>>

-----------------------------------------------------------------------------
(* The server. *)
Forgets ==
    /\ \E n \in server.alive : server' = [server EXCEPT !.alive = @ \ {n}]
    /\ UNCHANGED <<resolution, resolveMu, bindings, states, call, history>>

Upgrade ==
    /\ server.era = "legacy"
    /\ server' = [era |-> "modern", alive |-> {}]
    /\ UNCHANGED <<resolution, resolveMu, bindings, states, call, history>>

CallStep(c) ==
    \/ FastPath(c) \/ SlowPath(c) \/ Bind(c) \/ ProbeFails(c) \/ stateFor(c) \/ ModernCall(c)
    \/ ensureWarm(c) \/ Warmup(c) \/ WarmupFails(c) \/ Send(c) \/ Serve(c) \/ Receive(c)
    \/ ExchangeFails(c) \/ reinitAndRetry(c) \/ invalidateBinding(c)

TransportNext ==
    \/ FailureExpires \/ Forgets \/ Upgrade
    \/ \E c \in Calls : CallStep(c) \/ \E s \in SessionScopes : Begin(c, s)

TransportSpec == TransportInit /\ [][TransportNext]_transportVars

-----------------------------------------------------------------------------
\* The server runs a call at most once, although a call is tried a second time
\* when its session has expired and its answer may be lost
\* (Call, doCall and reinitAndRetry).
ExecutedOnce == \A c \in Calls : executed[c] <= 1

\* A request carries only a session that was opened for its own scope, also
\* when the scope's state was pushed out while the call held it and when a late
\* answer restores an older session (stateFor, doCall).
OwnScope == \A r \in carried : r[2] # 0 => owner[r[2]] = r[1]

\* A binding is given up only when a call could not open a session with that
\* very binding: a late failure on an old binding does not throw away the one
\* that replaced it (invalidateBinding's compare-and-swap).
BindingKept == \A b \in DOMAIN bindings : resolution = [kind |-> "bound", b |-> b] \/ b \in given

\* Scopes share no session, and no call loses another one's binding
\* (stateFor, doCall, invalidateBinding).
SessionsStayApart == OwnScope /\ BindingKept
=============================================================================
